--------------------------- MODULE EcdhPsiProofs ----------------------------
(* Theorems about EcdhPsi, for lists, batches, throttle windows and numbers  *)
(* of crashes of any size: the types, the links and the counts (LinkInv),    *)
(* the stores behind every checkpoint that a restart can load (StoreInv),    *)
(* that both parties run Online or both skip it (DecisionInv), and that one  *)
(* pair of keys masks everything that is ever compared (KeyInv).             *)
EXTENDS EcdhPsi, TLAPS

-----------------------------------------------------------------------------
(* Types: every step from a state of LinkInv keeps TypeOK.                   *)

LEMMA Others ==
  /\ \A p \in Party : Other(p) \in Party /\ Other(p) # p /\ Other(Other(p)) = p
  /\ \A p, q \in Party : q = p \/ q = Other(p)
BY DEF Party, Other

LEMMA TypeInit == Init => TypeOK
<1> SUFFICES ASSUME Init PROVE TypeOK
  BY Zenon
<1>1. ControlTypes
  BY DEF Init, ControlTypes, Idle, UNSPECIFIED
<1>2. CkptTypes
  BY DEF Init, CkptTypes, NotSaving, NoCheckpoint, Checkpoints, UNSPECIFIED
<1>3. KeyTypes /\ LinkTypes /\ StoreTypes
  BY DEF Init, KeyTypes, LinkTypes, StoreTypes
<1> QED BY <1>1, <1>2, <1>3, Zenon DEF TypeOK

-----------------------------------------------------------------------------
(* Groups of variables that an action leaves alone keep their types. *)

LEMMA CkptSame == CkptTypes /\ UNCHANGED ckptVars => CkptTypes'
BY Zenon DEF CkptTypes, ckptVars

LEMMA KeySame == KeyTypes /\ UNCHANGED keyVars => KeyTypes'
BY Zenon DEF KeyTypes, keyVars

LEMMA LinkSame == LinkTypes /\ UNCHANGED linkVars => LinkTypes'
BY Zenon DEF LinkTypes, linkVars

LEMMA StoreSame == StoreTypes /\ UNCHANGED storeVars => StoreTypes'
BY Zenon DEF StoreTypes, storeVars

LEMMA ControlSame == ControlTypes /\ UNCHANGED <<taskVars, pc, record, start, th>>
                       => ControlTypes'
BY Zenon DEF ControlTypes, taskVars

\* The main thread moves on and starts no thread.
LEMMA ControlMoves ==
  ASSUME ControlTypes, NEW p \in Party,
         NEW place \in {"Init", "PreProcess", "OnlineStart", "OnlineGather",
                        "RunEcdhPsi", "OnlineSync", "OnlineEnd", "PostProcess",
                        "PostEnd", "Finalize", "FinalizeSync", "done", "down"},
         Goto(p, place), UNCHANGED <<taskVars, record, start, th>>
  PROVE  ControlTypes'
BY Zenon DEF ControlTypes, taskVars, Goto

\* A thread of RunEcdhPsi moves on.
LEMMA ThreadMoves ==
  ASSUME ControlTypes, UNCHANGED <<taskVars, pc, record, start>>, NEW p \in Party,
         \/ \E x \in {"send", "done"} : th' = [th EXCEPT ![p].self = x]
         \/ \E x \in {"recv", "flush", "dual", "done"} : th' = [th EXCEPT ![p].peer = x]
         \/ \E x \in {"recv", "flush", "saved", "done"} : th' = [th EXCEPT ![p].recv = x]
  PROVE  ControlTypes'
BY DEF ControlTypes, taskVars

LEMMA MarkTypes ==
  ASSUME CkptTypes, NEW p \in Party, NEW t \in Savers, NEW ck \in Checkpoints, Mark(p, t, ck)
  PROVE  CkptTypes'
BY Zenon DEF CkptTypes, Mark

LEMMA MarkStageTypes ==
  ASSUME CkptTypes, NEW p \in Party, NEW s \in 0 .. 5, MarkStage(p, s)
  PROVE  CkptTypes'
<1>1. [ckpt[p] EXCEPT !.stage = s] \in Checkpoints
  BY SMTT(60) DEF CkptTypes, Checkpoints
<1>2. "main" \in Savers
  BY Zenon DEF Savers
<1> QED BY <1>1, <1>2, MarkTypes, CkptSame, Zenon DEF MarkStage

LEMMA AppendTypes ==
  ASSUME NEW S, NEW f \in [Party -> Seq(S)], NEW p \in Party, NEW b \in S
  PROVE  [f EXCEPT ![p] = Append(@, b)] \in [Party -> Seq(S)]
OBVIOUS

LEMMA ThreadsTypes ==
  \A p \in Party : Threads(p) \in [self : {"idle", "send", "done"},
                                   peer : {"idle", "recv", "flush", "dual", "done"},
                                   recv : {"idle", "recv", "flush", "saved", "done"}]
BY Zenon DEF Threads

\* The provider's batch around position i reaches beyond i, up to the end of
\* the list.
LEMMA BatchEnds ==
  ASSUME NEW p \in Party, NEW i \in Nat
  PROVE  /\ BatchEnd(p, i) \in Nat
         /\ i - (i % BatchSize) \in Nat /\ i - (i % BatchSize) <= i
         /\ i <= N[p] => /\ i <= BatchEnd(p, i) /\ BatchEnd(p, i) <= N[p]
                        /\ (i = BatchEnd(p, i) => i = N[p])
<1>1. BatchSize \in Nat \ {0} /\ N[p] \in Nat
  BY ConstAssumption, Zenon
<1>2. i % BatchSize \in 0 .. BatchSize - 1 /\ i % BatchSize <= i
  BY <1>1
<1> DEFINE m == i % BatchSize
<1> HIDE DEF m
<1>3. m \in 0 .. BatchSize - 1 /\ m <= i
  BY <1>2, Zenon DEF m
<1> QED BY <1>1, <1>3 DEF BatchEnd, Smaller, m

-----------------------------------------------------------------------------
(* Type correctness, given the order of the batches in flight. *)

\* Lines written for a batch are lines.
LEMMA LinesTypes ==
  ASSUME LinkInv, NEW p \in Party
  PROVE  /\ \A k \in 1 .. Len(main[Other(p)]) :
              LET b == main[Other(p)][k] IN
              b \in Batches /\ b.hi - b.lo \in Nat /\ PeerLines(p, b) \in SUBSET Lines
         /\ \A k \in 1 .. Len(dual[Other(p)]) :
              LET b == dual[Other(p)][k] IN
              b \in DualBatches /\ b.hi - b.lo \in Nat /\ SelfLines(p, b) \in SUBSET Lines
<1> DEFINE q == Other(p)
<1>0. q \in Party /\ Other(q) = p /\ TypeOK
  BY Others, Zenon DEF LinkInv
<1>1. ASSUME NEW k \in 1 .. Len(main[q])
      PROVE  /\ main[q][k] \in Batches /\ main[q][k].hi - main[q][k].lo \in Nat
             /\ PeerLines(p, main[q][k]) \in SUBSET Lines
  <2> DEFINE b == main[q][k]
  <2>1. b \in Batches
    BY SMTT(60), <1>0 DEF TypeOK, LinkTypes
  <2>2. b.base <= b.lo /\ b.lo <= b.hi /\ b.hi <= N[q]
    BY <1>0, Zenon DEF LinkInv, MainInOrder, DualInOrder
  <2>3. b.hi - b.lo \in Nat
    BY <2>1, <2>2 DEF Batches
  <2>4. ASSUME NEW i \in b.lo .. b.hi - 1
        PROVE  /\ peerIdx[p] + (i - b.lo) \in Nat /\ i \in Nat
               /\ Dup[q][b.base + (i - b.lo)] \in Nat
    <3>1. i \in Nat /\ i - b.lo \in Nat
      BY <2>1 DEF Batches
    <3>2. b.base \in Nat /\ b.lo \in Nat /\ b.hi \in Nat /\ N[q] \in Nat
      BY <1>0, <2>1, ConstAssumption, Zenon DEF Batches
    <3>3. \A base, lo, hi, n \in Nat : \A j \in lo .. hi - 1 :
            base <= lo /\ hi <= n => base + (j - lo) \in 0 .. n - 1
      OBVIOUS
    <3>4. b.base + (i - b.lo) \in 0 .. N[q] - 1
      BY Zenon, <2>2, <3>2, <3>3
    <3>5. Dup[q][b.base + (i - b.lo)] \in Nat
      BY <1>0, <3>4, ConstAssumption, Zenon
    <3>6. peerIdx[p] \in Nat
      BY <1>0, Zenon DEF TypeOK, StoreTypes
    <3> HIDE DEF b, q
    <3> QED BY <3>1, <3>5, <3>6
  <2>5. run \in Nat /\ key[p] \in Nat /\ b.own \in Nat
    BY <1>0, <2>1, Zenon DEF TypeOK, ControlTypes, KeyTypes, Batches
  <2>6. PeerLines(p, b) \in SUBSET Lines
    <3> HIDE DEF b
    <3>1. q = Other(p)
      BY Zenon
    <3> HIDE DEF q
    <3> SUFFICES ASSUME NEW i \in b.lo .. b.hi - 1
                 PROVE  [run |-> run, idx |-> peerIdx[p] + (i - b.lo), pos |-> i,
                         dup |-> Dup[q][b.base + (i - b.lo)], own |-> b.own,
                         via |-> key[p]] \in Lines
      BY <3>1, Zenon DEF PeerLines
    <3> QED BY <2>4, <2>5, Zenon DEF Lines
  <2> QED BY <2>1, <2>3, <2>6, Zenon
<1>2. ASSUME NEW k \in 1 .. Len(dual[q])
      PROVE  /\ dual[q][k] \in DualBatches /\ dual[q][k].hi - dual[q][k].lo \in Nat
             /\ SelfLines(p, dual[q][k]) \in SUBSET Lines
  <2> DEFINE b == dual[q][k]
  <2>1. b \in DualBatches
    BY SMTT(60), <1>0 DEF TypeOK, LinkTypes
  <2>2. b.lo <= b.hi
    <3>1. b.lo = main[p][k].lo /\ b.hi = main[p][k].hi
      BY <1>0 DEF LinkInv, MainInOrder, DualInOrder
    <3>2. Len(dual[q]) <= mainRecv[q] /\ mainRecv[q] <= Len(main[p])
      BY SMTT(60), <1>0 DEF LinkInv, MainInOrder, DualInOrder, TypeOK, LinkTypes
    <3>3. k \in 1 .. Len(main[p])
      <4>1. dual[q] \in Seq(DualBatches) /\ mainRecv[q] \in Nat /\ main[p] \in Seq(Batches)
        BY <1>0, Zenon DEF LinkInv, TypeOK, LinkTypes
      <4>2. Len(dual[q]) \in Nat /\ Len(main[p]) \in Nat
        BY <4>1
      <4> QED BY <3>2, <4>1, <4>2
    <3> QED BY <3>1, <3>3, Zenon DEF LinkInv, MainInOrder, DualInOrder
  <2>3. b.hi - b.lo \in Nat
    BY <2>1, <2>2 DEF DualBatches
  <2>4. ASSUME NEW i \in b.lo .. b.hi - 1
        PROVE  selfIdx[p] + (i - b.lo) \in Nat /\ i \in Nat
    BY SMTT(60), <1>0, <2>1 DEF DualBatches, TypeOK, StoreTypes
  <2>5. run \in Nat /\ b.own \in Nat /\ b.via \in Nat
    BY <1>0, <2>1, Zenon DEF TypeOK, ControlTypes, DualBatches
  <2>6. SelfLines(p, b) \in SUBSET Lines
    <3> HIDE DEF b
    <3> QED BY <2>4, <2>5 DEF SelfLines, Lines
  <2> QED BY <2>1, <2>3, <2>6, Zenon
<1> QED BY <1>1, <1>2, Zenon

\* Every step keeps the types.
LEMMA TypeStep == LinkInv /\ [Next]_vars => TypeOK'
<1> SUFFICES ASSUME LinkInv, [Next]_vars PROVE TypeOK'
  BY Zenon
<1>0. ControlTypes /\ CkptTypes /\ KeyTypes /\ LinkTypes /\ StoreTypes
  BY Zenon DEF LinkInv, TypeOK
<1> USE <1>0
<1>1. ASSUME NEW p \in Party, InitEnd(p) PROVE TypeOK'
  <2>1. ControlTypes'
    BY <1>1, ControlMoves, Zenon DEF InitEnd
  <2>2. CkptTypes'
    BY <1>1, MarkStageTypes DEF InitEnd, INIT_END
  <2> QED BY <1>1, <2>1, <2>2, KeySame, LinkSame, StoreSame, Zenon DEF InitEnd, TypeOK
<1>2. ASSUME NEW p \in Party, PreProcess(p) PROVE TypeOK'
  <2>1. ControlTypes'
    BY <1>2, ControlMoves, Zenon DEF PreProcess
  <2>2. CkptTypes'
    BY <1>2, MarkStageTypes DEF PreProcess, PRE_PROCESS_END
  <2>3. KeyTypes'
    BY <1>2, Zenon DEF PreProcess, ControlTypes, KeyTypes
  <2> QED BY <1>2, <2>1, <2>2, <2>3, LinkSame, StoreSame, Zenon DEF PreProcess, TypeOK
<1>3. ASSUME NEW p \in Party, OnlineStart(p) PROVE TypeOK'
  <2>1. [stage |-> ckpt[p].stage, cnt |-> ckpt[p].peer] \in [stage : 0 .. 5, cnt : Nat]
    BY <1>3, Zenon DEF CkptTypes, Checkpoints
  <2>2. record' \in [Party -> [stage : 0 .. 5, cnt : Nat]]
    BY <1>3, <2>1, Zenon DEF OnlineStart, ControlTypes
  <2>3. ControlTypes'
    BY ZenonT(60), <1>3, <2>2, ThreadsTypes DEF OnlineStart, ControlTypes, Goto, taskVars
  <2> QED BY <1>3, <2>1, <2>2, <2>3, CkptSame, KeySame, LinkSame, StoreSame, Zenon DEF OnlineStart, TypeOK
<1>4. ASSUME NEW p \in Party, OnlineGather(p) PROVE TypeOK'
  <2>1. Processed(p) \in Nat
    BY <1>4, Others, Zenon DEF Processed, Smaller, ControlTypes, CkptTypes, Checkpoints
  <2>2. ControlTypes'
    BY ZenonT(60), <1>4, <2>1, ThreadsTypes DEF OnlineGather, ControlTypes, Goto, taskVars
  <2>3. CkptTypes'
    BY <1>4, MarkStageTypes DEF OnlineGather, ONLINE_START
  <2>4. LinkTypes'
    BY Zenon, <1>4, <2>1 DEF OnlineGather, LinkTypes
  <2> QED BY <1>4, <2>1, <2>2, <2>3, <2>4, KeySame, StoreSame, Zenon DEF OnlineGather, TypeOK
<1>5. ASSUME NEW p \in Party, Join(p) PROVE TypeOK'
  <2>1. ControlTypes'
    BY <1>5, ControlMoves, Zenon DEF Join
  <2> QED BY <1>5, <2>1, CkptSame, KeySame, LinkSame, StoreSame, Zenon DEF Join, TypeOK
<1>6. ASSUME NEW p \in Party, OnlineEnd(p) PROVE TypeOK'
  <2>1. ControlTypes'
    BY <1>6, ControlMoves, Zenon DEF OnlineEnd
  <2>2. CkptTypes'
    BY <1>6, MarkStageTypes DEF OnlineEnd, ONLINE_END
  <2> QED BY <1>6, <2>1, <2>2, KeySame, LinkSame, StoreSame, Zenon DEF OnlineEnd, TypeOK
<1>7. ASSUME NEW p \in Party, PostProcess(p) PROVE TypeOK'
  <2>1. ControlTypes'
    BY <1>7, ControlMoves, Zenon DEF PostProcess
  <2>2. StoreTypes'
    BY <1>7, Zenon DEF PostProcess, StoreTypes
  <2> QED BY <1>7, <2>1, <2>2, CkptSame, KeySame, LinkSame, Zenon DEF PostProcess, TypeOK
<1>8. ASSUME NEW p \in Party, PostEnd(p) PROVE TypeOK'
  <2>1. ControlTypes'
    BY <1>8, ControlMoves, Zenon DEF PostEnd
  <2>2. CkptTypes'
    BY <1>8, MarkStageTypes DEF PostEnd, POST_PROCESS_END
  <2> QED BY <1>8, <2>1, <2>2, KeySame, LinkSame, StoreSame, Zenon DEF PostEnd, TypeOK
<1>9. ASSUME NEW p \in Party, FinalizeWrite(p) PROVE TypeOK'
  <2>1. ControlTypes'
    BY <1>9, ControlMoves, Zenon DEF FinalizeWrite
  <2> QED BY Zenon, <1>9, <2>1, CkptSame, KeySame, LinkSame, StoreSame DEF FinalizeWrite, TypeOK
<1>10. ASSUME NEW p \in Party, FinalizeThrows(p) PROVE TypeOK'
  <2>1. ControlTypes'
    BY <1>10, ControlMoves, Zenon DEF FinalizeThrows
  <2> QED BY <1>10, <2>1, CkptSame, KeySame, LinkSame, StoreSame, Zenon DEF FinalizeThrows, TypeOK
<1>11. ASSUME NEW p \in Party, Finalize(p) PROVE TypeOK'
  <2>1. ControlTypes'
    BY <1>11, ControlMoves, Zenon DEF Finalize
  <2> QED BY <1>11, <2>1, CkptSame, KeySame, LinkSame, StoreSame, Zenon DEF Finalize, TypeOK
<1>12. ASSUME NEW p \in Party, MaskSelf(p) PROVE TypeOK'
  <2>1. ControlTypes'
    BY Zenon, <1>12, ThreadMoves DEF MaskSelf
  <2>2. BatchEnd(p, pos[p]) \in Nat /\ pos[p] - (pos[p] % BatchSize) \in Nat
    BY <1>12, BatchEnds, Zenon DEF LinkTypes
  <2>3. Sends(p) + 1 \in Nat
    BY <1>12 DEF Sends, LinkTypes
  <2>4. [lo |-> pos[p], hi |-> BatchEnd(p, pos[p]), base |-> pos[p] - (pos[p] % BatchSize),
        own |-> key[p]] \in Batches
    BY <1>12, <2>2, Zenon DEF Batches, LinkTypes, KeyTypes
  <2>5. main' \in [Party -> Seq(Batches)]
    BY <1>12, <2>4 DEF MaskSelf, LinkTypes
  <2>6. hold' \in [Party -> [self : Nat, peer : Nat]]
    BY Zenon, <1>12, <2>3 DEF MaskSelf, LinkTypes
  <2>7. pos' \in [Party -> Nat]
    BY <1>12, <2>2, Zenon DEF MaskSelf, LinkTypes
  <2>8. LinkTypes'
    BY Zenon, <1>12, <2>5, <2>6, <2>7 DEF MaskSelf, LinkTypes
  <2> QED BY Zenon, <1>12, <2>1, <2>8, CkptSame, KeySame, StoreSame DEF MaskSelf, TypeOK
<1>13. ASSUME NEW p \in Party, MaskPeerRecv(p) PROVE TypeOK'
  <2>1. mainRecv[p] + 1 \in 1 .. Len(main[Other(p)])
    <3>1. mainRecv[p] < Len(main[Other(p)])
      BY Zenon, <1>13 DEF MaskPeerRecv
    <3>2. mainRecv[p] \in Nat /\ Len(main[Other(p)]) \in Nat
      BY <1>13, Others DEF LinkTypes
    <3> QED BY <3>1, <3>2
  <2>2. ControlTypes'
    BY Zenon, <1>13, ThreadMoves DEF MaskPeerRecv
  <2>3. mainRecv' = [mainRecv EXCEPT ![p] = @ + 1] /\ UNCHANGED <<pos, main, dual, dualRecv, hold>>
    BY <1>13, Zenon DEF MaskPeerRecv
  <2>4. LinkTypes'
    BY SMTT(60), <1>13, <2>3 DEF LinkTypes
  <2>5. StoreTypes'
    <3> DEFINE b == main[Other(p)][mainRecv[p] + 1]
               keeps == p \in Targets /\ b.lo < b.hi
    <3>1. /\ peerBuf' = [peerBuf EXCEPT ![p] = IF keeps THEN @ \cup PeerLines(p, b) ELSE @]
          /\ peerIdx' = [peerIdx EXCEPT ![p] = IF keeps THEN @ + (b.hi - b.lo) ELSE @]
          /\ UNCHANGED <<self, peer, selfBuf, selfIdx>>
      BY Zenon, <1>13 DEF MaskPeerRecv
    <3>2. PeerLines(p, b) \subseteq Lines /\ b.hi - b.lo \in Nat
      BY Zenon, <1>13, <2>1, LinesTypes
    <3> HIDE DEF b, keeps
    <3> QED BY <1>13, <3>1, <3>2 DEF StoreTypes
  <2> QED BY Zenon, <1>13, <2>2, <2>4, <2>5, CkptSame, KeySame DEF MaskPeerRecv, TypeOK
<1>14. ASSUME NEW p \in Party, MaskPeerFlush(p) PROVE TypeOK'
  <2>1. ControlTypes'
    BY Zenon, <1>14, ThreadMoves DEF MaskPeerFlush
  <2>2. [stage |-> ONLINE_START, self |-> ckpt[p].self, peer |-> peerIdx[p]] \in Checkpoints
    BY <1>14 DEF CkptTypes, StoreTypes, Checkpoints, ONLINE_START
  <2>3. CkptTypes'
    BY <1>14, <2>2, MarkTypes, Zenon DEF MaskPeerFlush, Savers
  <2>4. StoreTypes'
    BY <1>14, Zenon DEF MaskPeerFlush, StoreTypes
  <2> QED BY <1>14, <2>1, <2>2, <2>3, <2>4, KeySame, LinkSame, Zenon DEF MaskPeerFlush, TypeOK
<1>15. ASSUME NEW p \in Party, MaskPeerDual(p) PROVE TypeOK'
  <2>1. ControlTypes'
    BY ZenonT(60), <1>15, ThreadMoves DEF MaskPeerDual
  <2>2. mainRecv[p] \in 1 .. Len(main[Other(p)])
    BY <1>15, Others DEF MaskPeerDual, LinkInv, ThreadsInStep, MainInOrder, DualInOrder, LinkTypes
  <2>3. main[Other(p)][mainRecv[p]] \in Batches
    BY SMTT(60), <1>15, <2>2, Others DEF LinkTypes
  <2>4. [lo |-> main[Other(p)][mainRecv[p]].lo, hi |-> main[Other(p)][mainRecv[p]].hi,
        own |-> main[Other(p)][mainRecv[p]].own, via |-> key[p]] \in DualBatches
    BY Zenon, <1>15, <2>3 DEF KeyTypes, Batches, DualBatches
  <2>5. \/ UNCHANGED dual
        \/ \E b \in DualBatches : dual' = [dual EXCEPT ![p] = Append(@, b)]
    BY <1>15, <2>4, Zenon DEF MaskPeerDual
  <2>6. dual' \in [Party -> Seq(DualBatches)]
    <3>1. dual \in [Party -> Seq(DualBatches)]
      BY Zenon DEF LinkTypes
    <3>2. CASE UNCHANGED dual
      BY <3>1, <3>2, Zenon
    <3>3. ASSUME NEW b \in DualBatches, dual' = [dual EXCEPT ![p] = Append(@, b)]
          PROVE  dual' \in [Party -> Seq(DualBatches)]
      BY <3>1, <3>3, AppendTypes, Zenon
    <3> QED BY <2>5, <3>2, <3>3, Zenon
  <2>7. UNCHANGED <<pos, main, mainRecv, dualRecv, hold>>
    BY <1>15, Zenon DEF MaskPeerDual
  <2>8. LinkTypes'
    BY Zenon, <1>15, <2>6, <2>7 DEF LinkTypes
  <2> QED BY Zenon, <1>15, <2>1, <2>8, CkptSame, KeySame, StoreSame DEF MaskPeerDual, TypeOK
<1>16. ASSUME NEW p \in Party, RecvDualMaskedSelf(p) PROVE TypeOK'
  <2>1. dualRecv[p] + 1 \in 1 .. Len(dual[Other(p)])
    <3>1. dualRecv[p] < Len(dual[Other(p)])
      BY Zenon, <1>16 DEF RecvDualMaskedSelf
    <3>2. dualRecv[p] \in Nat /\ Len(dual[Other(p)]) \in Nat
      BY <1>16, Others DEF LinkTypes
    <3> QED BY <3>1, <3>2
  <2>2. ControlTypes'
    BY Zenon, <1>16, ThreadMoves DEF RecvDualMaskedSelf
  <2>3. dualRecv' = [dualRecv EXCEPT ![p] = @ + 1] /\ UNCHANGED <<pos, main, dual, mainRecv, hold>>
    BY <1>16, Zenon DEF RecvDualMaskedSelf
  <2>4. LinkTypes'
    BY SMTT(60), <1>16, <2>3 DEF LinkTypes
  <2>5. StoreTypes'
    <3> DEFINE b == dual[Other(p)][dualRecv[p] + 1]
    <3>1. /\ selfBuf' = [selfBuf EXCEPT ![p] = @ \cup SelfLines(p, b)]
          /\ selfIdx' = [selfIdx EXCEPT ![p] = @ + (b.hi - b.lo)]
          /\ UNCHANGED <<self, peer, peerBuf, peerIdx>>
      BY Zenon, <1>16 DEF RecvDualMaskedSelf
    <3>2. SelfLines(p, b) \subseteq Lines /\ b.hi - b.lo \in Nat
      BY Zenon, <1>16, <2>1, LinesTypes
    <3> HIDE DEF b
    <3> QED BY <1>16, <3>1, <3>2 DEF StoreTypes
  <2> QED BY Zenon, <1>16, <2>2, <2>4, <2>5, CkptSame, KeySame DEF RecvDualMaskedSelf, TypeOK
<1>17. ASSUME NEW p \in Party, RecvDualMaskedFlush(p) PROVE TypeOK'
  <2>1. ControlTypes'
    BY Zenon, <1>17, ThreadMoves DEF RecvDualMaskedFlush
  <2>2. [stage |-> ONLINE_START, self |-> selfIdx[p], peer |-> ckpt[p].peer] \in Checkpoints
    BY <1>17 DEF CkptTypes, StoreTypes, Checkpoints, ONLINE_START
  <2>3. CkptTypes'
    BY <1>17, <2>2, MarkTypes, Zenon DEF RecvDualMaskedFlush, Savers
  <2>4. StoreTypes'
    BY <1>17, Zenon DEF RecvDualMaskedFlush, StoreTypes
  <2> QED BY <1>17, <2>1, <2>2, <2>3, <2>4, KeySame, LinkSame, Zenon DEF RecvDualMaskedFlush, TypeOK
<1>18. ASSUME NEW p \in Party, RecvDualMaskedNext(p) PROVE TypeOK'
  <2>1. ControlTypes'
    BY Zenon, <1>18, ThreadMoves DEF RecvDualMaskedNext
  <2> QED BY SMTT(60), <1>18, <2>1, CkptSame, KeySame, LinkSame, StoreSame DEF RecvDualMaskedNext, TypeOK
<1>19. ASSUME NEW p \in Party, Crash(p) PROVE TypeOK'
  <2>1. ControlTypes'
    BY <1>19 DEF Crash, ControlTypes, Goto
  <2>2. StoreTypes'
    BY <1>19 DEF Crash, StoreTypes
  <2> QED BY Zenon, <1>19, <2>1, <2>2, CkptSame, KeySame, LinkSame DEF Crash, TypeOK
<1>20. ASSUME NEW p \in Party, Abort(p) PROVE TypeOK'
  <2>1. ControlTypes'
    BY Zenon, <1>20, ControlMoves DEF Abort
  <2>2. StoreTypes'
    BY <1>20, Zenon DEF Abort, StoreTypes
  <2> QED BY Zenon, <1>20, <2>1, <2>2, CkptSame, KeySame, LinkSame DEF Abort, TypeOK
<1>21. ASSUME NEW p \in Party, NEW t \in Savers, Save(p, t) PROVE TypeOK'
  <2>1. CkptTypes'
    <3>1. CASE SaveOpen(p, t)
      BY Zenon, <3>1 DEF SaveOpen, CkptTypes
    <3>2. CASE SaveWrite(p, t)
      BY <3>2, Zenon DEF SaveWrite, CkptTypes
    <3> QED BY <1>21, <3>1, <3>2, Zenon DEF Save
  <2> QED BY <1>21, <2>1, ControlSame, KeySame, LinkSame, StoreSame, Zenon
          DEF Save, SaveOpen, SaveWrite, TypeOK
<1>22. CASE Restart
  <2>1. ControlTypes'
    BY SMTT(60), <1>22 DEF Restart, ControlTypes, Idle, UNSPECIFIED
  <2>2. CkptTypes'
    <3>1. /\ ckpt' = [p \in Party |-> IF file[p].st = "ok" THEN file[p].ck ELSE NoCheckpoint]
          /\ saving' = [p \in Party |-> NotSaving]
          /\ image' = [p \in Party |-> NoCheckpoint] /\ file' = file
      BY Zenon, <1>22 DEF Restart
    <3>2. NoCheckpoint \in Checkpoints
      BY DEF NoCheckpoint, Checkpoints, UNSPECIFIED
    <3>3. NotSaving \in [Savers -> {"no", "save", "write"}]
      BY Zenon DEF NotSaving
    <3>4. file \in [Party -> [st : {"none", "torn", "ok"}, ck : Checkpoints]]
      BY Zenon DEF CkptTypes
    <3> QED BY <3>1, <3>2, <3>3, <3>4, Zenon DEF CkptTypes
  <2>3. KeyTypes' /\ LinkTypes'
    <3>1. key' = [p \in Party |-> 0] /\ keyFile' = keyFile
      BY Zenon, <1>22 DEF Restart
    <3>2. /\ pos' = [p \in Party |-> 0] /\ main' = [p \in Party |-> <<>>]
          /\ dual' = [p \in Party |-> <<>>] /\ mainRecv' = [p \in Party |-> 0]
          /\ dualRecv' = [p \in Party |-> 0]
          /\ hold' = [p \in Party |-> [self |-> 0, peer |-> 0]]
      BY Zenon, <1>22 DEF Restart
    <3>3. KeyTypes'
      BY <3>1, Zenon DEF KeyTypes
    <3>4. LinkTypes'
      BY <3>2 DEF LinkTypes
    <3> QED BY <3>3, <3>4, Zenon
  <2>4. StoreTypes'
    BY Zenon, <1>22 DEF Restart, StoreTypes
  <2> QED BY <2>1, <2>2, <2>3, <2>4, Zenon DEF TypeOK
<1>23. CASE UNCHANGED vars
  BY <1>23, ControlSame, CkptSame, KeySame, LinkSame, StoreSame, Zenon
     DEF vars, taskVars, ckptVars, keyVars, linkVars, storeVars, TypeOK
<1> QED BY Zenon, <1>1, <1>2, <1>3, <1>4, <1>5, <1>6, <1>7, <1>8, <1>9, <1>10, <1>11, <1>12, <1>13, <1>14, <1>15, <1>16, <1>17, <1>18, <1>19, <1>20, <1>21, <1>22, <1>23
        DEF Next, MainStep, MaskPeer, RecvSelf, Terminated

-----------------------------------------------------------------------------
(* Links: the order of the batches in flight and the threads in step with    *)
(* them.                                                                     *)

(* The batches in flight. *)

LEMMA BatchesSame ==
  ASSUME LinkInv, UNCHANGED <<start, pos, main, dual, mainRecv, dualRecv>>,
         \A r \in Party : th'[r].peer \in {"flush", "dual"} <=> th[r].peer \in {"flush", "dual"},
         NEW r \in Party
  PROVE  MainInOrder(r)' /\ DualInOrder(r)'
BY Others DEF LinkInv, MainInOrder, DualInOrder, UpTo

\* Before Online starts, nothing is in flight.
LEMMA NothingSent ==
  ASSUME LinkInv, NEW p \in Party, th[p] = Idle
  PROVE  /\ main[p] = <<>> /\ Len(main[p]) = 0 /\ start[p] = 0
         /\ mainRecv[Other(p)] = 0 /\ Len(dual[Other(p)]) = 0 /\ dualRecv[p] = 0
<1>1. main[p] = <<>> /\ Len(main[p]) = 0 /\ start[p] = 0
  BY DEF LinkInv, ThreadsInStep, Idle
<1>2. mainRecv[Other(p)] = 0
  BY <1>1, Others DEF LinkInv, MainInOrder, DualInOrder, TypeOK, LinkTypes
<1>3. Len(dual[Other(p)]) <= mainRecv[Other(p)] /\ Len(dual[Other(p)]) \in Nat
  <2>1. Other(p) \in Party
    BY Others, Zenon
  <2>2. DualInOrder(Other(p)) /\ LinkTypes
    BY <2>1, Zenon DEF LinkInv, TypeOK
  <2>3. /\ dual[Other(p)] \in Seq(DualBatches) /\ mainRecv[Other(p)] \in Nat
    BY <2>1, <2>2 DEF LinkTypes
  <2>4. Len(dual[Other(p)]) \in Nat
    BY <2>3
  <2>5. \/ Len(dual[Other(p)]) = 0
        \/ Len(dual[Other(p)]) = mainRecv[Other(p)] - 1
        \/ Len(dual[Other(p)]) = mainRecv[Other(p)]
    BY <2>2, Zenon DEF DualInOrder
  <2> HIDE DEF Other
  <2> QED BY <2>3, <2>4, <2>5
<1>4. dualRecv[p] <= Len(dual[Other(p)]) /\ dualRecv[p] \in Nat
  BY Zenon DEF LinkInv, MainInOrder, DualInOrder, TypeOK, LinkTypes
<1> QED BY <1>1, <1>2, <1>3, <1>4

LEMMA BatchesOnlineGather ==
  ASSUME LinkInv, NEW p \in Party, OnlineGather(p), NEW r \in Party
  PROVE  MainInOrder(r)' /\ DualInOrder(r)'
<1>1. th[p] = Idle
  BY Zenon DEF LinkInv, ThreadsInStep, OnlineGather, At
<1>2. CASE OnlineFinished(p)
  BY <1>2, BatchesSame, Zenon DEF OnlineGather
<1>3. CASE ~OnlineFinished(p)
  <2>1. /\ UNCHANGED <<main, dual, mainRecv, dualRecv>>
        /\ start' = [start EXCEPT ![p] = Processed(p)]
        /\ pos' = [pos EXCEPT ![p] = Processed(p)]
        /\ th' = [th EXCEPT ![p] = Threads(p)]
    BY <1>3, Zenon DEF OnlineGather
  <2>2. /\ th'[r].peer \in {"flush", "dual"} <=> th[r].peer \in {"flush", "dual"}
    BY <1>1, <2>1 DEF Threads, Idle, LinkInv, TypeOK, ControlTypes
  <2>3. /\ Len(main[p]) = 0 /\ mainRecv[Other(p)] = 0 /\ Len(dual[Other(p)]) = 0
        /\ dualRecv[p] = 0
    BY Zenon, <1>1, NothingSent
  <2>4. CASE r = p
    <3>1. start'[p] = Processed(p) /\ pos'[p] = Processed(p)
      BY Zenon, <2>1 DEF LinkInv, TypeOK, ControlTypes, LinkTypes
    <3> QED BY <2>1, <2>2, <2>3, <2>4, <3>1 DEF LinkInv, MainInOrder, DualInOrder, UpTo
  <2>5. CASE r # p
    <3>1. start'[r] = start[r] /\ pos'[r] = pos[r] /\ Other(r) = p
      BY <2>1, <2>5, Others DEF LinkInv, TypeOK, ControlTypes, LinkTypes
    <3> QED BY <2>1, <2>2, <2>5, <3>1 DEF LinkInv, MainInOrder, DualInOrder, UpTo
  <2> QED BY <2>4, <2>5, Zenon
<1> QED BY <1>2, <1>3, Zenon

\* All batches sent so far end within the list, and so does the position.
LEMMA Positions ==
  ASSUME LinkInv, NEW p \in Party
  PROVE  /\ Len(main[p]) \in Nat /\ Len(dual[p]) \in Nat
         /\ mainRecv[p] \in Nat /\ dualRecv[p] \in Nat
         /\ main[p] \in Seq(Batches) /\ dual[p] \in Seq(DualBatches)
         /\ \A k \in 0 .. Len(main[p]) : UpTo(p, k) \in 0 .. N[p]
         /\ pos[p] \in 0 .. N[p] /\ pos[p] = UpTo(p, Len(main[p]))
         /\ Len(dual[p]) <= mainRecv[p]
         /\ N[p] \in Nat
<1>1. main[p] \in Seq(Batches) /\ dual[p] \in Seq(DualBatches)
  BY Zenon DEF LinkInv, TypeOK, LinkTypes
<1>2. Len(main[p]) \in Nat /\ Len(dual[p]) \in Nat
  BY <1>1
<1>3. /\ mainRecv[p] \in Nat /\ dualRecv[p] \in Nat /\ start[p] \in Nat /\ N[p] \in Nat
      /\ pos[p] \in Nat
  BY ConstAssumption, Zenon DEF LinkInv, TypeOK, LinkTypes, ControlTypes
<1>4. MainInOrder(p) /\ DualInOrder(p) /\ CountsBounded(p)
  BY Zenon DEF LinkInv
<1>5. ASSUME NEW k \in 0 .. Len(main[p]) PROVE UpTo(p, k) \in 0 .. N[p]
  <2>1. CASE k = 0
    BY <1>3, <1>4, <2>1 DEF UpTo, CountsBounded
  <2>2. CASE k # 0
    <3>1. k \in 1 .. Len(main[p])
      BY <1>2, <2>2
    <3>2. main[p][k] \in Batches
      BY <1>1, <3>1
    <3>3. main[p][k].hi \in Nat
      BY <3>2, Zenon DEF Batches
    <3> QED BY <1>3, <1>4, <2>2, <3>1, <3>3 DEF UpTo, MainInOrder, DualInOrder
  <2> QED BY <2>1, <2>2, Zenon
<1>6. pos[p] = UpTo(p, Len(main[p]))
  BY <1>4, Zenon DEF MainInOrder, DualInOrder
<1>7. Len(dual[p]) <= mainRecv[p]
  BY <1>2, <1>3, <1>4 DEF MainInOrder, DualInOrder
<1> QED BY <1>1, <1>2, <1>3, <1>5, <1>6, <1>7

LEMMA BatchesMaskSelf ==
  ASSUME LinkInv, NEW p \in Party, MaskSelf(p), NEW r \in Party
  PROVE  MainInOrder(r)' /\ DualInOrder(r)'
<1>0. /\ th \in [Party -> [self : {"idle", "send", "done"},
                            peer : {"idle", "recv", "flush", "dual", "done"},
                            recv : {"idle", "recv", "flush", "saved", "done"}]]
      /\ main \in [Party -> Seq(Batches)] /\ pos \in [Party -> Nat]
  BY Zenon DEF LinkInv, TypeOK, LinkTypes, ControlTypes
<1> PICK n \in Nat : n = Len(main[p])
  BY Zenon, Positions
<1> PICK x \in Nat : x = pos[p]
  BY <1>0, Zenon
<1> PICK b : b = [lo |-> pos[p], hi |-> BatchEnd(p, pos[p]),
                  base |-> pos[p] - (pos[p] % BatchSize), own |-> key[p]]
  BY Zenon
<1>1. /\ start' = start /\ dual' = dual /\ mainRecv' = mainRecv /\ dualRecv' = dualRecv
      /\ main' = [main EXCEPT ![p] = Append(@, b)]
      /\ pos' = [pos EXCEPT ![p] = b.hi]
      /\ \A s \in Party : th'[s].peer = th[s].peer
  BY <1>0, Zenon DEF MaskSelf
<1>2. x = UpTo(p, n) /\ x <= N[p]
  BY Positions
<1>3. /\ b.lo = UpTo(p, n) /\ b.base <= b.lo /\ b.lo <= b.hi /\ b.hi <= N[p]
      /\ b.lo = b.hi => b.hi = N[p]
  <2>1. b.lo = x /\ b.hi = BatchEnd(p, x) /\ b.base = x - (x % BatchSize)
    BY Zenon
  <2>2. /\ x - (x % BatchSize) <= x
        /\ x <= BatchEnd(p, x) /\ BatchEnd(p, x) <= N[p]
        /\ x = BatchEnd(p, x) => x = N[p]
    BY Zenon, <1>2, BatchEnds
  <2> QED BY <1>2, <2>1, <2>2, Zenon
<1>4. /\ main'[p] = Append(main[p], b) /\ main'[p][n + 1] = b /\ Len(main'[p]) = n + 1
      /\ \A k \in 1 .. n : main'[p][k] = main[p][k]
      /\ \A s \in Party : s # p => main'[s] = main[s]
  <2>1. main[p] \in Seq(Batches)
    BY <1>0, Zenon
  <2> QED BY <1>0, <1>1, <2>1
<1>5. /\ \A k \in 0 .. n : UpTo(p, k)' = UpTo(p, k)
      /\ UpTo(p, n + 1)' = b.hi
  <2>1. ASSUME NEW k \in 0 .. n PROVE UpTo(p, k)' = UpTo(p, k)
    <3>1. CASE k = 0
      BY <1>1, <3>1, Zenon DEF UpTo
    <3>2. CASE k # 0
      BY <1>4, <3>2 DEF UpTo
    <3> QED BY <3>1, <3>2, Zenon
  <2>2. UpTo(p, n + 1)' = b.hi
    BY <1>4 DEF UpTo
  <2> QED BY <2>1, <2>2, Zenon
<1>6. /\ MainInOrder(p) /\ MainInOrder(Other(p))
      /\ DualInOrder(p) /\ DualInOrder(Other(p))
  BY Others, Zenon DEF LinkInv
<1>7. CASE r = p
  <2>1. ASSUME NEW k \in 1 .. n + 1
        PROVE  /\ main'[p][k].lo = UpTo(p, k - 1)'
               /\ main'[p][k].base <= main'[p][k].lo
               /\ main'[p][k].lo <= main'[p][k].hi
               /\ main'[p][k].hi <= N[p]
               /\ main'[p][k].lo = main'[p][k].hi => main'[p][k].hi = N[p]
    <3>1. UpTo(p, k - 1)' = UpTo(p, k - 1)
      BY <1>5
    <3>2. CASE k = n + 1
      <4>1. main'[p][k] = b /\ k - 1 = n
        BY SMTT(60), <1>4, <3>2
      <4> QED BY <1>3, <3>1, <4>1, Zenon
    <3>3. CASE k # n + 1
      <4>1. k \in 1 .. n
        BY <3>3
      <4>2. main'[p][k] = main[p][k]
        BY <1>4, <4>1, Zenon
      <4> QED BY <1>6, <3>1, <4>1, <4>2, Zenon DEF MainInOrder, DualInOrder
    <3> QED BY <3>2, <3>3, Zenon
  <2>2. pos'[p] = UpTo(p, n + 1)' /\ UpTo(p, n + 1)' = UpTo(p, Len(main[p]))'
    BY Zenon, <1>0, <1>1, <1>4, <1>5
  <2>3. main'[Other(p)] = main[Other(p)] /\ th'[p].peer = th[p].peer
    BY Zenon, <1>1, <1>4, Others
  <2>4. \A k \in 1 .. Len(main'[p]) :
          /\ main'[p][k].lo = UpTo(p, k - 1)'
          /\ main'[p][k].base <= main'[p][k].lo
          /\ main'[p][k].lo <= main'[p][k].hi
          /\ main'[p][k].hi <= N[p]
          /\ main'[p][k].lo = main'[p][k].hi => main'[p][k].hi = N[p]
    BY Zenon, <1>4, <2>1
  <2>5. pos'[p] = UpTo(p, Len(main[p]))'
    BY <2>2, Zenon
  <2>6. MainInOrder(p)'
    BY <2>4, <2>5, Zenon DEF MainInOrder
  <2>7. DualInOrder(p)'
    BY ZenonT(60), <1>1, <1>6, <2>3 DEF DualInOrder
  <2> QED BY Zenon, <1>7, <2>6, <2>7
<1>8. CASE r # p
  <2>1. r = Other(p) /\ Other(r) = p /\ main'[r] = main[r] /\ pos'[r] = pos[r]
    BY Zenon, <1>0, <1>1, <1>4, <1>8, Others
  <2>2. /\ mainRecv[r] <= n /\ mainRecv[r] \in Nat /\ Len(dual[r]) <= mainRecv[r]
        /\ Len(dual[r]) \in Nat
    BY Zenon, <1>6, <2>1, Positions DEF MainInOrder, DualInOrder
  <2>3. \A k \in 1 .. Len(dual[r]) : main'[p][k] = main[p][k]
    BY <1>4, <2>2
  <2>4. ASSUME NEW k \in Nat PROVE UpTo(r, k)' = UpTo(r, k)
    <3>1. start' = start
      BY <1>1, Zenon
    <3> QED BY <2>1, <3>1, Zenon DEF UpTo
  <2>5. mainRecv[r] <= Len(main'[p])
    BY <1>4, <2>2
  <2>6. MainInOrder(r) /\ DualInOrder(r) /\ th'[r].peer = th[r].peer
    BY <1>1, <1>6, <2>1, Zenon
  <2>7. pos'[r] = UpTo(r, Len(main[r]))'
    BY ZenonT(60), <1>1, <2>1, <2>6 DEF MainInOrder, DualInOrder, UpTo
  <2>8. \A k \in 1 .. Len(main[r]) : UpTo(r, k - 1)' = UpTo(r, k - 1)
    BY <2>4, Positions
  <2>9. MainInOrder(r)'
    <3>1. \A k \in 1 .. Len(main[r]) :
            /\ main[r][k].lo = UpTo(r, k - 1)'
            /\ main[r][k].base <= main[r][k].lo
            /\ main[r][k].lo <= main[r][k].hi
            /\ main[r][k].hi <= N[r]
            /\ main[r][k].lo = main[r][k].hi => main[r][k].hi = N[r]
      BY <2>6, <2>8, Zenon DEF MainInOrder
    <3>2. main'[r] = main[r]
      BY <2>1, Zenon
    <3> QED BY Zenon, <2>7, <3>1, <3>2 DEF MainInOrder
  <2>10. DualInOrder(r)'
    <3>1. dual' = dual /\ mainRecv' = mainRecv /\ dualRecv' = dualRecv
      BY <1>1, Zenon
    <3>2. \A k \in 1 .. Len(dual[r]) : /\ dual[r][k].lo = main'[p][k].lo
                                       /\ dual[r][k].hi = main'[p][k].hi
      BY ZenonT(60), <2>1, <2>3, <2>6 DEF DualInOrder
    <3> QED BY SMTT(60), <2>1, <2>5, <2>6, <3>1, <3>2 DEF DualInOrder
  <2> QED BY <2>9, <2>10, Zenon
<1> QED BY <1>7, <1>8, Zenon

LEMMA MainSame ==
  ASSUME LinkInv, start' = start, pos' = pos, main' = main, NEW r \in Party
  PROVE  MainInOrder(r)'
BY Zenon DEF LinkInv, MainInOrder, UpTo

LEMMA BatchesMaskPeerRecv ==
  ASSUME LinkInv, NEW p \in Party, MaskPeerRecv(p), NEW r \in Party
  PROVE  MainInOrder(r)' /\ DualInOrder(r)'
<1>1. /\ start' = start /\ pos' = pos /\ main' = main /\ dual' = dual /\ dualRecv' = dualRecv
      /\ mainRecv' = [mainRecv EXCEPT ![p] = @ + 1]
      /\ mainRecv[p] < Len(main[Other(p)]) /\ th[p].peer = "recv"
  BY Zenon DEF MaskPeerRecv
<1>2. th'[p].peer \in {"flush", "dual"} /\ \A s \in Party : s # p => th'[s] = th[s]
  BY Zenon DEF MaskPeerRecv, LinkInv, TypeOK, ControlTypes
<1>3. /\ mainRecv'[p] = mainRecv[p] + 1 /\ \A s \in Party : s # p => mainRecv'[s] = mainRecv[s]
      /\ mainRecv[p] \in Nat /\ Len(main[Other(p)]) \in Nat
  BY <1>1, Positions, Others, Zenon DEF LinkInv, TypeOK, LinkTypes
<1>4. DualInOrder(r)
  BY Zenon DEF LinkInv
<1>5. CASE r = p
  BY <1>1, <1>2, <1>3, <1>4, <1>5, MainSame DEF DualInOrder
<1>6. CASE r # p
  BY <1>1, <1>2, <1>3, <1>4, <1>6, MainSame, Zenon DEF DualInOrder
<1> QED BY Zenon, <1>5, <1>6

LEMMA BatchesMaskPeerDual ==
  ASSUME LinkInv, NEW p \in Party, MaskPeerDual(p), NEW r \in Party
  PROVE  MainInOrder(r)' /\ DualInOrder(r)'
<1> PICK n \in Nat : n = Len(dual[p])
  BY Positions, Zenon
<1> PICK d : d = [lo |-> main[Other(p)][mainRecv[p]].lo, hi |-> main[Other(p)][mainRecv[p]].hi,
                  own |-> main[Other(p)][mainRecv[p]].own, via |-> key[p]]
  BY Zenon
<1>1. /\ start' = start /\ pos' = pos /\ main' = main /\ dualRecv' = dualRecv
      /\ mainRecv' = mainRecv /\ th[p].peer = "dual"
      /\ dual' = IF Other(p) \in Targets THEN [dual EXCEPT ![p] = Append(@, d)] ELSE dual
  BY Zenon DEF MaskPeerDual
<1>2. /\ th'[p].peer \in {"recv", "done"}
      /\ \A s \in Party : s # p => th'[s] = th[s]
  BY Zenon DEF MaskPeerDual, LinkInv, TypeOK, ControlTypes
<1>3. DualInOrder(p) /\ DualInOrder(r) /\ mainRecv[p] \in Nat /\ dual[p] \in Seq(DualBatches)
  BY Positions, Zenon DEF LinkInv
<1>4. CASE Other(p) \notin Targets
  <2>1. dual' = dual
    BY Zenon, <1>1, <1>4
  <2>2. CASE r = p
    <3>1. DualInOrder(p)'
      BY ZenonT(60), <1>1, <1>3, <1>4, <2>1 DEF DualInOrder
    <3> QED BY <1>1, <2>2, <3>1, MainSame, Zenon
  <2>3. CASE r # p
    BY Zenon, <1>1, <1>2, <1>3, <2>1, <2>3, MainSame DEF DualInOrder
  <2> QED BY <2>2, <2>3, Zenon
<1>5. CASE Other(p) \in Targets
  <2>1. n = mainRecv[p] - 1
    BY Zenon, <1>1, <1>3, <1>5 DEF DualInOrder
  <2>2. dual'[p] = Append(dual[p], d) /\ \A s \in Party : s # p => dual'[s] = dual[s]
    BY Zenon, <1>1, <1>5 DEF LinkInv, TypeOK, LinkTypes
  <2>3. /\ Len(dual'[p]) = n + 1 /\ dual'[p][n + 1] = d
        /\ \A k \in 1 .. n : dual'[p][k] = dual[p][k]
    <3>1. ASSUME NEW s, s \in Seq(DualBatches), Len(s) = n
          PROVE  /\ Len(Append(s, d)) = n + 1 /\ Append(s, d)[n + 1] = d
                 /\ \A k \in 1 .. n : Append(s, d)[k] = s[k]
      BY <3>1
    <3>2. Len(dual[p]) = n
      BY Zenon
    <3>3. /\ Len(Append(dual[p], d)) = n + 1 /\ Append(dual[p], d)[n + 1] = d
          /\ \A k \in 1 .. n : Append(dual[p], d)[k] = dual[p][k]
      BY <1>3, <3>1, <3>2, Zenon
    <3> QED BY <2>2, <3>3, Zenon
  <2>4. CASE r = p
    <3>1. ASSUME NEW k \in 1 .. n + 1
          PROVE  /\ dual'[p][k].lo = main[Other(p)][k].lo
                 /\ dual'[p][k].hi = main[Other(p)][k].hi
      <4>1. CASE k = n + 1
        <5>1. dual'[p][k] = d /\ k = mainRecv[p]
          BY <1>3, <2>1, <2>3, <4>1
        <5>2. d.lo = main[Other(p)][mainRecv[p]].lo /\ d.hi = main[Other(p)][mainRecv[p]].hi
          BY Zenon
        <5> QED BY Zenon, <5>1, <5>2
      <4>2. CASE k # n + 1
        <5>1. k \in 1 .. n
          BY <4>2
        <5> QED BY ZenonT(60), <1>3, <2>3, <5>1 DEF DualInOrder
      <4> QED BY Zenon, <4>1, <4>2
    <3>2. dual'[Other(p)] = dual[Other(p)]
      BY <2>2, Others, Zenon
    <3>3. Len(dual'[p]) = mainRecv[p] /\ \A k \in 1 .. Len(dual'[p]) :
            dual'[p][k].lo = main[Other(p)][k].lo /\ dual'[p][k].hi = main[Other(p)][k].hi
      <4>1. n + 1 = mainRecv[p]
        BY <1>3, <2>1
      <4>2. Len(dual'[p]) = n + 1
        BY <2>3, Zenon
      <4> QED BY Zenon, <3>1, <4>1, <4>2
    <3>4. DualInOrder(p)'
      BY ZenonT(60), <1>1, <1>2, <1>3, <1>5, <3>2, <3>3 DEF DualInOrder
    <3> QED BY Zenon, <1>1, <2>4, <3>4, MainSame
  <2>5. CASE r # p
    <3>1. r = Other(p) /\ Other(r) = p /\ dual'[r] = dual[r] /\ th'[r] = th[r]
      BY <1>2, <2>2, <2>5, Others, Zenon
    <3>2. dualRecv[r] <= Len(dual'[p])
      <4>1. dualRecv[r] <= n /\ dualRecv[r] \in Nat
        BY <1>3, <3>1, Positions, Zenon DEF DualInOrder
      <4> QED BY <2>3, <4>1
    <3>3. DualInOrder(r)'
      BY ZenonT(60), <1>1, <1>3, <3>1, <3>2 DEF DualInOrder
    <3> QED BY <1>1, <3>3, MainSame, Zenon
  <2> QED BY <2>4, <2>5, Zenon
<1> QED BY <1>4, <1>5, Zenon

LEMMA BatchesRecvDualMaskedSelf ==
  ASSUME LinkInv, NEW p \in Party, RecvDualMaskedSelf(p), NEW r \in Party
  PROVE  MainInOrder(r)' /\ DualInOrder(r)'
<1>1. /\ start' = start /\ pos' = pos /\ main' = main /\ dual' = dual /\ mainRecv' = mainRecv
      /\ dualRecv' = [dualRecv EXCEPT ![p] = @ + 1] /\ dualRecv[p] < Len(dual[Other(p)])
  BY Zenon DEF RecvDualMaskedSelf
<1>2. \A s \in Party : th'[s].peer = th[s].peer
  BY Zenon DEF RecvDualMaskedSelf, LinkInv, TypeOK, ControlTypes
<1>3. dualRecv'[r] <= Len(dual[Other(r)])
  <2>1. dualRecv'[r] = IF r = p THEN dualRecv[p] + 1 ELSE dualRecv[r]
    BY <1>1, Zenon DEF LinkInv, TypeOK, LinkTypes
  <2>2. dualRecv[r] <= Len(dual[Other(r)])
    BY Zenon DEF LinkInv, DualInOrder
  <2> QED BY <1>1, <2>1, <2>2, Positions, Others
<1>4. DualInOrder(r)
  BY Zenon DEF LinkInv
<1> QED BY <1>1, <1>2, <1>3, <1>4, MainSame, Zenon DEF DualInOrder

LEMMA BatchesRestart ==
  ASSUME LinkInv, Restart, NEW r \in Party
  PROVE  MainInOrder(r)' /\ DualInOrder(r)'
<1>1. /\ start'[r] = 0 /\ pos'[r] = 0 /\ main'[r] = <<>> /\ main'[Other(r)] = <<>>
      /\ dual'[r] = <<>> /\ dual'[Other(r)] = <<>>
      /\ mainRecv'[r] = 0 /\ dualRecv'[r] = 0 /\ th'[r].peer = "idle"
  BY Others, Zenon DEF Restart, Idle
<1> QED BY <1>1 DEF MainInOrder, DualInOrder, UpTo

\* Every step keeps the batches in order.
LEMMA BatchesStep ==
  ASSUME LinkInv, [Next]_vars, NEW r \in Party
  PROVE  MainInOrder(r)' /\ DualInOrder(r)'
<1>0. th \in [Party -> [self : {"idle", "send", "done"},
                        peer : {"idle", "recv", "flush", "dual", "done"},
                        recv : {"idle", "recv", "flush", "saved", "done"}]]
  BY Zenon DEF LinkInv, TypeOK, ControlTypes
<1>1. CASE UNCHANGED <<start, th, linkVars>>
  BY <1>1, BatchesSame, Zenon DEF linkVars
<1>2. ASSUME NEW p \in Party, OnlineStart(p) PROVE MainInOrder(r)' /\ DualInOrder(r)'
  <2>1. UNCHANGED <<start, pos, main, dual, mainRecv, dualRecv>>
    BY <1>2, Zenon DEF OnlineStart, linkVars
  <2>2. th[p] = Idle
    BY <1>2, Zenon DEF LinkInv, ThreadsInStep, OnlineStart, At
  <2>3. th' = th \/ th' = [th EXCEPT ![p] = Threads(p)]
    BY <1>2, Zenon DEF OnlineStart
  <2>4. \A s \in Party : th'[s].peer \in {"flush", "dual"} <=> th[s].peer \in {"flush", "dual"}
    BY <1>0, <2>2, <2>3 DEF Idle, Threads
  <2> QED BY <2>1, <2>4, BatchesSame, Zenon
<1>3. ASSUME NEW p \in Party, MaskPeerFlush(p) \/ RecvDualMaskedFlush(p) \/ RecvDualMaskedNext(p)
      PROVE  MainInOrder(r)' /\ DualInOrder(r)'
  <2>1. UNCHANGED <<start, pos, main, dual, mainRecv, dualRecv>>
    BY <1>3, Zenon DEF MaskPeerFlush, RecvDualMaskedFlush, RecvDualMaskedNext, linkVars
  <2>2. \A s \in Party : th'[s].peer \in {"flush", "dual"} <=> th[s].peer \in {"flush", "dual"}
    BY <1>0, <1>3 DEF MaskPeerFlush, RecvDualMaskedFlush, RecvDualMaskedNext
  <2> QED BY <2>1, <2>2, BatchesSame, Zenon
<1>4. CASE Restart
  BY <1>4, BatchesRestart, Zenon
<1>5. CASE UNCHANGED vars
  BY <1>1, <1>5, Zenon DEF vars, linkVars
<1>6. ASSUME NEW p \in Party, MaskPeer(p) PROVE MainInOrder(r)' /\ DualInOrder(r)'
  BY <1>3, <1>6, BatchesMaskPeerRecv, BatchesMaskPeerDual, Zenon DEF MaskPeer
<1>7. ASSUME NEW p \in Party, RecvSelf(p) PROVE MainInOrder(r)' /\ DualInOrder(r)'
  BY Zenon, <1>3, <1>7, BatchesRecvDualMaskedSelf DEF RecvSelf
<1>8. ASSUME NEW p \in Party, MainStep(p) PROVE MainInOrder(r)' /\ DualInOrder(r)'
  BY Zenon, <1>1, <1>2, <1>8, BatchesOnlineGather
     DEF MainStep, InitEnd, PreProcess, Join, OnlineEnd, PostProcess, PostEnd,
         FinalizeWrite, FinalizeThrows, Finalize
<1>9. ASSUME NEW p \in Party, Crash(p) \/ Abort(p) PROVE MainInOrder(r)' /\ DualInOrder(r)'
  BY <1>1, <1>9, Zenon DEF Crash, Abort
<1>10. ASSUME NEW p \in Party, NEW t \in Savers, Save(p, t) PROVE MainInOrder(r)' /\ DualInOrder(r)'
  BY <1>1, <1>10, Zenon DEF Save, SaveOpen, SaveWrite
<1> QED BY <1>4, <1>5, <1>6, <1>7, <1>8, <1>9, <1>10, BatchesMaskSelf, Zenon DEF Next, Terminated

-----------------------------------------------------------------------------
(* The threads of RunEcdhPsi are in step with the batches. *)

LEMMA ThreadSets ==
  ASSUME LinkInv
  PROVE  th \in [Party -> [self : {"idle", "send", "done"},
                           peer : {"idle", "recv", "flush", "dual", "done"},
                           recv : {"idle", "recv", "flush", "saved", "done"}]]
BY Zenon DEF LinkInv, TypeOK, ControlTypes

\* What a batch reaches does not change once it is sent.
LEMMA ReachMaskSelf ==
  ASSUME LinkInv, NEW p \in Party, MaskSelf(p), NEW s \in Party,
         NEW k \in 0 .. Len(main[s])
  PROVE  UpTo(s, k)' = UpTo(s, k)
<1> PICK n \in Nat : n = Len(main[s])
  BY Positions, Zenon
<1>1. start' = start /\ main \in [Party -> Seq(Batches)] /\ main[s] \in Seq(Batches)
  BY Zenon DEF MaskSelf, LinkInv, TypeOK, LinkTypes
<1>2. \E b : main' = [main EXCEPT ![p] = Append(@, b)]
  BY Zenon DEF MaskSelf
<1>3. \A j \in 1 .. n : main'[s][j] = main[s][j]
  BY <1>1, <1>2
<1> QED BY <1>1, <1>3 DEF UpTo

\* Both parties' counts of received batches are within what was sent.
LEMMA Received ==
  ASSUME LinkInv, NEW p \in Party
  PROVE  /\ mainRecv[p] \in 0 .. Len(main[Other(p)])
         /\ dualRecv[p] \in 0 .. Len(main[p])
<1>1. /\ mainRecv[p] <= Len(main[Other(p)]) /\ dualRecv[p] <= Len(dual[Other(p)])
      /\ mainRecv[Other(p)] <= Len(main[p])
  BY Others, Zenon DEF LinkInv, DualInOrder
<1>2. /\ mainRecv[p] \in Nat /\ dualRecv[p] \in Nat /\ Len(main[p]) \in Nat
      /\ Len(dual[Other(p)]) \in Nat /\ Len(dual[Other(p)]) <= mainRecv[Other(p)]
      /\ mainRecv[Other(p)] \in Nat /\ Len(main[Other(p)]) \in Nat
  BY Positions, Others, Zenon
<1> QED BY <1>1, <1>2

\* Steps that move neither a thread nor a batch.
LEMMA ThreadsSame ==
  ASSUME LinkInv, NEW r \in Party, UNCHANGED <<start, main, mainRecv, dualRecv, th>>,
         pc'[r] \in {"Init", "PreProcess", "OnlineStart", "OnlineGather"}
           => pc[r] \in {"Init", "PreProcess", "OnlineStart", "OnlineGather"},
         pc'[r] \in {"RunEcdhPsi", "down"} \/ pc[r] \notin {"RunEcdhPsi", "down"}
  PROVE  ThreadsInStep(r)'
<1>1. ThreadsInStep(r)
  BY Zenon DEF LinkInv
<1> QED BY <1>1, Zenon DEF ThreadsInStep, UpTo

\* The main thread of p moves on.
LEMMA ThreadsMain ==
  ASSUME LinkInv, NEW r \in Party, NEW p \in Party, NEW place, Goto(p, place),
         UNCHANGED <<start, main, mainRecv, dualRecv, th>>,
         \/ pc[p] \in {"Init", "PreProcess", "OnlineStart", "OnlineGather"}
         \/ place \notin {"Init", "PreProcess", "OnlineStart", "OnlineGather"},
         place \in {"RunEcdhPsi", "down"} \/ pc[p] \notin {"RunEcdhPsi", "down"}
  PROVE  ThreadsInStep(r)'
<1>1. pc' = [pc EXCEPT ![p] = place] /\ DOMAIN pc = Party
  BY Zenon DEF Goto, LinkInv, TypeOK, ControlTypes
<1>2. pc'[r] = IF r = p THEN place ELSE pc[r]
  BY <1>1, Zenon
<1> QED BY <1>2, ThreadsSame, Zenon

LEMMA ThreadsJoin ==
  ASSUME LinkInv, NEW r \in Party, NEW p \in Party, Join(p)
  PROVE  ThreadsInStep(r)'
<1>1. UNCHANGED <<start, main, mainRecv, dualRecv, th>>
  BY Zenon DEF Join, linkVars
<1>2. pc' = [pc EXCEPT ![p] = "OnlineSync"] /\ DOMAIN pc = Party
  BY Zenon DEF Join, Goto, LinkInv, TypeOK, ControlTypes
<1>3. pc'[r] = IF r = p THEN "OnlineSync" ELSE pc[r]
  BY <1>2, Zenon
<1>4. th[p].peer = "done" /\ th[p].recv = "done"
  <2>1. th[p]["peer"] = "done" /\ th[p]["recv"] = "done"
    BY Zenon DEF Join
  <2> QED BY <2>1, Zenon
<1>5. ThreadsInStep(r)
  BY Zenon DEF LinkInv
<1> QED BY <1>1, <1>3, <1>4, <1>5, Zenon DEF ThreadsInStep, UpTo

\* The threads start.
LEMMA ThreadsStart ==
  ASSUME LinkInv, NEW r \in Party, NEW p \in Party, OnlineStart(p) \/ OnlineGather(p),
         Goto(p, "RunEcdhPsi"), th' = [th EXCEPT ![p] = Threads(p)],
         \A s \in Party : s # p => start'[s] = start[s]
  PROVE  ThreadsInStep(r)'
<1>1. UNCHANGED <<main, mainRecv, dualRecv>>
  BY Zenon DEF OnlineStart, OnlineGather, linkVars
<1>2. pc' = [pc EXCEPT ![p] = "RunEcdhPsi"] /\ DOMAIN pc = Party
  BY Zenon DEF Goto, LinkInv, TypeOK, ControlTypes
<1>3. th'[r] = IF r = p THEN Threads(p) ELSE th[r]
  BY ThreadSets, Zenon
<1>4. th[p] = Idle
  BY Zenon DEF OnlineStart, OnlineGather, At, LinkInv, ThreadsInStep
<1>5. mainRecv[Other(p)] = 0
  BY <1>4, NothingSent, Zenon
<1>6. CASE r = p
  <2>1. pc'[r] = "RunEcdhPsi"
    BY <1>2, <1>6, Zenon
  <2>2. /\ th'[r].peer = "recv" /\ th'[r].self = "send"
        /\ th'[r].recv = IF r \in Targets THEN "recv" ELSE "done"
    <3>1. th'[r] = Threads(r)
      BY ONLY <1>3, <1>6, Zenon
    <3> QED BY ONLY SMTT(30), <3>1 DEF Threads
  <2>3. /\ th'[r].peer \notin {"flush", "dual", "done"} /\ th'[r].self # "idle"
        /\ th'[r].recv \notin {"flush", "saved"} /\ (r \in Targets => th'[r].recv # "done")
    BY <2>2
  <2>4. pc'[r] \notin {"Init", "PreProcess", "OnlineStart", "OnlineGather"}
    BY <2>1, Zenon
  <2> QED BY Zenon, <2>1, <2>3, <2>4 DEF ThreadsInStep
<1>7. CASE r # p
  <2>1. pc'[r] = pc[r] /\ th'[r] = th[r] /\ start'[r] = start[r] /\ Other(r) = p /\ r = Other(p)
    BY <1>2, <1>3, <1>7, Others, Zenon
  <2>2. ThreadsInStep(r)
    BY Zenon DEF LinkInv
  <2>3. th[r].peer # "done"
    BY <1>5, <2>1, <2>2 DEF ThreadsInStep
  <2> QED BY <1>1, <2>1, <2>2, <2>3, Zenon DEF ThreadsInStep, UpTo
<1> QED BY <1>6, <1>7, Zenon

LEMMA ThreadsMaskSelf ==
  ASSUME LinkInv, NEW r \in Party, NEW p \in Party, MaskSelf(p)
  PROVE  ThreadsInStep(r)'
<1>1. /\ start' = start /\ mainRecv' = mainRecv /\ dualRecv' = dualRecv /\ pc' = pc
      /\ \E b : main' = [main EXCEPT ![p] = Append(@, b)]
      /\ \E x \in {"send", "done"} : th' = [th EXCEPT ![p].self = x]
  BY Zenon DEF MaskSelf
<1>2. /\ th'[r].peer = th[r].peer /\ th'[r].recv = th[r].recv
      /\ r = p => th'[r].self # "idle"
      /\ r # p => th'[r] = th[r]
  BY <1>1, ThreadSets
<1>3. r # p => main'[r] = main[r]
  BY <1>1, Zenon DEF LinkInv, TypeOK, LinkTypes
<1>4. ThreadsInStep(r)
  BY Zenon DEF LinkInv
<1>5. pc[p] = "RunEcdhPsi"
  BY Zenon DEF MaskSelf, Running
<1>6. PICK k \in Nat : k = mainRecv[r]
  BY Positions, Zenon
<1>7. PICK d \in Nat : d = dualRecv[r]
  BY Zenon, Positions
<1>8. UpTo(Other(r), k)' = UpTo(Other(r), k)
  BY <1>6, ReachMaskSelf, Received, Others, Zenon
<1>9. UpTo(r, d)' = UpTo(r, d)
  BY <1>7, ReachMaskSelf, Received, Zenon
<1>10. /\ th'[r].peer \in {"flush", "dual"} => mainRecv'[r] >= 1
       /\ (th'[r].peer = "flush" \/ th'[r].recv \in {"flush", "saved"}) => Recovery
  BY <1>1, <1>2, <1>4, Zenon DEF ThreadsInStep
<1>11. th'[r].peer = "done" => mainRecv'[r] >= 1 /\ UpTo(Other(r), mainRecv[r])' = N[Other(r)]
  BY <1>1, <1>2, <1>4, <1>6, <1>8, Zenon DEF ThreadsInStep
<1>12. th'[r].recv = "done" /\ r \in Targets => dualRecv'[r] >= 1 /\ UpTo(r, dualRecv[r])' = N[r]
  BY <1>1, <1>2, <1>4, <1>7, <1>9, Zenon DEF ThreadsInStep
<1>13. th'[r].self = "idle" => main'[r] = <<>> /\ start'[r] = 0
  BY <1>1, <1>2, <1>3, <1>4, Zenon DEF ThreadsInStep
<1>14. /\ pc'[r] \in {"Init", "PreProcess", "OnlineStart", "OnlineGather"} => th'[r] = Idle
       /\ pc'[r] \notin {"RunEcdhPsi", "down"} =>
            th'[r].peer \in {"idle", "done"} /\ th'[r].recv \in {"idle", "done"}
  BY <1>1, <1>2, <1>4, <1>5, Zenon DEF ThreadsInStep
<1> QED BY <1>10, <1>11, <1>12, <1>13, <1>14, Zenon DEF ThreadsInStep

\* A step of another thread of RunEcdhPsi, which leaves what was sent on the
\* main link alone: its own place has to fit, and what it received.
LEMMA ThreadsWorker ==
  ASSUME LinkInv, NEW r \in Party, NEW p \in Party, pc[p] = "RunEcdhPsi",
         UNCHANGED <<pc, start, main>>,
         \A s \in Party : /\ s # p => th'[s] = th[s] /\ mainRecv'[s] = mainRecv[s]
                                                    /\ dualRecv'[s] = dualRecv[s]
                          /\ th'[s].self = th[s].self,
         th'[p].peer \in {"flush", "dual"} => mainRecv'[p] >= 1,
         th'[p].peer = "done" => mainRecv'[p] >= 1 /\ UpTo(Other(p), mainRecv[p])' = N[Other(p)],
         (th'[p].recv = "done" /\ p \in Targets) =>
           dualRecv'[p] >= 1 /\ UpTo(p, dualRecv[p])' = N[p],
         (th'[p].peer = "flush" \/ th'[p].recv \in {"flush", "saved"}) => Recovery
  PROVE  ThreadsInStep(r)'
<1>1. ThreadsInStep(r)
  BY Zenon DEF LinkInv
<1>2. CASE r = p
  <2>1. /\ th'[r].self = "idle" => main'[r] = <<>> /\ start'[r] = 0
        /\ pc'[r] = "RunEcdhPsi"
    BY Zenon, <1>1, <1>2 DEF ThreadsInStep
  <2> QED BY <1>2, <2>1, Zenon DEF ThreadsInStep
<1>3. CASE r # p
  <2>1. th'[r] = th[r] /\ mainRecv'[r] = mainRecv[r] /\ dualRecv'[r] = dualRecv[r]
    BY <1>3, Zenon
  <2> QED BY <1>1, <2>1, Zenon DEF ThreadsInStep, UpTo
<1> QED BY <1>2, <1>3, Zenon

LEMMA ThreadsMaskPeer ==
  ASSUME LinkInv, NEW r \in Party, NEW p \in Party, MaskPeer(p)
  PROVE  ThreadsInStep(r)'
<1>0. pc[p] = "RunEcdhPsi" /\ ThreadsInStep(p) /\ UNCHANGED <<pc, start, main>>
  BY Zenon DEF MaskPeer, MaskPeerRecv, MaskPeerFlush, MaskPeerDual, Running, LinkInv, linkVars
<1>1. CASE MaskPeerRecv(p)
  <2>1. /\ \E x \in {"flush", "dual"} : /\ th' = [th EXCEPT ![p].peer = x]
                                        /\ x = "flush" => Recovery
        /\ mainRecv' = [mainRecv EXCEPT ![p] = @ + 1] /\ dualRecv' = dualRecv
    BY Zenon, <1>1 DEF MaskPeerRecv
  <2>2. /\ th'[p].peer \in {"flush", "dual"} /\ th'[p].recv = th[p].recv
        /\ th'[p].peer = "flush" => Recovery
        /\ \A s \in Party : (s # p => th'[s] = th[s]) /\ th'[s].self = th[s].self
    BY <2>1, ThreadSets
  <2>3. mainRecv'[p] >= 1 /\ \A s \in Party : s # p => mainRecv'[s] = mainRecv[s]
    BY SMTT(60), <2>1, Positions DEF LinkInv, TypeOK, LinkTypes
  <2>4. (th'[p].recv = "done" /\ p \in Targets) =>
           dualRecv'[p] >= 1 /\ UpTo(p, dualRecv[p])' = N[p]
    BY <1>0, <2>1, <2>2, Zenon DEF ThreadsInStep, UpTo
  <2>5. (th'[p].peer = "flush" \/ th'[p].recv \in {"flush", "saved"}) => Recovery
    BY <1>0, <2>2, Zenon DEF ThreadsInStep
  <2> QED BY <1>0, <2>1, <2>2, <2>3, <2>4, <2>5, ThreadsWorker, Zenon
<1>2. CASE MaskPeerFlush(p)
  <2>1. /\ th' = [th EXCEPT ![p].peer = "dual"]
        /\ mainRecv' = mainRecv /\ dualRecv' = dualRecv /\ th[p].peer = "flush"
    BY <1>2, Zenon DEF MaskPeerFlush, linkVars
  <2>2. /\ th'[p].peer = "dual" /\ th'[p].recv = th[p].recv
        /\ \A s \in Party : (s # p => th'[s] = th[s]) /\ th'[s].self = th[s].self
    BY <2>1, ThreadSets, Zenon
  <2>3. mainRecv'[p] >= 1
    BY <1>0, <2>1, Zenon DEF ThreadsInStep
  <2>4. (th'[p].recv = "done" /\ p \in Targets) =>
           dualRecv'[p] >= 1 /\ UpTo(p, dualRecv[p])' = N[p]
    BY <1>0, <2>1, <2>2, Zenon DEF ThreadsInStep, UpTo
  <2>5. (th'[p].peer = "flush" \/ th'[p].recv \in {"flush", "saved"}) => Recovery
    BY Zenon, <1>0, <2>2 DEF ThreadsInStep
  <2> QED BY <1>0, <2>1, <2>2, <2>3, <2>4, <2>5, ThreadsWorker, Zenon
<1>3. CASE MaskPeerDual(p)
  <2> PICK b : b = main[Other(p)][mainRecv[p]]
    BY Zenon
  <2>1. /\ \E x \in {"recv", "done"} : /\ th' = [th EXCEPT ![p].peer = x]
                                       /\ x = "done" => b.lo = b.hi
        /\ mainRecv' = mainRecv /\ dualRecv' = dualRecv /\ th[p].peer = "dual"
    BY Zenon, <1>3 DEF MaskPeerDual
  <2>2. /\ th'[p].peer \in {"recv", "done"} /\ th'[p].recv = th[p].recv
        /\ th'[p].peer = "done" => b.lo = b.hi
        /\ \A s \in Party : (s # p => th'[s] = th[s]) /\ th'[s].self = th[s].self
    BY <2>1, ThreadSets
  <2>3. mainRecv[p] >= 1
    BY Zenon, <1>0, <2>1 DEF ThreadsInStep
  <2>4. b.lo = b.hi => b.hi = N[Other(p)]
    <3>1. MainInOrder(Other(p)) /\ mainRecv[p] \in 1 .. Len(main[Other(p)])
      BY <2>3, Received, Positions, Others DEF LinkInv
    <3> QED BY <3>1, Zenon DEF MainInOrder
  <2>5. UpTo(Other(p), mainRecv[p])' = b.hi
    BY <1>0, <2>1, <2>3, Positions DEF UpTo
  <2>6. th'[p].peer = "done" => mainRecv'[p] >= 1 /\ UpTo(Other(p), mainRecv[p])' = N[Other(p)]
    BY Zenon, <2>1, <2>2, <2>3, <2>4, <2>5
  <2>7. (th'[p].recv = "done" /\ p \in Targets) =>
           dualRecv'[p] >= 1 /\ UpTo(p, dualRecv[p])' = N[p]
    BY Zenon, <1>0, <2>1, <2>2 DEF ThreadsInStep, UpTo
  <2>8. (th'[p].peer = "flush" \/ th'[p].recv \in {"flush", "saved"}) => Recovery
    BY <1>0, <2>2, Zenon DEF ThreadsInStep
  <2> QED BY <1>0, <2>1, <2>2, <2>6, <2>7, <2>8, ThreadsWorker, Zenon
<1> QED BY Zenon, <1>1, <1>2, <1>3 DEF MaskPeer

LEMMA ThreadsRecvSelf ==
  ASSUME LinkInv, NEW r \in Party, NEW p \in Party, RecvSelf(p)
  PROVE  ThreadsInStep(r)'
<1>0. pc[p] = "RunEcdhPsi" /\ ThreadsInStep(p) /\ UNCHANGED <<pc, start, main, mainRecv>>
  BY Zenon DEF RecvSelf, RecvDualMaskedSelf, RecvDualMaskedFlush, RecvDualMaskedNext, Running,
         LinkInv, linkVars
<1>1. ASSUME \A s \in Party : /\ th'[s].peer = th[s].peer /\ th'[s].self = th[s].self
                              /\ s # p => th'[s] = th[s] /\ dualRecv'[s] = dualRecv[s],
             th'[p].recv = "done" => dualRecv'[p] >= 1 /\ UpTo(p, dualRecv[p])' = N[p],
             th'[p].recv \in {"flush", "saved"} => Recovery
      PROVE  ThreadsInStep(r)'
  <2>1. /\ th'[p].peer \in {"flush", "dual"} => mainRecv'[p] >= 1
        /\ th'[p].peer = "done" =>
             mainRecv'[p] >= 1 /\ UpTo(Other(p), mainRecv[p])' = N[Other(p)]
        /\ (th'[p].peer = "flush" \/ th'[p].recv \in {"flush", "saved"}) => Recovery
    BY <1>0, <1>1, Zenon DEF ThreadsInStep, UpTo
  <2> QED BY Zenon, <1>0, <1>1, <2>1, ThreadsWorker
<1>2. CASE RecvDualMaskedSelf(p)
  <2> PICK b : b = dual[Other(p)][dualRecv[p] + 1]
    BY Zenon
  <2>1. /\ \E x \in {"recv", "flush", "done"} : /\ th' = [th EXCEPT ![p].recv = x]
                                                /\ x = "done" => b.lo = b.hi
                                                /\ x = "flush" => Recovery
        /\ dualRecv' = [dualRecv EXCEPT ![p] = @ + 1]
        /\ dualRecv[p] < Len(dual[Other(p)])
    BY Zenon, <1>2 DEF RecvDualMaskedSelf
  <2>2. /\ \A s \in Party : /\ th'[s].peer = th[s].peer /\ th'[s].self = th[s].self
                            /\ s # p => th'[s] = th[s]
        /\ th'[p].recv = "done" => b.lo = b.hi
        /\ th'[p].recv \in {"flush", "saved"} => Recovery
    BY <2>1, ThreadSets
  <2>3. PICK k \in Nat : k = dualRecv[p] + 1
    BY Positions
  <2>4. dualRecv'[p] = k /\ \A s \in Party : s # p => dualRecv'[s] = dualRecv[s]
    BY <2>1, <2>3, Zenon DEF LinkInv, TypeOK, LinkTypes
  <2>5. k \in 1 .. Len(dual[Other(p)]) /\ k \in 1 .. Len(main[p])
    <3>1. /\ dualRecv[p] \in Nat /\ Len(dual[Other(p)]) \in Nat
          /\ Len(dual[Other(p)]) <= mainRecv[Other(p)]
      BY Positions, Others, Zenon
    <3>2. mainRecv[Other(p)] \in 0 .. Len(main[p])
      BY Received, Others, Zenon
    <3> QED BY <2>1, <2>3, <3>1, <3>2, Positions
  <2>6. b.lo = main[p][k].lo /\ b.hi = main[p][k].hi
    <3>1. DualInOrder(Other(p)) /\ Other(Other(p)) = p
      BY Others, Zenon DEF LinkInv
    <3> QED BY Zenon, <2>3, <2>5, <3>1 DEF DualInOrder
  <2>7. b.lo = b.hi => b.hi = N[p]
    <3>1. MainInOrder(p)
      BY Zenon DEF LinkInv
    <3> QED BY Zenon, <2>5, <2>6, <3>1 DEF MainInOrder
  <2>8. UpTo(p, dualRecv[p])' = b.hi
    BY <1>0, <2>4, <2>5, <2>6 DEF UpTo
  <2>9. th'[p].recv = "done" => dualRecv'[p] >= 1 /\ UpTo(p, dualRecv[p])' = N[p]
    BY <2>2, <2>4, <2>5, <2>7, <2>8
  <2> QED BY <1>1, <2>2, <2>4, <2>9, Zenon
<1>3. CASE RecvDualMaskedFlush(p) \/ RecvDualMaskedNext(p)
  <2>1. /\ dualRecv' = dualRecv /\ th[p].recv \in {"flush", "saved"}
        /\ \E x \in {"saved", "recv"} : th' = [th EXCEPT ![p].recv = x]
    BY <1>3, Zenon DEF RecvDualMaskedFlush, RecvDualMaskedNext, linkVars
  <2>2. /\ \A s \in Party : /\ th'[s].peer = th[s].peer /\ th'[s].self = th[s].self
                            /\ s # p => th'[s] = th[s]
        /\ th'[p].recv \in {"saved", "recv"}
    BY <2>1, ThreadSets, Zenon
  <2>3. Recovery
    BY <1>0, <2>1, Zenon DEF ThreadsInStep
  <2> QED BY <1>1, <2>1, <2>2, <2>3, Zenon
<1> QED BY Zenon, <1>2, <1>3 DEF RecvSelf

LEMMA ThreadsStep ==
  ASSUME LinkInv, [Next]_vars, NEW r \in Party
  PROVE  ThreadsInStep(r)'
<1>1. CASE UNCHANGED <<pc, start, th, linkVars>>
  BY <1>1, ThreadsSame, Zenon DEF linkVars
<1>2. ASSUME NEW p \in Party, OnlineStart(p) PROVE ThreadsInStep(r)'
  <2>1. CASE Recovery
    BY <1>2, <2>1, ThreadsMain, Zenon DEF OnlineStart, linkVars, At
  <2>2. CASE ~Recovery
    BY <1>2, <2>2, ThreadsStart, Zenon DEF OnlineStart
  <2> QED BY <2>1, <2>2, Zenon
<1>3. ASSUME NEW p \in Party, OnlineGather(p) PROVE ThreadsInStep(r)'
  <2>1. CASE OnlineFinished(p)
    BY <1>3, <2>1, ThreadsMain, Zenon DEF OnlineGather, At
  <2>2. CASE ~OnlineFinished(p)
    <3>1. /\ start' = [start EXCEPT ![p] = Processed(p)] /\ Goto(p, "RunEcdhPsi")
          /\ th' = [th EXCEPT ![p] = Threads(p)]
      BY <1>3, <2>2, Zenon DEF OnlineGather
    <3>2. \A s \in Party : s # p => start'[s] = start[s]
      BY <3>1, Zenon DEF LinkInv, TypeOK, ControlTypes
    <3> QED BY Zenon, <1>3, <3>1, <3>2, ThreadsStart
  <2> QED BY <2>1, <2>2, Zenon
<1>4. ASSUME NEW p \in Party, InitEnd(p) \/ PreProcess(p) PROVE ThreadsInStep(r)'
  BY Zenon, <1>4, ThreadsMain DEF InitEnd, PreProcess, linkVars, At
<1>5. ASSUME NEW p \in Party, OnlineEnd(p) \/ PostProcess(p) \/ PostEnd(p) \/ FinalizeWrite(p)
                              \/ FinalizeThrows(p) \/ Finalize(p)
      PROVE  ThreadsInStep(r)'
  BY <1>5, ThreadsMain, Zenon DEF OnlineEnd, PostProcess, PostEnd, FinalizeWrite, FinalizeThrows,
                           Finalize, linkVars, At
<1>6. ASSUME NEW p \in Party, MainStep(p) PROVE ThreadsInStep(r)'
  BY Zenon, <1>2, <1>3, <1>4, <1>5, <1>6, ThreadsJoin DEF MainStep
<1>7. ASSUME NEW p \in Party, Crash(p) \/ Abort(p) PROVE ThreadsInStep(r)'
  BY <1>7, ThreadsMain, Zenon DEF Crash, Abort, linkVars
<1>8. ASSUME NEW p \in Party, NEW t \in Savers, Save(p, t) PROVE ThreadsInStep(r)'
  BY <1>1, <1>8, Zenon DEF Save, SaveOpen, SaveWrite
<1>9. CASE Restart
  <2>1. th'[r] = Idle /\ main'[r] = <<>> /\ start'[r] = 0 /\ pc'[r] = "Init"
    BY <1>9, Zenon DEF Restart
  <2> QED BY <2>1 DEF ThreadsInStep, Idle
<1>10. CASE UNCHANGED vars
  BY <1>1, <1>10, Zenon DEF vars, linkVars
<1> QED BY Zenon, <1>6, <1>7, <1>8, <1>9, <1>10, ThreadsMaskSelf, ThreadsMaskPeer, ThreadsRecvSelf
        DEF Next, Terminated

-----------------------------------------------------------------------------
(* Counts: LinkInv is inductive.                                             *)

(* No count exceeds the list it counts. *)

LEMMA CkptsCounted ==
  ASSUME LinkInv, NEW p \in Party
  PROVE  /\ Counts(p, ckpt[p]) /\ Counts(p, image[p]) /\ Counts(p, file[p].ck)
         /\ selfIdx[p] <= N[p] /\ peerIdx[p] <= N[Other(p)]
         /\ selfIdx[p] \in Nat /\ peerIdx[p] \in Nat
<1>1. CountsBounded(p) /\ selfIdx[p] \in Nat /\ peerIdx[p] \in Nat
  BY Zenon DEF LinkInv, TypeOK, StoreTypes
<1>2. UpTo(p, dualRecv[p]) \in 0 .. N[p] /\ UpTo(Other(p), mainRecv[p]) \in 0 .. N[Other(p)]
  BY Positions, Received, Others, Zenon
<1>3. N[p] \in Nat /\ N[Other(p)] \in Nat
  BY Positions, Others, Zenon
<1> QED BY <1>1, <1>2, <1>3 DEF CountsBounded

\* A thread of p enters a checkpoint.
LEMMA CountsMark ==
  ASSUME LinkInv, NEW p \in Party, NEW r \in Party, NEW t \in Savers, NEW ck,
         Mark(p, t, ck), Counts(p, ck)
  PROVE  Counts(r, ckpt'[r]) /\ Counts(r, image'[r]) /\ Counts(r, file'[r].ck)
<1>1. ckpt' = [ckpt EXCEPT ![p] = ck] /\ image' = image /\ file' = file
  BY Zenon DEF Mark
<1>2. ckpt'[r] = IF r = p THEN ck ELSE ckpt[r]
  BY <1>1, Zenon DEF LinkInv, TypeOK, CkptTypes
<1> QED BY <1>1, <1>2, CkptsCounted, Zenon

LEMMA CountsMarkStage ==
  ASSUME LinkInv, NEW p \in Party, NEW r \in Party, NEW s, MarkStage(p, s)
  PROVE  Counts(r, ckpt'[r]) /\ Counts(r, image'[r]) /\ Counts(r, file'[r].ck)
<1>1. CASE UNCHANGED ckptVars
  BY <1>1, CkptsCounted, Zenon DEF ckptVars
<1>2. CASE Recovery /\ Mark(p, "main", [ckpt[p] EXCEPT !.stage = s])
  <2>1. ckpt[p] \in Checkpoints /\ Counts(p, ckpt[p])
    BY CkptsCounted, Zenon DEF LinkInv, TypeOK, CkptTypes
  <2>2. Counts(p, [ckpt[p] EXCEPT !.stage = s])
    BY <1>2, <2>1, Zenon DEF Counts, Checkpoints
  <2> QED BY <1>2, <2>2, CountsMark, Zenon DEF Savers
<1> QED BY <1>1, <1>2, Zenon DEF MarkStage

LEMMA CountsCkpt ==
  ASSUME LinkInv, [Next]_vars, NEW r \in Party
  PROVE  Counts(r, ckpt'[r]) /\ Counts(r, image'[r]) /\ Counts(r, file'[r].ck)
<1> DEFINE Goal == Counts(r, ckpt'[r]) /\ Counts(r, image'[r]) /\ Counts(r, file'[r].ck)
<1>1. CASE UNCHANGED ckptVars
  BY <1>1, CkptsCounted, Zenon DEF ckptVars
<1>2. ASSUME NEW p \in Party, MaskPeerFlush(p) PROVE Goal
  <2>1. Recovery
    BY <1>2, Zenon DEF MaskPeerFlush, LinkInv, ThreadsInStep
  <2>2. Counts(p, [stage |-> ONLINE_START, self |-> ckpt[p].self, peer |-> peerIdx[p]])
    BY <2>1, CkptsCounted, Zenon DEF Counts
  <2>3. Mark(p, "peer", [stage |-> ONLINE_START, self |-> ckpt[p].self, peer |-> peerIdx[p]])
    BY <1>2, Zenon DEF MaskPeerFlush
  <2> QED BY <2>2, <2>3, CountsMark DEF Savers
<1>3. ASSUME NEW p \in Party, RecvDualMaskedFlush(p) PROVE Goal
  <2>1. Recovery
    BY <1>3, Zenon DEF RecvDualMaskedFlush, LinkInv, ThreadsInStep
  <2>2. Counts(p, [stage |-> ONLINE_START, self |-> selfIdx[p], peer |-> ckpt[p].peer])
    BY <2>1, CkptsCounted, Zenon DEF Counts
  <2>3. Mark(p, "recv", [stage |-> ONLINE_START, self |-> selfIdx[p], peer |-> ckpt[p].peer])
    BY <1>3, Zenon DEF RecvDualMaskedFlush
  <2> QED BY <2>2, <2>3, CountsMark, Zenon DEF Savers
<1>4. ASSUME NEW p \in Party, NEW t \in Savers, Save(p, t) PROVE Goal
  <2>1. CASE SaveOpen(p, t)
    <3>1. ckpt' = ckpt /\ image' = [image EXCEPT ![p] = ckpt[p]]
          /\ file' = [file EXCEPT ![p].st = "torn"]
      BY <2>1, Zenon DEF SaveOpen
    <3>2. image'[r] = (IF r = p THEN ckpt[p] ELSE image[r]) /\ file'[r].ck = file[r].ck
      BY <3>1, Zenon DEF LinkInv, TypeOK, CkptTypes
    <3> QED BY <3>1, <3>2, CkptsCounted, Zenon
  <2>2. CASE SaveWrite(p, t)
    <3>1. ckpt' = ckpt /\ image' = image
          /\ file' = [file EXCEPT ![p] = [st |-> "ok", ck |-> image[p]]]
      BY <2>2, Zenon DEF SaveWrite
    <3>2. file'[r] = IF r = p THEN [st |-> "ok", ck |-> image[p]] ELSE file[r]
      BY <3>1, Zenon DEF LinkInv, TypeOK, CkptTypes
    <3>3. file'[r].ck = IF r = p THEN image[p] ELSE file[r].ck
      BY <3>2
    <3> QED BY <3>1, <3>3, CkptsCounted, Zenon
  <2> QED BY <1>4, <2>1, <2>2, Zenon DEF Save
<1>5. CASE Restart
  <2>1. Counts(r, NoCheckpoint)
    BY Positions, Others DEF Counts, NoCheckpoint
  <2>2. /\ ckpt'[r] = IF file[r].st = "ok" THEN file[r].ck ELSE NoCheckpoint
        /\ image'[r] = NoCheckpoint /\ file' = file
    BY <1>5, Zenon DEF Restart
  <2> QED BY <2>1, <2>2, CkptsCounted, Zenon
<1>6. CASE UNCHANGED vars
  BY <1>1, <1>6, Zenon DEF vars, ckptVars
<1>7. ASSUME NEW p \in Party, InitEnd(p) \/ PreProcess(p) \/ OnlineGather(p) \/ OnlineEnd(p)
                              \/ PostEnd(p)
      PROVE  Goal
  BY Zenon, <1>7, CountsMarkStage DEF InitEnd, PreProcess, OnlineGather, OnlineEnd, PostEnd
<1>8. ASSUME NEW p \in Party, MainStep(p) PROVE Goal
  BY ZenonT(60), <1>1, <1>7, <1>8 DEF MainStep, OnlineStart, Join, PostProcess, FinalizeWrite,
                          FinalizeThrows, Finalize
<1>9. ASSUME NEW p \in Party, MaskSelf(p) \/ MaskPeer(p) \/ RecvSelf(p) PROVE Goal
  BY Zenon, <1>1, <1>2, <1>3, <1>9 DEF MaskSelf, MaskPeer, MaskPeerRecv, MaskPeerDual, RecvSelf,
                                RecvDualMaskedSelf, RecvDualMaskedNext
<1>10. ASSUME NEW p \in Party, Crash(p) \/ Abort(p) PROVE Goal
  BY <1>1, <1>10, Zenon DEF Crash, Abort
<1> QED BY <1>4, <1>5, <1>6, <1>8, <1>9, <1>10, Zenon DEF Next, Terminated

\* processed_item_cnt is within the list.
LEMMA ProcessedBounded ==
  ASSUME LinkInv, NEW p \in Party
  PROVE  /\ Processed(p) \in 0 .. N[p]
         /\ ~Recovery => Processed(p) = 0
<1>1. record[Other(p)].cnt \in Nat /\ ckpt[p].self \in Nat
  BY Others, Zenon DEF LinkInv, TypeOK, ControlTypes, CkptTypes, Checkpoints
<1>2. CountsBounded(Other(p)) /\ Other(Other(p)) = p /\ Counts(p, ckpt[p]) /\ N[p] \in Nat
  BY Others, CkptsCounted, Positions, Zenon DEF LinkInv
<1>3. record[Other(p)].cnt <= N[p] /\ ckpt[p].self <= N[p]
  BY <1>2, Zenon DEF CountsBounded, Counts
<1>4. ~Recovery => record[Other(p)].cnt = 0 /\ ckpt[p].self = 0
  <2>1. NoCheckpoint.self = 0
    BY Zenon DEF NoCheckpoint
  <2>2. ~Recovery => record[Other(p)] = [stage |-> UNSPECIFIED, cnt |-> 0] /\ ckpt[p] = NoCheckpoint
    BY <1>2, Zenon DEF CountsBounded, Counts
  <2>3. [stage |-> UNSPECIFIED, cnt |-> 0].cnt = 0
    BY Zenon
  <2>4. ASSUME ~Recovery PROVE record[Other(p)].cnt = 0
    BY <2>2, <2>3, <2>4, Zenon
  <2>5. ASSUME ~Recovery PROVE ckpt[p].self = 0
    BY <2>1, <2>2, <2>5, Zenon
  <2> QED BY <2>4, <2>5, Zenon
<1> QED BY <1>1, <1>2, <1>3, <1>4 DEF Processed, Smaller

LEMMA RecordStep ==
  ASSUME LinkInv, [Next]_vars, NEW r \in Party
  PROVE  /\ record'[r].cnt <= N[Other(r)] /\ start'[r] <= N[r]
         /\ ~Recovery => record'[r] = [stage |-> UNSPECIFIED, cnt |-> 0] /\ start'[r] = 0
<1>0. CountsBounded(r)
  BY Zenon DEF LinkInv
<1>1. CASE UNCHANGED <<record, start>>
  BY <1>0, <1>1, Zenon DEF CountsBounded
<1>2. ASSUME NEW p \in Party, OnlineStart(p)
      PROVE  /\ record'[r].cnt <= N[Other(r)] /\ start'[r] <= N[r]
             /\ ~Recovery => record'[r] = [stage |-> UNSPECIFIED, cnt |-> 0] /\ start'[r] = 0
  <2>1. CASE ~Recovery
    BY <1>1, <1>2, <2>1, Zenon DEF OnlineStart
  <2>2. CASE Recovery
    <3>1. record' = [record EXCEPT ![p] = [stage |-> ckpt[p].stage, cnt |-> ckpt[p].peer]]
          /\ start' = start
      BY <1>2, <2>2, Zenon DEF OnlineStart
    <3>2. record'[r].cnt = IF r = p THEN ckpt[p].peer ELSE record[r].cnt
      BY <3>1, Zenon DEF LinkInv, TypeOK, ControlTypes
    <3>3. ckpt[p].peer <= N[Other(p)]
      BY CkptsCounted, Zenon DEF Counts
    <3> QED BY <1>0, <2>2, <3>1, <3>2, <3>3, Zenon DEF CountsBounded
  <2> QED BY <2>1, <2>2, Zenon
<1>3. ASSUME NEW p \in Party, OnlineGather(p)
      PROVE  /\ record'[r].cnt <= N[Other(r)] /\ start'[r] <= N[r]
             /\ ~Recovery => record'[r] = [stage |-> UNSPECIFIED, cnt |-> 0] /\ start'[r] = 0
  <2>1. record' = record /\ (start' = start \/ start' = [start EXCEPT ![p] = Processed(p)])
    BY <1>3, Zenon DEF OnlineGather
  <2>2. start'[r] = start[r] \/ (r = p /\ start'[r] = Processed(p))
    BY <2>1, Zenon DEF LinkInv, TypeOK, ControlTypes
  <2> QED BY <1>0, <2>1, <2>2, ProcessedBounded DEF CountsBounded
<1>4. CASE Restart
  <2>1. record'[r] = [stage |-> UNSPECIFIED, cnt |-> 0] /\ start'[r] = 0
    BY <1>4, Zenon DEF Restart
  <2> QED BY <2>1, Positions, Others
<1>5. CASE UNCHANGED vars
  BY ZenonT(60), <1>1, <1>5 DEF vars
<1>6. ASSUME NEW p \in Party, MainStep(p), ~OnlineStart(p), ~OnlineGather(p)
      PROVE  UNCHANGED <<record, start>>
  <2>1. InitEnd(p) \/ PreProcess(p) => UNCHANGED <<record, start>>
    BY Zenon DEF InitEnd, PreProcess
  <2>2. Join(p) \/ OnlineEnd(p) \/ PostProcess(p) \/ PostEnd(p) => UNCHANGED <<record, start>>
    BY Zenon DEF Join, OnlineEnd, PostProcess, PostEnd
  <2>3. FinalizeWrite(p) \/ FinalizeThrows(p) \/ Finalize(p) => UNCHANGED <<record, start>>
    BY Zenon DEF FinalizeWrite, FinalizeThrows, Finalize
  <2> QED BY <1>6, <2>1, <2>2, <2>3, Zenon DEF MainStep
<1>7. ASSUME NEW p \in Party, MaskSelf(p) \/ MaskPeer(p) \/ RecvSelf(p) \/ Crash(p) \/ Abort(p)
      PROVE  UNCHANGED <<record, start>>
  BY Zenon, <1>7 DEF MaskSelf, MaskPeer, MaskPeerRecv, MaskPeerFlush, MaskPeerDual, RecvSelf,
              RecvDualMaskedSelf, RecvDualMaskedFlush, RecvDualMaskedNext, Crash, Abort
<1>8. ASSUME NEW p \in Party, NEW t \in Savers, Save(p, t) PROVE UNCHANGED <<record, start>>
  BY <1>8, Zenon DEF Save, SaveOpen, SaveWrite
<1> QED BY <1>1, <1>2, <1>3, <1>4, <1>5, <1>6, <1>7, <1>8, Zenon DEF Next, Terminated

\* Steps in which nothing is received, and nothing is sent before start.
LEMMA IndexSame ==
  ASSUME LinkInv, NEW r \in Party,
         UNCHANGED <<mainRecv, dualRecv, selfIdx, peerIdx>>,
         UpTo(r, dualRecv[r])' = UpTo(r, dualRecv[r]),
         UpTo(Other(r), mainRecv[r])' = UpTo(Other(r), mainRecv[r])
  PROVE  selfIdx'[r] <= UpTo(r, dualRecv[r])' /\ peerIdx'[r] <= UpTo(Other(r), mainRecv[r])'
<1>1. CountsBounded(r)
  BY Zenon DEF LinkInv
<1> QED BY <1>1, Zenon DEF CountsBounded

LEMMA IndexMaskSelf ==
  ASSUME LinkInv, NEW r \in Party, NEW p \in Party, MaskSelf(p)
  PROVE  selfIdx'[r] <= UpTo(r, dualRecv[r])' /\ peerIdx'[r] <= UpTo(Other(r), mainRecv[r])'
<1>1. UNCHANGED <<mainRecv, dualRecv, selfIdx, peerIdx>>
  BY Zenon DEF MaskSelf, storeVars
<1>2. PICK k \in Nat : k = mainRecv[r]
  BY Positions, Zenon
<1>3. PICK d \in Nat : d = dualRecv[r]
  BY Zenon, Positions
<1>4. UpTo(Other(r), k)' = UpTo(Other(r), k)
  BY <1>2, ReachMaskSelf, Received, Others, Zenon
<1>5. UpTo(r, d)' = UpTo(r, d)
  BY <1>3, ReachMaskSelf, Received, Zenon
<1> QED BY <1>1, <1>2, <1>3, <1>4, <1>5, IndexSame, Zenon

LEMMA IndexOnlineGather ==
  ASSUME LinkInv, NEW r \in Party, NEW p \in Party, OnlineGather(p)
  PROVE  selfIdx'[r] <= UpTo(r, dualRecv[r])' /\ peerIdx'[r] <= UpTo(Other(r), mainRecv[r])'
<1>1. UNCHANGED <<main, mainRecv, dualRecv, selfIdx, peerIdx>>
  BY Zenon DEF OnlineGather, storeVars
<1>2. CASE start' = start
  BY <1>1, <1>2, IndexSame, Zenon DEF UpTo
<1>3. CASE start' = [start EXCEPT ![p] = Processed(p)]
  <2>1. th[p] = Idle
    BY Zenon DEF OnlineGather, At, LinkInv, ThreadsInStep
  <2>2. start[p] = 0 /\ mainRecv[Other(p)] = 0 /\ dualRecv[p] = 0
    BY <2>1, NothingSent, Zenon
  <2>3. start'[p] = Processed(p) /\ \A s \in Party : s # p => start'[s] = start[s]
    BY <1>3, Zenon DEF LinkInv, TypeOK, ControlTypes
  <2>4. Processed(p) >= 0
    BY ProcessedBounded, Positions
  <2>5. CountsBounded(r) /\ selfIdx[r] \in Nat /\ peerIdx[r] \in Nat
    BY Zenon DEF LinkInv, TypeOK, StoreTypes
  <2>6. CASE r = p
    <3>1. selfIdx[r] <= start[r]
      BY <2>2, <2>5, <2>6, Zenon DEF CountsBounded, UpTo
    <3>2. selfIdx'[r] <= UpTo(r, dualRecv[r])'
      <4>1. UpTo(r, dualRecv[r])' = Processed(p) /\ selfIdx'[r] = selfIdx[r] /\ start[r] = 0
        BY <1>1, <2>2, <2>3, <2>6, Zenon DEF UpTo
      <4>2. Processed(p) \in Nat
        BY ProcessedBounded, Positions
      <4> QED BY <2>5, <3>1, <4>1, <4>2
    <3>3. start'[Other(r)] = start[Other(r)]
      BY Zenon, <2>3, <2>6, Others
    <3>4. peerIdx'[r] <= UpTo(Other(r), mainRecv[r])'
      BY <1>1, <2>5, <3>3, Zenon DEF CountsBounded, UpTo
    <3> QED BY <3>2, <3>4, Zenon
  <2>7. CASE r # p
    <3>0. Other(r) = p /\ r = Other(p)
      BY <2>7, Others, Zenon
    <3>1. peerIdx[r] <= start[p]
      BY <2>2, <2>5, <3>0, Zenon DEF CountsBounded, UpTo
    <3>2. peerIdx'[r] <= UpTo(Other(r), mainRecv[r])'
      BY <1>1, <2>2, <2>3, <2>4, <2>5, <3>0, <3>1 DEF UpTo
    <3>3. start'[r] = start[r]
      BY <2>3, <2>7, Zenon
    <3>4. selfIdx'[r] <= UpTo(r, dualRecv[r])'
      BY <1>1, <2>5, <3>3, Zenon DEF CountsBounded, UpTo
    <3> QED BY <3>2, <3>4, Zenon
  <2> QED BY <2>6, <2>7, Zenon
<1> QED BY <1>2, <1>3, Zenon DEF OnlineGather

\* The batch that is received next starts where the received ones end.
LEMMA NextBatch ==
  ASSUME LinkInv, NEW p \in Party
  PROVE  /\ mainRecv[p] < Len(main[Other(p)]) =>
              /\ mainRecv[p] + 1 \in 1 .. Len(main[Other(p)])
              /\ main[Other(p)][mainRecv[p] + 1].lo = UpTo(Other(p), mainRecv[p])
              /\ main[Other(p)][mainRecv[p] + 1].hi = UpTo(Other(p), mainRecv[p] + 1)
              /\ UpTo(Other(p), mainRecv[p]) <= UpTo(Other(p), mainRecv[p] + 1)
              /\ UpTo(Other(p), mainRecv[p] + 1) \in Nat
         /\ dualRecv[p] < Len(dual[Other(p)]) =>
              /\ dualRecv[p] + 1 \in 1 .. Len(dual[Other(p)])
              /\ dual[Other(p)][dualRecv[p] + 1].lo = UpTo(p, dualRecv[p])
              /\ dual[Other(p)][dualRecv[p] + 1].hi = UpTo(p, dualRecv[p] + 1)
              /\ UpTo(p, dualRecv[p]) <= UpTo(p, dualRecv[p] + 1)
              /\ UpTo(p, dualRecv[p] + 1) \in Nat
         /\ UpTo(p, dualRecv[p]) \in Nat /\ UpTo(Other(p), mainRecv[p]) \in Nat
<1>1. ASSUME NEW s \in Party, NEW k \in Nat, k < Len(main[s])
      PROVE  /\ main[s][k + 1].lo = UpTo(s, k) /\ main[s][k + 1].hi = UpTo(s, k + 1)
             /\ UpTo(s, k) <= UpTo(s, k + 1) /\ UpTo(s, k + 1) \in Nat
  <2>1. MainInOrder(s) /\ k + 1 \in 1 .. Len(main[s]) /\ k + 1 \in 0 .. Len(main[s])
        /\ (k + 1) - 1 = k
    BY <1>1, Positions DEF LinkInv
  <2>2. UpTo(s, k + 1) \in Nat
    BY <2>1, Positions
  <2>3. /\ main[s][k + 1].lo = UpTo(s, (k + 1) - 1)
        /\ main[s][k + 1].lo <= main[s][k + 1].hi
    BY <2>1, Zenon DEF MainInOrder
  <2>4. main[s][k + 1].hi = UpTo(s, k + 1)
    BY <2>1 DEF UpTo
  <2> QED BY <2>1, <2>2, <2>3, <2>4, Zenon
<1>2. /\ mainRecv[p] \in Nat /\ dualRecv[p] \in Nat /\ Len(main[Other(p)]) \in Nat
      /\ Len(dual[Other(p)]) \in Nat /\ Len(main[p]) \in Nat
      /\ Len(dual[Other(p)]) <= Len(main[p])
  <2>1. mainRecv[Other(p)] \in 0 .. Len(main[p]) /\ Len(dual[Other(p)]) <= mainRecv[Other(p)]
    BY Received, Positions, Others, Zenon
  <2> QED BY <2>1, Positions, Others
<1>3. ASSUME dualRecv[p] < Len(dual[Other(p)])
      PROVE  /\ dual[Other(p)][dualRecv[p] + 1].lo = main[p][dualRecv[p] + 1].lo
             /\ dual[Other(p)][dualRecv[p] + 1].hi = main[p][dualRecv[p] + 1].hi
  <2>1. DualInOrder(Other(p)) /\ Other(Other(p)) = p /\ dualRecv[p] + 1 \in 1 .. Len(dual[Other(p)])
    BY <1>2, <1>3, Others DEF LinkInv
  <2> QED BY Zenon, <2>1 DEF DualInOrder
<1>4. UpTo(p, dualRecv[p]) \in Nat /\ UpTo(Other(p), mainRecv[p]) \in Nat
  BY SMTT(60), Received, Positions, Others
<1>5. mainRecv[p] < Len(main[Other(p)]) => mainRecv[p] + 1 \in 1 .. Len(main[Other(p)])
  BY <1>2
<1>6. dualRecv[p] < Len(dual[Other(p)]) => /\ dualRecv[p] + 1 \in 1 .. Len(dual[Other(p)])
                                           /\ dualRecv[p] < Len(main[p])
  BY <1>2
<1> QED BY Zenon, <1>1, <1>2, <1>3, <1>4, <1>5, <1>6, Others

LEMMA IndexMaskPeerRecv ==
  ASSUME LinkInv, NEW r \in Party, NEW p \in Party, MaskPeerRecv(p)
  PROVE  selfIdx'[r] <= UpTo(r, dualRecv[r])' /\ peerIdx'[r] <= UpTo(Other(r), mainRecv[r])'
<1>0. /\ UNCHANGED <<start, main, dualRecv, selfIdx>>
      /\ mainRecv' = [mainRecv EXCEPT ![p] = @ + 1] /\ mainRecv[p] < Len(main[Other(p)])
  BY Zenon DEF MaskPeerRecv
<1>1. CountsBounded(r) /\ CountsBounded(p)
  BY Zenon DEF LinkInv
<1>2. selfIdx'[r] <= UpTo(r, dualRecv[r])'
  BY <1>0, <1>1, Zenon DEF CountsBounded, UpTo
<1>3. CASE r = p
  <2>1. PICK k \in Nat : k = mainRecv[p]
    BY Positions, Zenon
  <2>2. PICK b : b = main[Other(p)][k + 1]
    BY Zenon
  <2>3. \/ peerIdx'[p] = peerIdx[p]
        \/ peerIdx'[p] = peerIdx[p] + (b.hi - b.lo)
    BY Zenon, <2>1, <2>2 DEF MaskPeerRecv, LinkInv, TypeOK, StoreTypes
  <2>4. /\ b.lo = UpTo(Other(p), k) /\ b.hi = UpTo(Other(p), k + 1)
        /\ UpTo(Other(p), k) <= UpTo(Other(p), k + 1)
        /\ UpTo(Other(p), k) \in Nat /\ UpTo(Other(p), k + 1) \in Nat
    BY Zenon, <1>0, <2>1, <2>2, NextBatch
  <2>5. peerIdx[p] <= UpTo(Other(p), k) /\ peerIdx[p] \in Nat
    BY <1>1, <2>1, Zenon DEF CountsBounded, LinkInv, TypeOK, StoreTypes
  <2>6. peerIdx'[p] <= UpTo(Other(p), k + 1)
    BY <2>3, <2>4, <2>5
  <2>7. mainRecv'[p] = k + 1
    BY <1>0, <2>1, Zenon DEF LinkInv, TypeOK, LinkTypes
  <2>8. UpTo(Other(p), k + 1)' = UpTo(Other(p), k + 1)
    BY <1>0, Zenon DEF UpTo
  <2>9. UpTo(Other(p), mainRecv[p])' = UpTo(Other(p), k + 1)'
    BY Zenon, <2>7
  <2> QED BY <1>2, <1>3, <2>6, <2>8, <2>9, Zenon
<1>4. CASE r # p
  <2>1. mainRecv'[r] = mainRecv[r] /\ peerIdx'[r] = peerIdx[r]
    BY <1>0, <1>4, Zenon DEF MaskPeerRecv, LinkInv, TypeOK, LinkTypes, StoreTypes
  <2> QED BY Zenon, <1>0, <1>1, <1>2, <2>1 DEF CountsBounded, UpTo
<1> QED BY Zenon, <1>3, <1>4

LEMMA IndexRecvDualMaskedSelf ==
  ASSUME LinkInv, NEW r \in Party, NEW p \in Party, RecvDualMaskedSelf(p)
  PROVE  selfIdx'[r] <= UpTo(r, dualRecv[r])' /\ peerIdx'[r] <= UpTo(Other(r), mainRecv[r])'
<1>0. /\ UNCHANGED <<start, main, mainRecv, peerIdx>>
      /\ dualRecv' = [dualRecv EXCEPT ![p] = @ + 1] /\ dualRecv[p] < Len(dual[Other(p)])
  BY Zenon DEF RecvDualMaskedSelf
<1>1. CountsBounded(r) /\ CountsBounded(p)
  BY Zenon DEF LinkInv
<1>2. peerIdx'[r] <= UpTo(Other(r), mainRecv[r])'
  BY <1>0, <1>1, Zenon DEF CountsBounded, UpTo
<1>3. CASE r = p
  <2>1. PICK k \in Nat : k = dualRecv[p]
    BY Zenon, Positions
  <2>2. PICK b : b = dual[Other(p)][k + 1]
    BY Zenon
  <2>3. selfIdx'[p] = selfIdx[p] + (b.hi - b.lo)
    BY Zenon, <2>1, <2>2 DEF RecvDualMaskedSelf, LinkInv, TypeOK, StoreTypes
  <2>4. /\ b.lo = UpTo(p, k) /\ b.hi = UpTo(p, k + 1)
        /\ UpTo(p, k) <= UpTo(p, k + 1)
        /\ UpTo(p, k) \in Nat /\ UpTo(p, k + 1) \in Nat
    BY Zenon, <1>0, <2>1, <2>2, NextBatch
  <2>5. selfIdx[p] <= UpTo(p, k) /\ selfIdx[p] \in Nat
    BY <1>1, <2>1, Zenon DEF CountsBounded, LinkInv, TypeOK, StoreTypes
  <2>6. selfIdx'[p] <= UpTo(p, k + 1)
    BY <2>3, <2>4, <2>5
  <2>7. dualRecv'[p] = k + 1
    BY <1>0, <2>1, Zenon DEF LinkInv, TypeOK, LinkTypes
  <2>8. UpTo(p, k + 1)' = UpTo(p, k + 1)
    BY <1>0, Zenon DEF UpTo
  <2>9. UpTo(p, dualRecv[p])' = UpTo(p, k + 1)'
    BY Zenon, <2>7
  <2> QED BY <1>2, <1>3, <2>6, <2>8, <2>9, Zenon
<1>4. CASE r # p
  <2>1. dualRecv'[r] = dualRecv[r] /\ selfIdx'[r] = selfIdx[r]
    BY <1>0, <1>4, Zenon DEF RecvDualMaskedSelf, LinkInv, TypeOK, LinkTypes, StoreTypes
  <2> QED BY Zenon, <1>0, <1>1, <1>2, <2>1 DEF CountsBounded, UpTo
<1> QED BY <1>3, <1>4, Zenon

LEMMA IndexStep ==
  ASSUME LinkInv, [Next]_vars, NEW r \in Party
  PROVE  selfIdx'[r] <= UpTo(r, dualRecv[r])' /\ peerIdx'[r] <= UpTo(Other(r), mainRecv[r])'
<1>1. CASE UNCHANGED <<start, main, mainRecv, dualRecv, selfIdx, peerIdx>>
  BY <1>1, IndexSame, Zenon DEF UpTo
<1>2. CASE Restart
  <2>1. /\ selfIdx'[r] = 0 /\ peerIdx'[r] = 0 /\ dualRecv'[r] = 0 /\ mainRecv'[r] = 0
        /\ start'[r] = 0 /\ start'[Other(r)] = 0
    BY <1>2, Others, Zenon DEF Restart
  <2> QED BY <2>1 DEF UpTo
<1>3. CASE UNCHANGED vars
  BY Zenon, <1>1, <1>3 DEF vars
<1>4. ASSUME NEW p \in Party, MainStep(p), ~OnlineGather(p)
      PROVE  UNCHANGED <<start, main, mainRecv, dualRecv, selfIdx, peerIdx>>
  BY ZenonT(60), <1>4 DEF MainStep, InitEnd, PreProcess, OnlineStart, Join, OnlineEnd, PostProcess, PostEnd,
              FinalizeWrite, FinalizeThrows, Finalize, linkVars, storeVars
<1>5. ASSUME NEW p \in Party, MaskPeer(p) \/ RecvSelf(p) \/ Crash(p) \/ Abort(p),
             ~MaskPeerRecv(p), ~RecvDualMaskedSelf(p)
      PROVE  UNCHANGED <<start, main, mainRecv, dualRecv, selfIdx, peerIdx>>
  BY <1>5, Zenon DEF MaskPeer, MaskPeerFlush, MaskPeerDual, RecvSelf,
              RecvDualMaskedFlush, RecvDualMaskedNext, Crash, Abort, linkVars, storeVars
<1>6. ASSUME NEW p \in Party, NEW t \in Savers, Save(p, t)
      PROVE  UNCHANGED <<start, main, mainRecv, dualRecv, selfIdx, peerIdx>>
  BY <1>6, Zenon DEF Save, SaveOpen, SaveWrite, linkVars, storeVars
<1> QED BY Zenon, <1>1, <1>2, <1>3, <1>4, <1>5, <1>6, IndexMaskSelf, IndexOnlineGather,
           IndexMaskPeerRecv, IndexRecvDualMaskedSelf DEF Next, Terminated

-----------------------------------------------------------------------------

LEMMA LinkInit == Init => LinkInv
<1> SUFFICES ASSUME Init PROVE LinkInv
  BY Zenon
<1>1. TypeOK
  BY TypeInit, Zenon
<1>2. ASSUME NEW p \in Party
      PROVE  MainInOrder(p) /\ DualInOrder(p) /\ ThreadsInStep(p)
  <2>1. /\ main[p] = <<>> /\ dual[p] = <<>> /\ main[Other(p)] = <<>> /\ dual[Other(p)] = <<>>
        /\ start[p] = 0 /\ pos[p] = 0 /\ mainRecv[p] = 0 /\ dualRecv[p] = 0 /\ th[p] = Idle
    BY Others, Zenon DEF Init
  <2> QED BY <2>1 DEF MainInOrder, DualInOrder, ThreadsInStep, UpTo, Idle
<1>3. ASSUME NEW p \in Party PROVE CountsBounded(p)
  <2>1. /\ ckpt[p] = NoCheckpoint /\ image[p] = NoCheckpoint /\ file[p].ck = NoCheckpoint
        /\ record[p] = [stage |-> UNSPECIFIED, cnt |-> 0] /\ start[p] = 0 /\ start[Other(p)] = 0
        /\ selfIdx[p] = 0 /\ peerIdx[p] = 0 /\ mainRecv[p] = 0 /\ dualRecv[p] = 0
    BY Others, Zenon DEF Init
  <2>2. N[p] >= 0 /\ N[Other(p)] >= 0
    BY ConstAssumption, Others
  <2> QED BY <2>1, <2>2 DEF CountsBounded, Counts, NoCheckpoint, UpTo
<1> QED BY <1>1, <1>2, <1>3, Zenon DEF LinkInv

LEMMA LinkStep == LinkInv /\ [Next]_vars => LinkInv'
<1> SUFFICES ASSUME LinkInv, [Next]_vars PROVE LinkInv'
  BY Zenon
<1>1. TypeOK'
  BY TypeStep, Zenon
<1>2. ASSUME NEW r \in Party PROVE CountsBounded(r)'
  BY CountsCkpt, RecordStep, IndexStep, Zenon DEF CountsBounded
<1> QED BY <1>1, <1>2, BatchesStep, ThreadsStep, Zenon DEF LinkInv

\* The batches on both links, the threads and all counts stay in step, over
\* crashes and restarts (ecdh_psi.cc:60-281, recovery.cc:148-233).
THEOREM LinkInvariant == Spec => []LinkInv
<1>1. Init => LinkInv
  BY LinkInit, Zenon
<1>2. LinkInv /\ [Next]_vars => LinkInv'
  BY LinkStep, Zenon
<1> QED BY <1>1, <1>2, PTL DEF Spec

\* All state keeps its type; in particular no position, index or count becomes
\* negative (the subtractions of ecdh_psi.cc:77-91).
THEOREM TypeCorrect == Spec => []TypeOK
<1>1. LinkInv => TypeOK
  BY Zenon DEF LinkInv
<1> QED BY <1>1, LinkInvariant, PTL

-----------------------------------------------------------------------------
(* Checkpoints: the stores on disk are behind every checkpoint that a        *)
(* restart can load.                                                         *)

(* The stores on disk have what the counts say. *)

LEMMA CoveredGrows ==
  ASSUME NEW A, NEW B, A \subseteq B, NEW c \in Nat, NEW d \in Nat, d <= c, Covered(A, c)
  PROVE  Covered(B, d)
BY DEF Covered, Has

LEMMA CoveredNone == ASSUME NEW A PROVE Covered(A, 0)
BY DEF Covered

\* A set that reaches c, and the items from c to d, reach d.
LEMMA CoveredExtended ==
  ASSUME NEW A, NEW B, NEW c \in Nat, NEW d \in Nat, c <= d, Covered(A, c),
         \A i \in c .. d - 1 : Has(B, i)
  PROVE  Covered(A \cup B, d)
BY DEF Covered, Has

\* Sizes
LEMMA Sizes ==
  ASSUME LinkInv, NEW p \in Party
  PROVE  /\ ckpt[p] \in Checkpoints /\ image[p] \in Checkpoints /\ file[p].ck \in Checkpoints
         /\ record[p].cnt \in Nat /\ record[p].stage \in 0 .. 5 /\ start[p] \in Nat
         /\ selfIdx[p] \in Nat /\ peerIdx[p] \in Nat /\ N[p] \in Nat
BY Positions, Zenon DEF LinkInv, TypeOK, ControlTypes, CkptTypes, StoreTypes

\* Files lose lines only when a task without recovery starts again, and lines
\* reach them from the buffers unless the process dies.
LEMMA StoresGrow ==
  ASSUME LinkInv, [Next]_vars, NEW r \in Party
  PROVE  /\ Recovery \/ ~Restart => self[r] \subseteq self'[r] /\ peer[r] \subseteq peer'[r]
         /\ ~Restart /\ pc'[r] # "down" =>
              /\ self[r] \cup selfBuf[r] \subseteq self'[r] \cup selfBuf'[r]
              /\ peer[r] \cup peerBuf[r] \subseteq peer'[r] \cup peerBuf'[r]
<1> DEFINE Goal == 
         /\ Recovery \/ ~Restart => self[r] \subseteq self'[r] /\ peer[r] \subseteq peer'[r]
         /\ ~Restart /\ pc'[r] # "down" =>
              /\ self[r] \cup selfBuf[r] \subseteq self'[r] \cup selfBuf'[r]
              /\ peer[r] \cup peerBuf[r] \subseteq peer'[r] \cup peerBuf'[r]
<1>0. /\ self \in [Party -> SUBSET Lines] /\ peer \in [Party -> SUBSET Lines]
      /\ selfBuf \in [Party -> SUBSET Lines] /\ peerBuf \in [Party -> SUBSET Lines]
  BY Zenon DEF LinkInv, TypeOK, StoreTypes
<1>1. ASSUME self' = self, peer' = peer, selfBuf' = selfBuf, peerBuf' = peerBuf PROVE Goal
  BY <1>1, Zenon
<1>2. ASSUME NEW p \in Party, MaskPeerRecv(p) PROVE Goal
  <2>1. /\ \E s : peerBuf' = [peerBuf EXCEPT ![p] = @ \cup s] \/ peerBuf' = peerBuf
        /\ self' = self /\ peer' = peer /\ selfBuf' = selfBuf
    BY Zenon, <1>0, <1>2 DEF MaskPeerRecv
  <2>2. peerBuf[r] \subseteq peerBuf'[r]
    BY <1>0, <2>1, Zenon
  <2> QED BY <2>1, <2>2, Zenon
<1>3. ASSUME NEW p \in Party, RecvDualMaskedSelf(p) PROVE Goal
  <2>1. /\ \E s : selfBuf' = [selfBuf EXCEPT ![p] = @ \cup s]
        /\ self' = self /\ peer' = peer /\ peerBuf' = peerBuf
    BY Zenon, <1>3 DEF RecvDualMaskedSelf
  <2>2. selfBuf[r] \subseteq selfBuf'[r]
    BY <1>0, <2>1, Zenon
  <2> QED BY <2>1, <2>2, Zenon
<1>4. ASSUME NEW p \in Party, MaskPeerFlush(p) PROVE Goal
  <2>1. /\ peer' = [peer EXCEPT ![p] = @ \cup peerBuf[p]] /\ peerBuf' = [peerBuf EXCEPT ![p] = {}]
        /\ self' = self /\ selfBuf' = selfBuf
    BY <1>4, Zenon DEF MaskPeerFlush
  <2>2. /\ peer'[r] = IF r = p THEN peer[r] \cup peerBuf[r] ELSE peer[r]
        /\ peerBuf'[r] = IF r = p THEN {} ELSE peerBuf[r]
    BY Zenon, <1>0, <2>1
  <2> QED BY <2>1, <2>2
<1>5. ASSUME NEW p \in Party, RecvDualMaskedFlush(p) PROVE Goal
  <2>1. /\ self' = [self EXCEPT ![p] = @ \cup selfBuf[p]] /\ selfBuf' = [selfBuf EXCEPT ![p] = {}]
        /\ peer' = peer /\ peerBuf' = peerBuf
    BY <1>5, Zenon DEF RecvDualMaskedFlush
  <2>2. /\ self'[r] = IF r = p THEN self[r] \cup selfBuf[r] ELSE self[r]
        /\ selfBuf'[r] = IF r = p THEN {} ELSE selfBuf[r]
    BY Zenon, <1>0, <2>1
  <2> QED BY <2>1, <2>2
<1>6. ASSUME NEW p \in Party, PostProcess(p) \/ Abort(p) PROVE Goal
  <2>1. /\ self' = [self EXCEPT ![p] = @ \cup selfBuf[p]] /\ selfBuf' = [selfBuf EXCEPT ![p] = {}]
        /\ peer' = [peer EXCEPT ![p] = @ \cup peerBuf[p]] /\ peerBuf' = [peerBuf EXCEPT ![p] = {}]
    BY <1>6, Zenon DEF PostProcess, Abort
  <2>2. /\ self'[r] = IF r = p THEN self[r] \cup selfBuf[r] ELSE self[r]
        /\ selfBuf'[r] = IF r = p THEN {} ELSE selfBuf[r]
    BY Zenon, <1>0, <2>1
  <2>3. /\ peer'[r] = IF r = p THEN peer[r] \cup peerBuf[r] ELSE peer[r]
        /\ peerBuf'[r] = IF r = p THEN {} ELSE peerBuf[r]
    BY Zenon, <1>0, <2>1
  <2> QED BY <2>2, <2>3, Zenon
<1>7. ASSUME NEW p \in Party, Crash(p) PROVE Goal
  <2>1. /\ \E s : self' = [self EXCEPT ![p] = @ \cup s]
        /\ \E s : peer' = [peer EXCEPT ![p] = @ \cup s]
        /\ selfBuf' = [selfBuf EXCEPT ![p] = {}] /\ peerBuf' = [peerBuf EXCEPT ![p] = {}]
        /\ pc' = [pc EXCEPT ![p] = "down"]
    BY Zenon, <1>7 DEF Crash, Goto
  <2>2. self[r] \subseteq self'[r] /\ peer[r] \subseteq peer'[r]
    BY <1>0, <2>1, Zenon
  <2>3. r # p => selfBuf'[r] = selfBuf[r] /\ peerBuf'[r] = peerBuf[r]
    BY Zenon, <1>0, <2>1
  <2>4. pc'[p] = "down"
    BY Zenon, <2>1 DEF LinkInv, TypeOK, ControlTypes
  <2> QED BY <2>2, <2>3, <2>4, Zenon
<1>8. CASE Restart
  BY Zenon, <1>8 DEF Restart
<1>9. CASE UNCHANGED vars
  BY Zenon, <1>1, <1>9 DEF vars
<1>10. ASSUME NEW p \in Party, MainStep(p), ~PostProcess(p) PROVE UNCHANGED storeVars
  BY Zenon, <1>10 DEF MainStep, InitEnd, PreProcess, OnlineStart, OnlineGather, Join, OnlineEnd, PostEnd,
              FinalizeWrite, FinalizeThrows, Finalize
<1>11. ASSUME NEW p \in Party, MaskSelf(p) \/ MaskPeerDual(p) \/ RecvDualMaskedNext(p)
       PROVE  UNCHANGED storeVars
  BY <1>11, Zenon DEF MaskSelf, MaskPeerDual, RecvDualMaskedNext
<1>12. ASSUME NEW p \in Party, NEW t \in Savers, Save(p, t) PROVE UNCHANGED storeVars
  BY Zenon, <1>12 DEF Save, SaveOpen, SaveWrite
<1>13. ASSUME UNCHANGED storeVars PROVE Goal
  BY <1>1, <1>13, Zenon DEF storeVars
<1> HIDE DEF Goal
<1>14. Goal
  <2>1. CASE Restart
    BY Zenon, <1>8, <2>1 DEF Goal
  <2>2. CASE UNCHANGED vars
    BY <1>9, <2>2, Zenon DEF Goal
  <2>3. ASSUME NEW p \in Party, MainStep(p) \/ MaskSelf(p) \/ Crash(p) \/ Abort(p) PROVE Goal
    BY Zenon, <1>6, <1>7, <1>10, <1>11, <1>13, <2>3
  <2>4. ASSUME NEW p \in Party, MaskPeer(p) \/ RecvSelf(p) PROVE Goal
    BY Zenon, <1>2, <1>3, <1>4, <1>5, <1>11, <1>13, <2>4 DEF MaskPeer, RecvSelf
  <2>5. ASSUME NEW p \in Party, NEW t \in Savers, Save(p, t) PROVE Goal
    BY <1>12, <1>13, <2>5, Zenon
  <2> QED BY Zenon, <2>1, <2>2, <2>3, <2>4, <2>5 DEF Next, Terminated
<1> QED BY <1>14, Zenon DEF Goal

LEMMA FullKept ==
  ASSUME LinkInv, NEW r \in Party, self[r] \subseteq self'[r], peer[r] \subseteq peer'[r], Full(r)
  PROVE  Full(r)'
BY Zenon DEF Full, Covered, Has

LEMMA BackedKept ==
  ASSUME LinkInv, NEW r \in Party, self[r] \subseteq self'[r], peer[r] \subseteq peer'[r],
         NEW ck, Backed(r, ck)
  PROVE  Backed(r, ck)'
<1>1. ck.stage >= ONLINE_END => Full(r)'
  BY FullKept, Zenon DEF Backed
<1>2. Covered(self'[r], ck.self) /\ Covered(peer'[r], ck.peer)
  BY Zenon DEF Backed, Covered, Has
<1> QED BY <1>1, <1>2, Zenon DEF Backed

LEMMA BackedNone ==
  ASSUME NEW r \in Party
  PROVE  Backed(r, NoCheckpoint)'
BY CoveredNone DEF Backed, NoCheckpoint, UNSPECIFIED, ONLINE_END

\* A thread of p enters a checkpoint that its stores back.
LEMMA BackedMark ==
  ASSUME LinkInv, NEW r \in Party, self[r] \subseteq self'[r], peer[r] \subseteq peer'[r],
         CkptsBacked(r), NEW p \in Party, NEW t \in Savers, NEW ck, Mark(p, t, ck),
         p = r => Backed(r, ck)'
  PROVE  Backed(r, ckpt[r])' /\ Backed(r, image[r])' /\ Backed(r, file[r].ck)'
<1>1. ckpt' = [ckpt EXCEPT ![p] = ck] /\ image' = image /\ file' = file
  BY Zenon DEF Mark
<1>2. PICK c, i, f : c = ckpt[r] /\ i = image[r] /\ f = file[r].ck
  BY Zenon
<1>3. ckpt'[r] = (IF r = p THEN ck ELSE c) /\ image'[r] = i /\ file'[r].ck = f
  BY Zenon, <1>1, <1>2 DEF LinkInv, TypeOK, CkptTypes
<1>4. Backed(r, c)' /\ Backed(r, i)' /\ Backed(r, f)'
  BY <1>2, BackedKept, Zenon DEF CkptsBacked
<1> QED BY <1>3, <1>4, Zenon

LEMMA BackedSame ==
  ASSUME LinkInv, NEW r \in Party, self[r] \subseteq self'[r], peer[r] \subseteq peer'[r],
         CkptsBacked(r), UNCHANGED ckptVars
  PROVE  Backed(r, ckpt[r])' /\ Backed(r, image[r])' /\ Backed(r, file[r].ck)'
<1>1. PICK c, i, f : c = ckpt[r] /\ i = image[r] /\ f = file[r].ck
  BY Zenon
<1>2. Backed(r, c)' /\ Backed(r, i)' /\ Backed(r, f)'
  BY <1>1, BackedKept, Zenon DEF CkptsBacked
<1> QED BY <1>1, <1>2, Zenon DEF ckptVars

\* The stage may say ONLINE_END only when the files are complete.
LEMMA BackedMarkStage ==
  ASSUME LinkInv, NEW r \in Party, self[r] \subseteq self'[r], peer[r] \subseteq peer'[r],
         CkptsBacked(r), NEW p \in Party, NEW s \in 0 .. 5, MarkStage(p, s),
         p = r /\ Recovery /\ s >= ONLINE_END => Full(r)
  PROVE  Backed(r, ckpt[r])' /\ Backed(r, image[r])' /\ Backed(r, file[r].ck)'
<1>1. CASE UNCHANGED ckptVars
  BY <1>1, BackedSame, Zenon
<1>2. CASE Recovery /\ Mark(p, "main", [ckpt[p] EXCEPT !.stage = s])
  <2>1. PICK ck : ck = [ckpt[p] EXCEPT !.stage = s]
    BY Zenon
  <2>2. ASSUME p = r PROVE Backed(r, ck)'
    <3>1. ckpt[r] \in Checkpoints
      BY Sizes, Zenon
    <3>2. ck.stage = s /\ ck.self = ckpt[r].self /\ ck.peer = ckpt[r].peer
      BY Zenon, <2>1, <2>2, <3>1 DEF Checkpoints
    <3>3. Backed(r, ck)
      BY <1>2, <2>2, <3>2, Zenon DEF Backed, CkptsBacked
    <3> QED BY <3>3, BackedKept, Zenon
  <2>3. Mark(p, "main", ck) /\ "main" \in Savers
    BY <1>2, <2>1, Zenon DEF Savers
  <2> QED BY <2>2, <2>3, BackedMark, Zenon
<1> QED BY <1>1, <1>2, Zenon DEF MarkStage

\* After Online no line is in memory only.
LEMMA FullAfterOnline ==
  ASSUME LinkInv, StoreInv, Recovery, NEW p \in Party, p \in Targets,
         pc[p] \in {"OnlineSync", "OnlineEnd"}
  PROVE  Full(p)
<1>1. th[p].peer \in {"idle", "done"} /\ th[p].recv \in {"idle", "done"}
  BY Zenon DEF LinkInv, ThreadsInStep
<1>2. BuffersInStep(p) /\ StoresFilled(p)
  BY Zenon DEF StoreInv
<1>3. selfBuf[p] = {} /\ peerBuf[p] = {}
  BY <1>1, <1>2, Zenon DEF BuffersInStep
<1>4. self[p] \cup selfBuf[p] = self[p] /\ peer[p] \cup peerBuf[p] = peer[p]
  BY <1>3, Zenon
<1>5. Covered(self[p] \cup selfBuf[p], N[p]) /\ Covered(peer[p] \cup peerBuf[p], N[Other(p)])
  BY <1>2, Zenon DEF StoresFilled
<1> QED BY Zenon, <1>4, <1>5 DEF Full

LEMMA BackedMaskPeerFlush ==
  ASSUME LinkInv, StoreInv, NEW r \in Party, r \in Targets, MaskPeerFlush(r),
         NEW ck, ck = [stage |-> ONLINE_START, self |-> ckpt[r].self, peer |-> peerIdx[r]]
  PROVE  Backed(r, ck)'
<1>1. pc[r] # "down" /\ self' = self /\ peer'[r] = peer[r] \cup peerBuf[r]
  BY Zenon DEF MaskPeerFlush, Running, LinkInv, TypeOK, StoreTypes
<1>2. CkptsBacked(r) /\ StoresFilled(r)
  BY Zenon DEF StoreInv
<1>3. peerIdx[r] \in Nat /\ UpTo(Other(r), mainRecv[r]) \in Nat
      /\ peerIdx[r] <= UpTo(Other(r), mainRecv[r])
  BY Zenon, NextBatch DEF LinkInv, CountsBounded, TypeOK, StoreTypes
<1>4. Covered(peer[r] \cup peerBuf[r], UpTo(Other(r), mainRecv[r]))
  BY Zenon, <1>1, <1>2 DEF StoresFilled
<1>5. Covered(peer'[r], peerIdx[r])
  BY Zenon, <1>1, <1>3, <1>4, CoveredGrows
<1>6. Covered(self'[r], ckpt[r].self)
  BY Zenon, <1>1, <1>2 DEF CkptsBacked, Backed
<1>7. ck.stage = ONLINE_START /\ ck.self = ckpt[r].self /\ ck.peer = peerIdx[r]
  BY Zenon
<1> QED BY <1>5, <1>6, <1>7 DEF Backed, ONLINE_START, ONLINE_END

LEMMA BackedRecvDualMaskedFlush ==
  ASSUME LinkInv, StoreInv, NEW r \in Party, r \in Targets, RecvDualMaskedFlush(r),
         NEW ck, ck = [stage |-> ONLINE_START, self |-> selfIdx[r], peer |-> ckpt[r].peer]
  PROVE  Backed(r, ck)'
<1>1. pc[r] # "down" /\ peer' = peer /\ self'[r] = self[r] \cup selfBuf[r]
  BY Zenon DEF RecvDualMaskedFlush, Running, LinkInv, TypeOK, StoreTypes
<1>2. CkptsBacked(r) /\ StoresFilled(r)
  BY Zenon DEF StoreInv
<1>3. selfIdx[r] \in Nat /\ UpTo(r, dualRecv[r]) \in Nat /\ selfIdx[r] <= UpTo(r, dualRecv[r])
  BY NextBatch, Zenon DEF LinkInv, CountsBounded, TypeOK, StoreTypes
<1>4. Covered(self[r] \cup selfBuf[r], UpTo(r, dualRecv[r]))
  BY <1>1, <1>2, Zenon DEF StoresFilled
<1>5. Covered(self'[r], selfIdx[r])
  BY Zenon, <1>1, <1>3, <1>4, CoveredGrows
<1>6. Covered(peer'[r], ckpt[r].peer)
  BY <1>1, <1>2, Zenon DEF CkptsBacked, Backed
<1>7. ck.stage = ONLINE_START /\ ck.self = selfIdx[r] /\ ck.peer = ckpt[r].peer
  BY Zenon
<1> QED BY <1>5, <1>6, <1>7 DEF Backed, ONLINE_START, ONLINE_END

LEMMA BackedRestart ==
  ASSUME LinkInv, StoreInv, NEW r \in Party, r \in Targets, Restart
  PROVE  Backed(r, ckpt[r])' /\ Backed(r, image[r])' /\ Backed(r, file[r].ck)'
<1>1. /\ ckpt'[r] = IF file[r].st = "ok" THEN file[r].ck ELSE NoCheckpoint
      /\ image'[r] = NoCheckpoint /\ file' = file
  BY Zenon DEF Restart
<1>2. PICK f : f = file[r].ck
  BY Zenon
<1>3. Backed(r, f)'
  <2>1. CASE Recovery
    <3>1. self' = self /\ peer' = peer
      BY <2>1, Zenon DEF Restart
    <3>2. Backed(r, f)
      BY <1>2, Zenon DEF StoreInv, CkptsBacked
    <3> QED BY Zenon, <3>1, <3>2, BackedKept
  <2>2. CASE ~Recovery
    BY Zenon, <1>2, <2>2, BackedNone, CkptsCounted DEF Counts
  <2> QED BY <2>1, <2>2, Zenon
<1>4. ckpt'[r] = f \/ ckpt'[r] = NoCheckpoint
  BY <1>1, <1>2, Zenon
<1>5. Backed(r, ckpt[r])'
  BY <1>3, <1>4, BackedNone, Zenon
<1>6. Backed(r, image[r])'
  BY <1>1, BackedNone, Zenon
<1>7. Backed(r, file[r].ck)'
  BY <1>1, <1>2, <1>3, Zenon
<1> QED BY Zenon, <1>5, <1>6, <1>7

LEMMA BackedSave ==
  ASSUME LinkInv, StoreInv, NEW r \in Party, r \in Targets,
         NEW p \in Party, NEW t \in Savers, Save(p, t)
  PROVE  Backed(r, ckpt[r])' /\ Backed(r, image[r])' /\ Backed(r, file[r].ck)'
<1>1. PICK c, i, f : c = ckpt[r] /\ i = image[r] /\ f = file[r].ck
  BY Zenon
<1>2. self' = self /\ peer' = peer /\ ckpt' = ckpt
  BY Zenon DEF Save, SaveOpen, SaveWrite, storeVars
<1>3. Backed(r, c)' /\ Backed(r, i)' /\ Backed(r, f)'
  BY Zenon, <1>1, <1>2, BackedKept DEF StoreInv, CkptsBacked
<1>4. ckpt'[r] = c
  BY Zenon, <1>1, <1>2
<1>5. image'[r] \in {c, i}
  BY <1>1, Zenon DEF Save, SaveOpen, SaveWrite, LinkInv, TypeOK, CkptTypes
<1>6. file'[r].ck \in {i, f}
  <2>1. CASE SaveOpen(p, t)
    BY Zenon, <1>1, <2>1 DEF SaveOpen, LinkInv, TypeOK, CkptTypes
  <2>2. CASE SaveWrite(p, t)
    <3>1. file' = [file EXCEPT ![p] = [st |-> "ok", ck |-> image[p]]]
      BY Zenon, <2>2 DEF SaveWrite
    <3>2. file'[r] = IF r = p THEN [st |-> "ok", ck |-> image[p]] ELSE file[r]
      BY <3>1, Zenon DEF LinkInv, TypeOK, CkptTypes
    <3> QED BY <1>1, <3>2
  <2> QED BY Zenon, <2>1, <2>2 DEF Save
<1>7. Backed(r, ckpt[r])'
  BY <1>3, <1>4, Zenon
<1>8. Backed(r, image[r])'
  BY <1>3, <1>5, Zenon
<1>9. Backed(r, file[r].ck)'
  BY <1>3, <1>6, Zenon
<1> QED BY <1>7, <1>8, <1>9, Zenon

LEMMA BackedStep ==
  ASSUME LinkInv, StoreInv, [Next]_vars, NEW r \in Party, r \in Targets
  PROVE  Backed(r, ckpt[r])' /\ Backed(r, image[r])' /\ Backed(r, file[r].ck)'
<1>1. CASE Restart
  BY <1>1, BackedRestart, Zenon
<1>2. CASE ~Restart
  <2> DEFINE Goal == Backed(r, ckpt[r])' /\ Backed(r, image[r])' /\ Backed(r, file[r].ck)'
  <2>0. self[r] \subseteq self'[r] /\ peer[r] \subseteq peer'[r] /\ CkptsBacked(r)
    BY <1>2, StoresGrow, Zenon DEF StoreInv
  <2>1. ASSUME UNCHANGED ckptVars PROVE Goal
    BY <2>0, <2>1, BackedSame, Zenon
  <2>2. ASSUME NEW p \in Party, InitEnd(p) \/ PreProcess(p) \/ OnlineGather(p) PROVE Goal
    <3>1. \E s \in 0 .. 3 : MarkStage(p, s)
      <4>1. MarkStage(p, INIT_END) \/ MarkStage(p, PRE_PROCESS_END) \/ MarkStage(p, ONLINE_START)
        BY <2>2, Zenon DEF InitEnd, PreProcess, OnlineGather
      <4>2. INIT_END \in 0 .. 3 /\ PRE_PROCESS_END \in 0 .. 3 /\ ONLINE_START \in 0 .. 3
        BY DEF INIT_END, PRE_PROCESS_END, ONLINE_START
      <4> QED BY <4>1, <4>2, Zenon
    <3>2. PICK s \in 0 .. 3 : MarkStage(p, s)
      BY <3>1, Zenon
    <3>3. s \in 0 .. 5 /\ ~(s >= ONLINE_END)
      BY DEF ONLINE_END
    <3> QED BY Zenon, <2>0, <3>2, <3>3, BackedMarkStage
  <2>3. ASSUME NEW p \in Party, OnlineEnd(p) PROVE Goal
    <3>1. MarkStage(p, ONLINE_END) /\ ONLINE_END \in 0 .. 5
      BY <2>3 DEF OnlineEnd, ONLINE_END
    <3>2. p = r /\ Recovery => Full(r)
      BY <2>3, FullAfterOnline, Zenon DEF OnlineEnd, At
    <3> QED BY Zenon, <2>0, <3>1, <3>2, BackedMarkStage
  <2>4. ASSUME NEW p \in Party, PostEnd(p) PROVE Goal
    <3>1. MarkStage(p, POST_PROCESS_END) /\ POST_PROCESS_END \in 0 .. 5
      BY <2>4 DEF PostEnd, POST_PROCESS_END
    <3>2. p = r => Full(r)
      BY Zenon, <2>4 DEF PostEnd, At, StoreInv, StoresFilled
    <3> QED BY Zenon, <2>0, <3>1, <3>2, BackedMarkStage
  <2>5. ASSUME NEW p \in Party, MaskPeerFlush(p) PROVE Goal
    <3>1. PICK ck : ck = [stage |-> ONLINE_START, self |-> ckpt[p].self, peer |-> peerIdx[p]]
      BY Zenon
    <3>2. Mark(p, "peer", ck) /\ "peer" \in Savers
      BY <2>5, <3>1, Zenon DEF MaskPeerFlush, Savers
    <3>3. p = r => Backed(r, ck)'
      BY <2>5, <3>1, BackedMaskPeerFlush, Zenon
    <3> QED BY <2>0, <3>2, <3>3, BackedMark, Zenon
  <2>6. ASSUME NEW p \in Party, RecvDualMaskedFlush(p) PROVE Goal
    <3>1. PICK ck : ck = [stage |-> ONLINE_START, self |-> selfIdx[p], peer |-> ckpt[p].peer]
      BY Zenon
    <3>2. Mark(p, "recv", ck) /\ "recv" \in Savers
      BY <2>6, <3>1, Zenon DEF RecvDualMaskedFlush, Savers
    <3>3. p = r => Backed(r, ck)'
      BY Zenon, <2>6, <3>1, BackedRecvDualMaskedFlush
    <3> QED BY <2>0, <3>2, <3>3, BackedMark, Zenon
  <2>7. ASSUME NEW p \in Party, NEW t \in Savers, Save(p, t) PROVE Goal
    BY Zenon, <2>7, BackedSave
  <2>8. ASSUME UNCHANGED vars PROVE Goal
    BY <2>1, <2>8, Zenon DEF vars, ckptVars
  <2> HIDE DEF Goal
  <2>9. ASSUME NEW p \in Party, MainStep(p) PROVE Goal
    <3>1. OnlineStart(p) \/ Join(p) \/ PostProcess(p) \/ FinalizeWrite(p) \/ FinalizeThrows(p)
          \/ Finalize(p) => UNCHANGED ckptVars
      BY Zenon DEF OnlineStart, Join, PostProcess, FinalizeWrite, FinalizeThrows, Finalize
    <3> QED BY Zenon, <2>1, <2>2, <2>3, <2>4, <2>9, <3>1 DEF MainStep
  <2>10. ASSUME NEW p \in Party, MaskSelf(p) \/ MaskPeer(p) \/ RecvSelf(p) PROVE Goal
    <3>1. MaskSelf(p) \/ MaskPeerRecv(p) \/ MaskPeerDual(p) \/ RecvDualMaskedSelf(p)
          \/ RecvDualMaskedNext(p) => UNCHANGED ckptVars
      BY Zenon DEF MaskSelf, MaskPeerRecv, MaskPeerDual, RecvDualMaskedSelf, RecvDualMaskedNext
    <3> QED BY ZenonT(60), <2>1, <2>5, <2>6, <2>10, <3>1 DEF MaskPeer, RecvSelf
  <2>11. ASSUME NEW p \in Party, Crash(p) \/ Abort(p) PROVE Goal
    BY <2>1, <2>11, Zenon DEF Crash, Abort
  <2>12. Goal
    BY Zenon, <1>2, <2>7, <2>8, <2>9, <2>10, <2>11 DEF Next, Terminated
  <2> QED BY <2>12, Zenon DEF Goal
<1> QED BY <1>1, <1>2, Zenon

\* What p resumes at is in its own store, and in its peer's.
LEMMA ProcessedBacked ==
  ASSUME LinkInv, StoreInv, NEW p \in Party
  PROVE  /\ p \in Targets => Covered(self[p], Processed(p))
         /\ Other(p) \in Targets => Covered(peer[Other(p)], Processed(p))
<1>1. /\ Processed(p) \in Nat /\ record[Other(p)].cnt \in Nat /\ ckpt[p].self \in Nat
      /\ Other(p) \in Party
  BY ProcessedBounded, Sizes, Others DEF Checkpoints
<1>2. ASSUME p \in Targets PROVE Covered(self[p], Processed(p))
  <2>1. Covered(self[p], ckpt[p].self)
    BY <1>2, Zenon DEF StoreInv, CkptsBacked, Backed
  <2>2. Processed(p) <= ckpt[p].self
    BY <1>1, <1>2 DEF Processed, Smaller
  <2> QED BY Zenon, <1>1, <2>1, <2>2, CoveredGrows
<1>3. ASSUME Other(p) \in Targets PROVE Covered(peer[Other(p)], Processed(p))
  <2>1. Covered(peer[Other(p)], record[Other(p)].cnt)
    BY Zenon, <1>1, <1>3 DEF StoreInv, CkptsBacked
  <2>2. Processed(p) <= record[Other(p)].cnt
    BY <1>1, <1>3 DEF Processed, Smaller
  <2> QED BY Zenon, <1>1, <2>1, <2>2, CoveredGrows
<1> QED BY <1>2, <1>3, Zenon

LEMMA RecordBacked ==
  ASSUME LinkInv, StoreInv, [Next]_vars, NEW r \in Party, r \in Targets
  PROVE  /\ Covered(peer'[r], record'[r].cnt)
         /\ record'[r].stage >= ONLINE_END => Full(r)'
         /\ Covered(self'[r], start'[r]) /\ Covered(peer'[r], start'[Other(r)])
<1>1. CASE Restart
  <2>1. record'[r] = [stage |-> UNSPECIFIED, cnt |-> 0] /\ start'[r] = 0 /\ start'[Other(r)] = 0
    BY <1>1, Others, Zenon DEF Restart
  <2> QED BY <2>1, CoveredNone DEF UNSPECIFIED, ONLINE_END
<1>2. CASE ~Restart
  <2> DEFINE Goal == /\ Covered(peer'[r], record'[r].cnt)
                     /\ record'[r].stage >= ONLINE_END => Full(r)'
                     /\ Covered(self'[r], start'[r]) /\ Covered(peer'[r], start'[Other(r)])
  <2>0. self[r] \subseteq self'[r] /\ peer[r] \subseteq peer'[r] /\ CkptsBacked(r)
    BY <1>2, StoresGrow, Zenon DEF StoreInv
  <2>1. ASSUME record'[r] = record[r], start' = start PROVE Goal
    <3>1. Covered(peer'[r], record[r].cnt) /\ Covered(self'[r], start[r])
          /\ Covered(peer'[r], start[Other(r)])
      BY <2>0, CoveredGrows, Sizes, Others DEF CkptsBacked
    <3>2. record[r].stage >= ONLINE_END => Full(r)'
      BY <2>0, FullKept, Zenon DEF CkptsBacked
    <3> QED BY Zenon, <2>1, <3>1, <3>2
  <2>2. ASSUME NEW p \in Party, OnlineStart(p) PROVE Goal
    <3>0. start' = start
      BY Zenon, <2>2 DEF OnlineStart
    <3>1. CASE ~Recovery \/ p # r
      BY Zenon, <2>1, <2>2, <3>0, <3>1 DEF OnlineStart, LinkInv, TypeOK, ControlTypes
    <3>2. CASE Recovery /\ p = r
      <4>1. record' = [record EXCEPT ![r] = [stage |-> ckpt[r].stage, cnt |-> ckpt[r].peer]]
        BY Zenon, <2>2, <3>2 DEF OnlineStart
      <4>2. record'[r] = [stage |-> ckpt[r].stage, cnt |-> ckpt[r].peer]
        BY Zenon, <4>1 DEF LinkInv, TypeOK, ControlTypes
      <4>3. record'[r].stage = ckpt[r].stage /\ record'[r].cnt = ckpt[r].peer
        BY <4>2
      <4>4. Covered(self'[r], start[r]) /\ Covered(peer'[r], start[Other(r)])
        <5>1. /\ Covered(self[r], start[r]) /\ Covered(peer[r], start[Other(r)])
              /\ self[r] \subseteq self'[r] /\ peer[r] \subseteq peer'[r]
          BY <2>0, Zenon DEF CkptsBacked
        <5>2. start[r] \in Nat /\ start[Other(r)] \in Nat /\ start[r] <= start[r]
              /\ start[Other(r)] <= start[Other(r)]
          BY Sizes, Others
        <5> QED BY Zenon, <5>1, <5>2, CoveredGrows
      <4>5. Covered(peer'[r], ckpt[r].peer)
        BY <2>0, CoveredGrows, Sizes DEF CkptsBacked, Backed, Checkpoints
      <4>6. ckpt[r].stage >= ONLINE_END => Full(r)'
        BY <2>0, FullKept, Zenon DEF CkptsBacked, Backed
      <4> QED BY Zenon, <3>0, <4>3, <4>4, <4>5, <4>6
    <3> QED BY <3>1, <3>2, Zenon
  <2>3. ASSUME NEW p \in Party, OnlineGather(p) PROVE Goal
    <3>1. record' = record /\ (start' = start \/ start' = [start EXCEPT ![p] = Processed(p)])
      BY <2>3, Zenon DEF OnlineGather
    <3>2. CASE start' = start
      BY <2>1, <3>1, <3>2, Zenon
    <3>3. CASE start' = [start EXCEPT ![p] = Processed(p)]
      <4>1. start'[p] = Processed(p) /\ \A s \in Party : s # p => start'[s] = start[s]
        BY <3>3, Zenon DEF LinkInv, TypeOK, ControlTypes
      <4>2. self' = self /\ peer' = peer
        BY <2>3, Zenon DEF OnlineGather, storeVars
      <4>3. /\ Covered(peer'[r], record[r].cnt) /\ Covered(self'[r], start[r])
            /\ Covered(peer'[r], start[Other(r)])
        BY <2>0, <4>2, Zenon DEF CkptsBacked
      <4>4. record[r].stage >= ONLINE_END => Full(r)'
        BY <2>0, FullKept, Zenon DEF CkptsBacked
      <4>5. Covered(self'[r], start'[r])
        BY <4>1, <4>2, <4>3, ProcessedBacked, Zenon
      <4>6. Covered(peer'[r], start'[Other(r)])
        BY Zenon, <4>1, <4>2, <4>3, ProcessedBacked, Others
      <4> QED BY <3>1, <4>3, <4>4, <4>5, <4>6, Zenon
    <3> QED BY <3>1, <3>2, <3>3, Zenon
  <2>4. ASSUME UNCHANGED <<record, start>> PROVE Goal
    BY <2>1, <2>4, Zenon
  <2>5. ASSUME UNCHANGED vars PROVE UNCHANGED <<record, start>>
    BY Zenon, <2>5 DEF vars
  <2>6. ASSUME NEW p \in Party, MainStep(p), ~OnlineStart(p), ~OnlineGather(p)
        PROVE  UNCHANGED <<record, start>>
    BY Zenon, <2>6 DEF MainStep, InitEnd, PreProcess, Join, OnlineEnd, PostProcess, PostEnd,
                FinalizeWrite, FinalizeThrows, Finalize
  <2>7. ASSUME NEW p \in Party, MaskSelf(p) \/ MaskPeer(p) \/ RecvSelf(p) \/ Crash(p) \/ Abort(p)
        PROVE  UNCHANGED <<record, start>>
    BY Zenon, <2>7 DEF MaskSelf, MaskPeer, MaskPeerRecv, MaskPeerFlush, MaskPeerDual, RecvSelf,
                RecvDualMaskedSelf, RecvDualMaskedFlush, RecvDualMaskedNext, Crash, Abort
  <2>8. ASSUME NEW p \in Party, NEW t \in Savers, Save(p, t) PROVE UNCHANGED <<record, start>>
    BY <2>8, Zenon DEF Save, SaveOpen, SaveWrite
  <2> HIDE DEF Goal
  <2>9. Goal
    BY Zenon, <1>2, <2>2, <2>3, <2>4, <2>5, <2>6, <2>7, <2>8 DEF Next, Terminated
  <2> QED BY <2>9, Zenon DEF Goal
<1> QED BY <1>1, <1>2, Zenon

LEMMA CkptsBackedStep ==
  ASSUME LinkInv, StoreInv, [Next]_vars, NEW r \in Party, r \in Targets
  PROVE  CkptsBacked(r)'
BY BackedStep, RecordBacked, Zenon DEF CkptsBacked

-----------------------------------------------------------------------------
(* Stores: the second layer of the inductive invariant, on top of LinkInv.   *)

LEMMA BuffersStep ==
  ASSUME LinkInv, StoreInv, [Next]_vars, NEW r \in Party
  PROVE  BuffersInStep(r)'
<1> SUFFICES ASSUME Recovery PROVE BuffersInStep(r)'
  BY Zenon DEF BuffersInStep
<1> DEFINE Goal == BuffersInStep(r)'
<1>0. /\ BuffersInStep(r) /\ th \in [Party -> [self : {"idle", "send", "done"},
                           peer : {"idle", "recv", "flush", "dual", "done"},
                           recv : {"idle", "recv", "flush", "saved", "done"}]]
      /\ selfBuf \in [Party -> SUBSET Lines] /\ peerBuf \in [Party -> SUBSET Lines]
      /\ DOMAIN pc = Party
  BY Zenon, ThreadSets DEF StoreInv, LinkInv, TypeOK, StoreTypes, ControlTypes
<1>1. ASSUME selfBuf'[r] \subseteq selfBuf[r], peerBuf'[r] \subseteq peerBuf[r], pc'[r] # "down",
             th'[r].peer = th[r].peer, th'[r].recv = th[r].recv
      PROVE  Goal
  BY <1>0, <1>1, Zenon DEF BuffersInStep
<1>2. ASSUME selfBuf'[r] = {}, peerBuf'[r] = {} PROVE Goal
  BY <1>2, Zenon DEF BuffersInStep
<1>3. ASSUME pc[r] \notin {"RunEcdhPsi", "down"} PROVE selfBuf[r] = {} /\ peerBuf[r] = {}
  <2>1. th[r].peer \in {"idle", "done"} /\ th[r].recv \in {"idle", "done"}
    BY Zenon, <1>3 DEF LinkInv, ThreadsInStep
  <2> QED BY Zenon, <1>0, <2>1 DEF BuffersInStep
<1>4. ASSUME selfBuf'[r] = selfBuf[r], peerBuf'[r] = peerBuf[r],
             pc[r] # "RunEcdhPsi" \/ (pc'[r] = pc[r] /\ th'[r] = th[r])
      PROVE  Goal
  <2>1. CASE pc[r] # "RunEcdhPsi"
    <3>1. selfBuf[r] = {} /\ peerBuf[r] = {}
      BY Zenon, <1>0, <1>3, <2>1 DEF BuffersInStep
    <3> QED BY Zenon, <1>2, <1>4, <3>1
  <2>2. CASE pc[r] = "RunEcdhPsi" /\ pc'[r] = pc[r] /\ th'[r] = th[r]
    BY Zenon, <1>1, <1>4, <2>2
  <2> QED BY Zenon, <1>4, <2>1, <2>2
<1>5. ASSUME NEW p \in Party, MainStep(p), ~Join(p), ~PostProcess(p) PROVE Goal
  <2>1. selfBuf' = selfBuf /\ peerBuf' = peerBuf /\ pc[p] # "RunEcdhPsi"
    BY Zenon, <1>5 DEF MainStep, InitEnd, PreProcess, OnlineStart, OnlineGather, OnlineEnd, PostEnd,
                FinalizeWrite, FinalizeThrows, Finalize, storeVars, At
  <2>2. \E place : pc' = [pc EXCEPT ![p] = place]
    BY <1>5, Zenon DEF MainStep, InitEnd, PreProcess, OnlineStart, OnlineGather, OnlineEnd, PostEnd,
                FinalizeWrite, FinalizeThrows, Finalize, Goto
  <2>3. r # p => pc'[r] = pc[r]
    BY Zenon, <1>0, <2>2
  <2>4. r # p => th'[r] = th[r]
    BY <1>0, <1>5, Zenon DEF MainStep, InitEnd, PreProcess, OnlineStart, OnlineGather, OnlineEnd, PostEnd,
                FinalizeWrite, FinalizeThrows, Finalize
  <2> QED BY Zenon, <1>4, <2>1, <2>3, <2>4
<1>6. ASSUME NEW p \in Party, Join(p) PROVE Goal
  <2>1. /\ selfBuf' = selfBuf /\ peerBuf' = peerBuf /\ th' = th
        /\ pc' = [pc EXCEPT ![p] = "OnlineSync"] /\ pc[p] # "down"
    BY <1>6, Zenon DEF Join, storeVars, Goto, At
  <2>2. CASE r = p
    <3>1. pc'[r] # "down"
      BY Zenon, <1>0, <2>1, <2>2
    <3> QED BY <1>1, <2>1, <3>1, Zenon
  <2>3. CASE r # p
    <3>1. pc'[r] = pc[r]
      BY <1>0, <2>1, <2>3, Zenon
    <3> QED BY Zenon, <1>4, <2>1, <3>1
  <2> QED BY Zenon, <2>2, <2>3
<1>7. ASSUME NEW p \in Party, PostProcess(p) \/ Crash(p) \/ Abort(p) PROVE Goal
  <2>1. /\ selfBuf' = [selfBuf EXCEPT ![p] = {}] /\ peerBuf' = [peerBuf EXCEPT ![p] = {}]
        /\ th' = th /\ \E place : pc' = [pc EXCEPT ![p] = place]
    BY <1>7, Zenon DEF PostProcess, Crash, Abort, Goto
  <2>2. CASE r = p
    <3>1. selfBuf'[r] = {} /\ peerBuf'[r] = {}
      BY Zenon, <1>0, <2>1, <2>2
    <3> QED BY Zenon, <1>2, <3>1
  <2>3. CASE r # p
    <3>1. selfBuf'[r] = selfBuf[r] /\ peerBuf'[r] = peerBuf[r] /\ pc'[r] = pc[r]
      BY Zenon, <1>0, <2>1, <2>3
    <3> QED BY Zenon, <1>4, <2>1, <3>1
  <2> QED BY Zenon, <2>2, <2>3
<1>8. ASSUME UNCHANGED <<pc, th, selfBuf, peerBuf>> PROVE Goal
  BY Zenon, <1>4, <1>8
<1>9. ASSUME NEW p \in Party, MaskSelf(p) \/ MaskPeerDual(p) \/ RecvDualMaskedNext(p) PROVE Goal
  <2>1. selfBuf' = selfBuf /\ peerBuf' = peerBuf /\ pc' = pc /\ pc[p] # "down"
    BY Zenon, <1>9 DEF MaskSelf, MaskPeerDual, RecvDualMaskedNext, storeVars, Running
  <2>2. /\ r # p => th'[r] = th[r]
        /\ th'[r].peer = th[r].peer \/ th[r].peer = "dual"
        /\ th'[r].recv = th[r].recv \/ th[r].recv = "saved"
    BY <1>0, <1>9 DEF MaskSelf, MaskPeerDual, RecvDualMaskedNext
  <2> QED BY Zenon, <1>0, <2>1, <2>2 DEF BuffersInStep
<1>10. ASSUME NEW p \in Party, MaskPeerFlush(p) PROVE Goal
  <2>1. /\ selfBuf' = selfBuf /\ pc' = pc /\ peerBuf' = [peerBuf EXCEPT ![p] = {}]
        /\ th' = [th EXCEPT ![p].peer = "dual"]
    BY <1>10, Zenon DEF MaskPeerFlush
  <2>2. /\ th'[r].recv = th[r].recv
        /\ (r # p => th'[r] = th[r] /\ peerBuf'[r] = peerBuf[r]) /\ peerBuf'[p] = {}
    BY <1>0, <2>1, Zenon
  <2> QED BY Zenon, <1>0, <2>1, <2>2 DEF BuffersInStep
<1>11. ASSUME NEW p \in Party, RecvDualMaskedFlush(p) PROVE Goal
  <2>1. /\ peerBuf' = peerBuf /\ pc' = pc /\ selfBuf' = [selfBuf EXCEPT ![p] = {}]
        /\ th' = [th EXCEPT ![p].recv = "saved"]
    BY <1>11, Zenon DEF RecvDualMaskedFlush
  <2>2. /\ th'[r].peer = th[r].peer
        /\ (r # p => th'[r] = th[r] /\ selfBuf'[r] = selfBuf[r]) /\ selfBuf'[p] = {}
    BY <1>0, <2>1, Zenon
  <2> QED BY <1>0, <2>1, <2>2, Zenon DEF BuffersInStep
<1>12. ASSUME NEW p \in Party, MaskPeerRecv(p) PROVE Goal
  <2>1. /\ selfBuf' = selfBuf /\ pc' = pc /\ pc[p] # "down" /\ th[p].peer = "recv"
        /\ \/ /\ th' = [th EXCEPT ![p].peer = "flush"]
              /\ \E s : peerBuf' = [peerBuf EXCEPT ![p] = s]
           \/ th' = [th EXCEPT ![p].peer = "dual"] /\ peerBuf' = peerBuf
    BY Zenon, <1>0, <1>12 DEF MaskPeerRecv, Running
  <2>2. /\ th'[r].recv = th[r].recv
        /\ r # p => th'[r] = th[r] /\ peerBuf'[r] = peerBuf[r]
        /\ th'[p].peer = "flush" \/ peerBuf'[p] = peerBuf[p]
    BY <1>0, <2>1
  <2>3. r = p /\ th'[p].peer # "flush" => peerBuf'[r] = {}
    BY Zenon, <1>0, <2>1, <2>2 DEF BuffersInStep
  <2> QED BY Zenon, <1>0, <2>1, <2>2, <2>3 DEF BuffersInStep
<1>13. ASSUME NEW p \in Party, RecvDualMaskedSelf(p) PROVE Goal
  <2>0. PICK b : b = dual[Other(p)][dualRecv[p] + 1]
    BY Zenon
  <2>1. /\ peerBuf' = peerBuf /\ pc' = pc /\ pc[p] # "down" /\ th[p].recv = "recv"
        /\ selfBuf' = [selfBuf EXCEPT ![p] = @ \cup SelfLines(p, b)]
        /\ th' = [th EXCEPT ![p].recv = IF b.lo = b.hi THEN "done" ELSE "flush"]
    BY Zenon, <1>13, <2>0 DEF RecvDualMaskedSelf, Running
  <2>2. b.lo = b.hi => SelfLines(p, b) = {}
    <3>1. b \in DualBatches
      BY Zenon, <1>13, <2>0, NextBatch, LinesTypes DEF RecvDualMaskedSelf
    <3>2. b.lo = b.hi => b.lo .. b.hi - 1 = {}
      BY <3>1 DEF DualBatches
    <3> QED BY Zenon, <3>2 DEF SelfLines
  <2>3. /\ th'[r].peer = th[r].peer
        /\ r # p => th'[r] = th[r] /\ selfBuf'[r] = selfBuf[r]
        /\ selfBuf'[p] = selfBuf[p] \cup SelfLines(p, b)
        /\ b.lo # b.hi => th'[p].recv = "flush"
    BY <1>0, <2>1, Zenon
  <2>4. r = p /\ b.lo = b.hi => selfBuf'[r] = {}
    BY Zenon, <1>0, <2>1, <2>2, <2>3 DEF BuffersInStep
  <2> QED BY Zenon, <1>0, <2>1, <2>3, <2>4 DEF BuffersInStep
<1>14. ASSUME Restart PROVE Goal
  <2>1. selfBuf' = selfBuf /\ peerBuf' = peerBuf /\ pc[r] # "RunEcdhPsi"
    BY Zenon, <1>14 DEF Restart, Stopped
  <2> QED BY Zenon, <1>4, <2>1
<1>15. ASSUME NEW p \in Party, NEW t \in Savers, Save(p, t) PROVE UNCHANGED <<pc, th, selfBuf, peerBuf>>
  BY <1>15, Zenon DEF Save, SaveOpen, SaveWrite, storeVars
<1>16. ASSUME UNCHANGED vars PROVE UNCHANGED <<pc, th, selfBuf, peerBuf>>
  BY Zenon, <1>16 DEF vars
<1> HIDE DEF Goal
<1>17. Goal
  BY Zenon, <1>5, <1>6, <1>7, <1>8, <1>9, <1>10, <1>11, <1>12, <1>13, <1>14, <1>15, <1>16
     DEF Next, Terminated, MaskPeer, RecvSelf
<1> QED BY <1>17, Zenon DEF Goal

-----------------------------------------------------------------------------

\* Where the main thread of r comes from.
LEMMA Places ==
  ASSUME LinkInv, [Next]_vars, ~Restart, NEW r \in Party
  PROVE  /\ pc[r] = "down" => pc'[r] = "down"
         /\ pc'[r] \in {"OnlineSync", "OnlineEnd"} \cup PastOnlineSync =>
              \/ pc[r] \in {"OnlineSync", "OnlineEnd"} \cup PastOnlineSync
              \/ Join(r) \/ (OnlineGather(r) /\ OnlineFinished(r))
         /\ pc'[r] \in {"PostEnd"} \cup PastPostEnd =>
              pc[r] \in {"PostEnd"} \cup PastPostEnd \/ PostProcess(r)
<1> DEFINE Goal ==
         /\ pc[r] = "down" => pc'[r] = "down"
         /\ pc'[r] \in {"OnlineSync", "OnlineEnd"} \cup PastOnlineSync =>
              \/ pc[r] \in {"OnlineSync", "OnlineEnd"} \cup PastOnlineSync
              \/ Join(r) \/ (OnlineGather(r) /\ OnlineFinished(r))
         /\ pc'[r] \in {"PostEnd"} \cup PastPostEnd =>
              pc[r] \in {"PostEnd"} \cup PastPostEnd \/ PostProcess(r)
<1> USE DEF PastOnlineSync, PastPostEnd, PastFinalizeSync
<1>0. DOMAIN pc = Party
  BY Zenon DEF LinkInv, TypeOK, ControlTypes
<1>1. ASSUME pc'[r] = pc[r] PROVE Goal
  BY <1>1, Zenon
<1>2. ASSUME NEW p \in Party, NEW place, Goto(p, place), r # p PROVE Goal
  BY <1>0, <1>1, <1>2, Zenon DEF Goto
<1>3. ASSUME NEW place, Goto(r, place) PROVE pc'[r] = place
  BY <1>0, <1>3, Zenon DEF Goto
<1>4. ASSUME NEW p \in Party, InitEnd(p) \/ PreProcess(p) \/ OnlineStart(p) PROVE Goal
  <2>1. \E place \in {"PreProcess", "OnlineStart", "OnlineGather", "RunEcdhPsi"} :
          Goto(p, place) /\ pc[p] # "down"
    BY <1>4, Zenon DEF InitEnd, PreProcess, OnlineStart, At
  <2> QED BY Zenon, <1>2, <1>3, <2>1
<1>5. ASSUME NEW p \in Party, OnlineGather(p) PROVE Goal
  <2>1. /\ pc[p] # "down"
        /\ Goto(p, "RunEcdhPsi") \/ (Goto(p, "OnlineEnd") /\ OnlineFinished(p))
    BY <1>5, Zenon DEF OnlineGather, At
  <2> QED BY Zenon, <1>2, <1>3, <1>5, <2>1
<1>6. ASSUME NEW p \in Party, Join(p) PROVE Goal
  <2>1. pc[p] # "down" /\ Goto(p, "OnlineSync")
    BY <1>6, Zenon DEF Join, At
  <2> QED BY Zenon, <1>2, <1>3, <1>6, <2>1
<1>7. ASSUME NEW p \in Party, OnlineEnd(p) PROVE Goal
  <2>1. pc[p] \in {"OnlineSync", "OnlineEnd"} /\ Goto(p, "PostProcess")
    BY <1>7, Zenon DEF OnlineEnd, At
  <2> QED BY Zenon, <1>2, <1>3, <2>1
<1>8. ASSUME NEW p \in Party, PostProcess(p) PROVE Goal
  <2>1. pc[p] = "PostProcess" /\ Goto(p, "PostEnd")
    BY <1>8, Zenon DEF PostProcess, At
  <2> QED BY Zenon, <1>2, <1>3, <1>8, <2>1
<1>9. ASSUME NEW p \in Party, PostEnd(p) \/ FinalizeWrite(p) \/ Finalize(p) PROVE Goal
  <2>1. /\ pc[p] \in {"PostEnd", "Finalize", "FinalizeSync"}
        /\ \E place \in {"Finalize", "FinalizeSync", "done"} : Goto(p, place)
    BY <1>9, Zenon DEF PostEnd, FinalizeWrite, Finalize, At
  <2> QED BY Zenon, <1>2, <1>3, <2>1
<1>10. ASSUME NEW p \in Party, FinalizeThrows(p) \/ Crash(p) \/ Abort(p) PROVE Goal
  <2>1. Goto(p, "down")
    BY <1>10, Zenon DEF FinalizeThrows, Crash, Abort
  <2> QED BY Zenon, <1>2, <1>3, <2>1
<1>11. ASSUME NEW p \in Party, MaskSelf(p) \/ MaskPeer(p) \/ RecvSelf(p) PROVE Goal
  <2>1. pc' = pc
    BY ZenonT(60), <1>11 DEF MaskSelf, MaskPeer, MaskPeerRecv, MaskPeerFlush, MaskPeerDual, RecvSelf,
                 RecvDualMaskedSelf, RecvDualMaskedFlush, RecvDualMaskedNext
  <2> QED BY Zenon, <1>1, <2>1
<1>12. ASSUME NEW p \in Party, NEW t \in Savers, Save(p, t) PROVE Goal
  BY Zenon, <1>1, <1>12 DEF Save, SaveOpen, SaveWrite
<1>13. ASSUME UNCHANGED vars PROVE Goal
  BY Zenon, <1>1, <1>13 DEF vars
<1> HIDE DEF Goal
<1>14. Goal
  BY Zenon, <1>4, <1>5, <1>6, <1>7, <1>8, <1>9, <1>10, <1>11, <1>12, <1>13
     DEF Next, MainStep, Terminated
<1> QED BY <1>14, Zenon DEF Goal

\* The stores of r have what r has received in this run.
LEMMA FilledSame ==
  ASSUME LinkInv, StoreInv, [Next]_vars, ~Restart, NEW r \in Party, r \in Targets,
         pc'[r] # "down"
  PROVE  /\ UpTo(r, dualRecv[r])' = UpTo(r, dualRecv[r]) =>
              Covered(self[r] \cup selfBuf[r], UpTo(r, dualRecv[r]))'
         /\ UpTo(Other(r), mainRecv[r])' = UpTo(Other(r), mainRecv[r]) =>
              Covered(peer[r] \cup peerBuf[r], UpTo(Other(r), mainRecv[r]))'
<1>1. pc[r] # "down"
  BY Places, Zenon
<1>2. PICK d \in Nat : d = UpTo(r, dualRecv[r])
  BY NextBatch, Zenon
<1>3. PICK k \in Nat : k = UpTo(Other(r), mainRecv[r])
  BY NextBatch, Zenon
<1>4. Covered(self[r] \cup selfBuf[r], d) /\ Covered(peer[r] \cup peerBuf[r], k)
  BY <1>1, <1>2, <1>3, Zenon DEF StoreInv, StoresFilled
<1>5. /\ self[r] \cup selfBuf[r] \subseteq self'[r] \cup selfBuf'[r]
      /\ peer[r] \cup peerBuf[r] \subseteq peer'[r] \cup peerBuf'[r]
  BY StoresGrow, Zenon
<1>6. Covered(self'[r] \cup selfBuf'[r], d) /\ Covered(peer'[r] \cup peerBuf'[r], k)
  BY <1>4, <1>5, CoveredGrows
<1> QED BY <1>2, <1>3, <1>6, Zenon

LEMMA FilledMaskPeerRecv ==
  ASSUME LinkInv, StoreInv, NEW r \in Party, r \in Targets, MaskPeerRecv(r)
  PROVE  Covered(peer[r] \cup peerBuf[r], UpTo(Other(r), mainRecv[r]))'
<1>1. PICK k \in Nat : k = mainRecv[r]
  BY Positions, Zenon
<1>2. PICK b : b = main[Other(r)][k + 1]
  BY Zenon
<1>3. /\ mainRecv' = [mainRecv EXCEPT ![r] = @ + 1] /\ mainRecv[r] < Len(main[Other(r)])
      /\ peer' = peer /\ start' = start /\ main' = main /\ pc[r] # "down"
      /\ peerBuf' = [peerBuf EXCEPT ![r] = IF b.lo < b.hi THEN @ \cup PeerLines(r, b) ELSE @]
  BY Zenon, <1>1, <1>2 DEF MaskPeerRecv, Running
<1>4. PICK lo, hi \in Nat : lo = UpTo(Other(r), k) /\ hi = UpTo(Other(r), k + 1)
  BY Zenon, <1>1, <1>3, NextBatch
<1>5. b.lo = lo /\ b.hi = hi /\ lo <= hi
  BY Zenon, <1>1, <1>2, <1>3, <1>4, NextBatch
<1>6. Covered(peer[r] \cup peerBuf[r], lo)
  BY Zenon, <1>1, <1>3, <1>4 DEF StoreInv, StoresFilled
<1>7. \A i \in lo .. hi - 1 : Has(PeerLines(r, b), i)
  <2> TAKE i \in lo .. hi - 1
  <2> DEFINE l == [run |-> run, idx |-> peerIdx[r] + (i - b.lo), pos |-> i,
                   dup |-> Dup[Other(r)][b.base + (i - b.lo)], own |-> b.own, via |-> key[r]]
  <2>1. l \in PeerLines(r, b)
    BY <1>5, Zenon DEF PeerLines
  <2>2. l.pos = i
    BY Zenon
  <2> HIDE DEF l
  <2> QED BY <2>1, <2>2, Zenon DEF Has
<1>8. peerBuf'[r] = IF lo < hi THEN peerBuf[r] \cup PeerLines(r, b) ELSE peerBuf[r]
  BY Zenon, <1>3, <1>5 DEF LinkInv, TypeOK, StoreTypes
<1>9. Covered(peer'[r] \cup peerBuf'[r], hi)
  <2>1. CASE lo < hi
    <3>1. peer'[r] \cup peerBuf'[r] = (peer[r] \cup peerBuf[r]) \cup PeerLines(r, b)
      BY <1>3, <1>8, <2>1
    <3> QED BY ZenonT(60), <1>5, <1>6, <1>7, <3>1, CoveredExtended
  <2>2. CASE lo = hi
    <3>1. peer'[r] \cup peerBuf'[r] = peer[r] \cup peerBuf[r]
      BY <1>3, <1>8, <2>2
    <3> QED BY Zenon, <1>6, <2>2, <3>1
  <2> QED BY <1>5, <2>1, <2>2
<1>10. mainRecv'[r] = k + 1
  BY Zenon, <1>1, <1>3 DEF LinkInv, TypeOK, LinkTypes
<1>11. UpTo(Other(r), k + 1)' = hi
  BY <1>3, <1>4, Zenon DEF UpTo
<1>12. UpTo(Other(r), mainRecv[r])' = hi
  BY <1>10, <1>11, Zenon
<1> QED BY <1>9, <1>12, Zenon

LEMMA FilledRecvDualMaskedSelf ==
  ASSUME LinkInv, StoreInv, NEW r \in Party, r \in Targets, RecvDualMaskedSelf(r)
  PROVE  Covered(self[r] \cup selfBuf[r], UpTo(r, dualRecv[r]))'
<1>1. PICK k \in Nat : k = dualRecv[r]
  BY Positions, Zenon
<1>2. PICK b : b = dual[Other(r)][k + 1]
  BY Zenon
<1>3. /\ dualRecv' = [dualRecv EXCEPT ![r] = @ + 1] /\ dualRecv[r] < Len(dual[Other(r)])
      /\ self' = self /\ start' = start /\ main' = main /\ pc[r] # "down"
      /\ selfBuf' = [selfBuf EXCEPT ![r] = @ \cup SelfLines(r, b)]
  BY Zenon, <1>1, <1>2 DEF RecvDualMaskedSelf, Running
<1>4. PICK lo, hi \in Nat : lo = UpTo(r, k) /\ hi = UpTo(r, k + 1)
  BY Zenon, <1>1, <1>3, NextBatch
<1>5. b.lo = lo /\ b.hi = hi /\ lo <= hi
  BY Zenon, <1>1, <1>2, <1>3, <1>4, NextBatch
<1>6. Covered(self[r] \cup selfBuf[r], lo)
  BY Zenon, <1>1, <1>3, <1>4 DEF StoreInv, StoresFilled
<1>7. \A i \in lo .. hi - 1 : Has(SelfLines(r, b), i)
  <2> TAKE i \in lo .. hi - 1
  <2> DEFINE l == [run |-> run, idx |-> selfIdx[r] + (i - b.lo), pos |-> i, dup |-> 0,
                   own |-> b.own, via |-> b.via]
  <2>1. l \in SelfLines(r, b)
    BY <1>5, Zenon DEF SelfLines
  <2>2. l.pos = i
    BY Zenon
  <2> HIDE DEF l
  <2> QED BY <2>1, <2>2, Zenon DEF Has
<1>8. self'[r] \cup selfBuf'[r] = (self[r] \cup selfBuf[r]) \cup SelfLines(r, b)
  <2>1. selfBuf'[r] = selfBuf[r] \cup SelfLines(r, b)
    BY Zenon, <1>3 DEF LinkInv, TypeOK, StoreTypes
  <2> QED BY Zenon, <1>3, <2>1
<1>9. Covered(self'[r] \cup selfBuf'[r], hi)
  BY ZenonT(60), <1>5, <1>6, <1>7, <1>8, CoveredExtended
<1>10. dualRecv'[r] = k + 1
  BY Zenon, <1>1, <1>3 DEF LinkInv, TypeOK, LinkTypes
<1>11. UpTo(r, k + 1)' = hi
  BY <1>3, <1>4, Zenon DEF UpTo
<1>12. UpTo(r, dualRecv[r])' = hi
  BY <1>10, <1>11, Zenon
<1> QED BY <1>9, <1>12, Zenon

\* Steps in which r receives nothing and nothing is resumed.
LEMMA ReachSame ==
  ASSUME LinkInv, [Next]_vars, NEW r \in Party,
         ~Restart, \A p \in Party : ~OnlineGather(p)
  PROVE  /\ ~RecvDualMaskedSelf(r) => UpTo(r, dualRecv[r])' = UpTo(r, dualRecv[r])
         /\ ~MaskPeerRecv(r) => UpTo(Other(r), mainRecv[r])' = UpTo(Other(r), mainRecv[r])
<1> DEFINE Goal ==
         /\ ~RecvDualMaskedSelf(r) => UpTo(r, dualRecv[r])' = UpTo(r, dualRecv[r])
         /\ ~MaskPeerRecv(r) => UpTo(Other(r), mainRecv[r])' = UpTo(Other(r), mainRecv[r])
<1>1. ASSUME UNCHANGED <<start, main>>, dualRecv'[r] = dualRecv[r] \/ RecvDualMaskedSelf(r),
             mainRecv'[r] = mainRecv[r] \/ MaskPeerRecv(r)
      PROVE  Goal
  BY <1>1, Zenon DEF UpTo
<1>2. ASSUME UNCHANGED <<start, main, dualRecv, mainRecv>> PROVE Goal
  BY Zenon, <1>1, <1>2
<1>3. ASSUME NEW p \in Party, MaskSelf(p) PROVE Goal
  <2>1. UNCHANGED <<mainRecv, dualRecv>>
    BY <1>3, Zenon DEF MaskSelf
  <2>2. PICK k, d \in Nat : k = mainRecv[r] /\ d = dualRecv[r]
    BY Positions, Zenon
  <2>3. UpTo(Other(r), k)' = UpTo(Other(r), k)
    BY Zenon, <1>3, <2>2, ReachMaskSelf, Received, Others
  <2>4. UpTo(r, d)' = UpTo(r, d)
    BY Zenon, <1>3, <2>2, ReachMaskSelf, Received
  <2> QED BY Zenon, <2>1, <2>2, <2>3, <2>4
<1>4. ASSUME NEW p \in Party, MaskPeerRecv(p) \/ RecvDualMaskedSelf(p) PROVE Goal
  <2>1. /\ UNCHANGED <<start, main>>
        /\ dualRecv'[r] = dualRecv[r] \/ RecvDualMaskedSelf(r)
        /\ mainRecv'[r] = mainRecv[r] \/ MaskPeerRecv(r)
    BY ZenonT(60), <1>4 DEF MaskPeerRecv, RecvDualMaskedSelf, LinkInv, TypeOK, LinkTypes
  <2> QED BY Zenon, <1>1, <2>1
<1>5. ASSUME NEW p \in Party, MainStep(p) PROVE UNCHANGED <<start, main, dualRecv, mainRecv>>
  BY Zenon, <1>5 DEF MainStep, InitEnd, PreProcess, OnlineStart, Join, OnlineEnd, PostProcess, PostEnd,
              FinalizeWrite, FinalizeThrows, Finalize, linkVars
<1>6. ASSUME NEW p \in Party, MaskPeerFlush(p) \/ MaskPeerDual(p) \/ RecvDualMaskedFlush(p)
                              \/ RecvDualMaskedNext(p) \/ Crash(p) \/ Abort(p)
      PROVE  UNCHANGED <<start, main, dualRecv, mainRecv>>
  BY Zenon, <1>6 DEF MaskPeerFlush, MaskPeerDual, RecvDualMaskedFlush, RecvDualMaskedNext, Crash, Abort,
              linkVars
<1>7. ASSUME NEW p \in Party, NEW t \in Savers, Save(p, t)
      PROVE  UNCHANGED <<start, main, dualRecv, mainRecv>>
  BY Zenon, <1>7 DEF Save, SaveOpen, SaveWrite, linkVars
<1>8. ASSUME UNCHANGED vars PROVE UNCHANGED <<start, main, dualRecv, mainRecv>>
  BY Zenon, <1>8 DEF vars
<1> HIDE DEF Goal
<1>9. Goal
  BY Zenon, <1>2, <1>3, <1>4, <1>5, <1>6, <1>7, <1>8 DEF Next, Terminated, MaskPeer, RecvSelf
<1> QED BY Zenon, <1>9 DEF Goal

LEMMA FilledOnlineGather ==
  ASSUME LinkInv, StoreInv, [Next]_vars, NEW r \in Party, r \in Targets, ~Restart,
         pc'[r] # "down", NEW p \in Party, OnlineGather(p)
  PROVE  /\ Covered(self[r] \cup selfBuf[r], UpTo(r, dualRecv[r]))'
         /\ Covered(peer[r] \cup peerBuf[r], UpTo(Other(r), mainRecv[r]))'
<1>1. UNCHANGED <<main, mainRecv, dualRecv>>
  BY Zenon DEF OnlineGather
<1>2. CASE start' = start
  BY Zenon, <1>1, <1>2, FilledSame DEF UpTo
<1>3. CASE start' = [start EXCEPT ![p] = Processed(p)]
  <2>1. mainRecv[Other(p)] = 0 /\ dualRecv[p] = 0
    BY Zenon, NothingSent DEF OnlineGather, At, LinkInv, ThreadsInStep
  <2>2. \A s \in Party : s # p => start'[s] = start[s]
    BY <1>3, Zenon DEF LinkInv, TypeOK, ControlTypes
  <2>3. PICK a, c : a = start'[r] /\ c = start'[Other(r)]
    BY Zenon
  <2>4. Covered(self'[r], a) /\ Covered(peer'[r], c)
    BY Zenon, <2>3, RecordBacked
  <2>5. /\ Covered(self'[r] \cup selfBuf'[r], a)
        /\ Covered(peer'[r] \cup peerBuf'[r], c)
    BY <2>4, Zenon DEF Covered, Has
  <2>6. CASE r = p
    <3>1. UpTo(r, dualRecv[r])' = a
      BY Zenon, <1>1, <2>1, <2>3, <2>6 DEF UpTo
    <3>2. start'[Other(r)] = start[Other(r)]
      BY Zenon, <2>2, <2>6, Others
    <3>3. UpTo(Other(r), mainRecv[r])' = UpTo(Other(r), mainRecv[r])
      BY Zenon, <1>1, <3>2 DEF UpTo
    <3> QED BY ZenonT(60), <2>5, <3>1, <3>3, FilledSame
  <2>7. CASE r # p
    <3>0. r = Other(p) /\ Other(r) = p
      BY Zenon, <2>7, Others
    <3>1. UpTo(Other(r), mainRecv[r])' = c
      BY Zenon, <1>1, <2>1, <2>3, <3>0 DEF UpTo
    <3>2. start'[r] = start[r]
      BY Zenon, <2>2, <2>7
    <3>3. UpTo(r, dualRecv[r])' = UpTo(r, dualRecv[r])
      BY <1>1, <3>2, Zenon DEF UpTo
    <3> QED BY Zenon, <2>5, <3>1, <3>3, FilledSame
  <2> QED BY Zenon, <2>6, <2>7
<1> QED BY <1>2, <1>3, Zenon DEF OnlineGather

LEMMA FilledReceived ==
  ASSUME LinkInv, StoreInv, [Next]_vars, NEW r \in Party, r \in Targets, pc'[r] # "down"
  PROVE  /\ Covered(self[r] \cup selfBuf[r], UpTo(r, dualRecv[r]))'
         /\ Covered(peer[r] \cup peerBuf[r], UpTo(Other(r), mainRecv[r]))'
<1>1. CASE Restart
  <2>1. dualRecv'[r] = 0 /\ mainRecv'[r] = 0 /\ start'[r] = 0 /\ start'[Other(r)] = 0
    BY Zenon, <1>1, Others DEF Restart
  <2>2. UpTo(r, dualRecv[r])' = 0 /\ UpTo(Other(r), mainRecv[r])' = 0
    BY <2>1, Zenon DEF UpTo
  <2> QED BY Zenon, <2>2, CoveredNone
<1>2. CASE ~Restart /\ \E p \in Party : OnlineGather(p)
  BY Zenon, <1>2, FilledOnlineGather
<1>3. CASE ~Restart /\ \A p \in Party : ~OnlineGather(p)
  BY Zenon, <1>3, ReachSame, FilledSame, FilledMaskPeerRecv, FilledRecvDualMaskedSelf
<1> QED BY Zenon, <1>1, <1>2, <1>3

LEMMA FilledStep ==
  ASSUME LinkInv, StoreInv, [Next]_vars, NEW r \in Party, r \in Targets
  PROVE  StoresFilled(r)'
<1> USE DEF PastOnlineSync, PastPostEnd, PastFinalizeSync
<1>0. CkptsBacked(r) /\ StoresFilled(r)
  BY Zenon DEF StoreInv
<1>1. CASE Restart
  <2>1. pc'[r] = "Init"
    BY Zenon, <1>1 DEF Restart
  <2> QED BY Zenon, <2>1, FilledReceived DEF StoresFilled
<1>2. CASE ~Restart
  <2>0. /\ self[r] \subseteq self'[r] /\ peer[r] \subseteq peer'[r]
        /\ pc'[r] # "down" => /\ self[r] \cup selfBuf[r] \subseteq self'[r] \cup selfBuf'[r]
                              /\ peer[r] \cup peerBuf[r] \subseteq peer'[r] \cup peerBuf'[r]
    BY <1>2, StoresGrow, Zenon
  <2>1. N[r] \in Nat /\ N[Other(r)] \in Nat
    BY Zenon, Positions, Others
  <2>2. ASSUME pc'[r] \in {"OnlineSync", "OnlineEnd"} \cup PastOnlineSync
        PROVE  /\ Covered(self'[r] \cup selfBuf'[r], N[r])
               /\ Covered(peer'[r] \cup peerBuf'[r], N[Other(r)])
    <3>1. ASSUME /\ Covered(self[r] \cup selfBuf[r], N[r])
                 /\ Covered(peer[r] \cup peerBuf[r], N[Other(r)])
          PROVE  /\ Covered(self'[r] \cup selfBuf'[r], N[r])
                 /\ Covered(peer'[r] \cup peerBuf'[r], N[Other(r)])
      BY <2>0, <2>1, <2>2, <3>1, CoveredGrows
    <3>2. CASE pc[r] \in {"OnlineSync", "OnlineEnd"} \cup PastOnlineSync
      BY Zenon, <1>0, <3>1, <3>2 DEF StoresFilled
    <3>3. CASE Join(r)
      <4>1. pc[r] = "RunEcdhPsi" /\ th[r]["peer"] = "done" /\ th[r]["recv"] = "done"
        BY Zenon, <3>3 DEF Join, At
      <4>2. UpTo(r, dualRecv[r]) = N[r] /\ UpTo(Other(r), mainRecv[r]) = N[Other(r)]
        BY Zenon, <4>1 DEF LinkInv, ThreadsInStep
      <4> QED BY Zenon, <1>0, <3>1, <4>1, <4>2 DEF StoresFilled
    <3>4. CASE OnlineGather(r) /\ OnlineFinished(r)
      <4>1. Full(r)
        BY Zenon, <1>0, <3>4 DEF OnlineFinished, CkptsBacked
      <4> QED BY Zenon, <3>1, <4>1 DEF Full, Covered, Has
    <3> QED BY Zenon, <1>2, <2>2, <3>2, <3>3, <3>4, Places
  <2>3. ASSUME pc'[r] \in {"PostEnd"} \cup PastPostEnd PROVE Full(r)'
    <3>1. CASE pc[r] \in {"PostEnd"} \cup PastPostEnd
      BY Zenon, <1>0, <2>0, <3>1, FullKept DEF StoresFilled
    <3>2. CASE PostProcess(r)
      <4>1. pc[r] = "PostProcess"
        BY Zenon, <3>2 DEF PostProcess, At
      <4>2. self'[r] = self[r] \cup selfBuf[r] /\ peer'[r] = peer[r] \cup peerBuf[r]
        BY <3>2, Zenon DEF PostProcess, LinkInv, TypeOK, StoreTypes
      <4> QED BY Zenon, <1>0, <4>1, <4>2 DEF StoresFilled, Full
    <3> QED BY Zenon, <1>2, <2>3, <3>1, <3>2, Places
  <2> QED BY Zenon, <2>2, <2>3, FilledReceived DEF StoresFilled
<1> QED BY <1>1, <1>2, Zenon

LEMMA StoreInit == Init => StoreInv
<1> SUFFICES ASSUME Init, NEW p \in Party
             PROVE  BuffersInStep(p) /\ CkptsBacked(p) /\ StoresFilled(p)
  BY Zenon DEF StoreInv
<1>1. /\ ckpt[p] = NoCheckpoint /\ image[p] = NoCheckpoint /\ file[p].ck = NoCheckpoint
      /\ record[p] = [stage |-> UNSPECIFIED, cnt |-> 0] /\ start[p] = 0 /\ start[Other(p)] = 0
      /\ mainRecv[p] = 0 /\ dualRecv[p] = 0 /\ selfBuf[p] = {} /\ peerBuf[p] = {} /\ pc[p] = "Init"
  BY Others, Zenon DEF Init
<1>2. Backed(p, NoCheckpoint)
  BY CoveredNone DEF Backed, NoCheckpoint, UNSPECIFIED, ONLINE_END
<1>3. CkptsBacked(p)
  BY <1>1, <1>2, CoveredNone DEF CkptsBacked, UNSPECIFIED, ONLINE_END
<1>4. StoresFilled(p)
  BY <1>1, CoveredNone, Zenon DEF StoresFilled, UpTo, PastOnlineSync, PastPostEnd, PastFinalizeSync
<1> QED BY <1>1, <1>3, <1>4, Zenon DEF BuffersInStep

LEMMA StoreStep == LinkInv /\ StoreInv /\ [Next]_vars => StoreInv'
BY BuffersStep, CkptsBackedStep, FilledStep, Zenon DEF StoreInv

\* Whatever crashes and restarts, and however the saves of the threads
\* interleave, the files on disk have every item that a checkpoint counts
\* (recovery.cc:83-97, 210-257; ecdh_psi.cc:183-189, 259-269).
THEOREM StoreInvariant == Spec => []StoreInv
<1>1. Init => StoreInv
  BY StoreInit, Zenon
<1>2. LinkInv /\ StoreInv /\ [Next]_vars => StoreInv'
  BY StoreStep, Zenon
<1> QED BY <1>1, <1>2, LinkInvariant, PTL DEF Spec

\* A resumed run leaves out only items that all stores have (ecdh_psi.cc:462-476).
THEOREM ResumesSafely == Spec => []ResumeSafe
<1>1. LinkInv /\ StoreInv => ResumeSafe
  <2> SUFFICES ASSUME LinkInv, StoreInv, NEW p \in Party
               PROVE  start[p] <= N[p] /\ Stored(p, start[p])
    BY Zenon DEF ResumeSafe
  <2>1. start[p] <= N[p] /\ start[p] \in Nat /\ N[p] \in Nat
    BY Sizes, Zenon DEF LinkInv, CountsBounded
  <2>2. p \in Targets => Covered(self[p], start[p])
    BY Zenon DEF StoreInv, CkptsBacked
  <2>3. Other(p) \in Targets => Covered(peer[Other(p)], start[p])
    <3>1. Other(p) \in Party /\ Other(Other(p)) = p
      BY Others, Zenon
    <3> QED BY <3>1, Zenon DEF StoreInv, CkptsBacked
  <2>4. ASSUME NEW i \in Items(p), i < start[p] PROVE i \in 0 .. start[p] - 1
    BY <2>1, <2>4 DEF Items
  <2> QED BY Zenon, <2>1, <2>2, <2>3, <2>4 DEF Stored, Covered
<1> QED BY <1>1, LinkInvariant, StoreInvariant, PTL

\* A party that computes the intersection has every item of both parties in
\* its stores (receiver.cc:102-130).
THEOREM StoresComplete == Spec => []StoreComplete
<1>1. StoreInv => StoreComplete
  BY Zenon, ConstAssumption DEF StoreInv, StoresFilled, StoreComplete, Full, Covered, Items
<1> QED BY <1>1, StoreInvariant, PTL

-----------------------------------------------------------------------------
(* The decision. *)

LEMMA DecisionInit == Init => DecisionInv
BY DEF Init, DecisionInv, PastOnlineStart, PastOnlineGather, PastOnlineSync, PastPostEnd,
       PastFinalizeSync, OnlineFinished, Other, Party

\* The main thread of p moves from one place to another and no record changes.
LEMMA DecisionMoves ==
  ASSUME LinkInv, DecisionInv, record' = record, NEW p \in Party, NEW place, Goto(p, place),
         \/ pc[p] \in {"Init", "PreProcess"} /\ place \in {"PreProcess", "OnlineStart"}
         \/ pc[p] = "OnlineStart" /\ place = "RunEcdhPsi" /\ ~Recovery
         \/ /\ pc[p] = "OnlineGather" /\ pc[Other(p)] \in PastOnlineStart
            /\ place = IF OnlineFinished(p) THEN "OnlineEnd" ELSE "RunEcdhPsi"
         \/ pc[p] = "RunEcdhPsi" /\ place = "OnlineSync"
         \/ pc[p] = "OnlineEnd" /\ place = "PostProcess"
         \/ /\ pc[p] = "OnlineSync" /\ place = "PostProcess"
            /\ pc[Other(p)] \in {"OnlineSync"} \cup PastOnlineSync
         \/ pc[p] \in PastOnlineSync /\ place \in PastOnlineSync
         \/ place = "down"
  PROVE  DecisionInv'
<1> USE DEF PastOnlineStart, PastOnlineGather, PastOnlineSync, PastPostEnd, PastFinalizeSync
<1> DEFINE fin == OnlineFinished(p)
<1>1. \A q \in Party : (OnlineFinished(q) <=> fin) /\ (OnlineFinished(q)' <=> fin)
  BY Zenon DEF OnlineFinished
<1>2. ~Recovery => ~fin
  <2>1. ~Recovery => record[p].stage = UNSPECIFIED
    BY DEF LinkInv, CountsBounded
  <2> QED BY <2>1 DEF OnlineFinished, UNSPECIFIED, ONLINE_END
<1> HIDE DEF fin
<1>3. PICK q \in Party : q = Other(p) /\ p = Other(q) /\ q # p /\ \A r \in Party : r = p \/ r = q
  BY Others, Zenon
<1>4. pc'[p] = place /\ pc'[q] = pc[q]
  BY <1>3, Zenon DEF Goto, LinkInv, TypeOK, ControlTypes
<1>5. Recovery \in BOOLEAN
  BY ConstAssumption, Zenon
<1> DEFINE D(f, a, b) ==
      /\ a \in {"RunEcdhPsi", "OnlineSync"} => ~f
      /\ a = "OnlineEnd" => f
      /\ a \in PastOnlineSync => f \/ b \in {"OnlineSync", "down"} \cup PastOnlineSync
      /\ Recovery /\ a \in PastOnlineGather => b \in PastOnlineStart \cup {"down"}
<1>6. D(fin, pc[p], pc[q]) /\ D(fin, pc[q], pc[p])
  BY <1>1, <1>3, Zenon DEF DecisionInv
<1>7. D(fin, place, pc[q]) /\ D(fin, pc[q], place)
  BY <1>1, <1>2, <1>3, <1>5, <1>6, Zenon DEF fin
<1> QED BY <1>1, <1>3, <1>4, <1>7 DEF DecisionInv

LEMMA DecisionStep == LinkInv /\ DecisionInv /\ [Next]_vars => DecisionInv'
<1> SUFFICES ASSUME LinkInv, DecisionInv, [Next]_vars PROVE DecisionInv'
  BY Zenon
<1> USE DEF PastOnlineStart, PastOnlineGather, PastOnlineSync, PastPostEnd, PastFinalizeSync
<1>1. ASSUME UNCHANGED <<pc, record>> PROVE DecisionInv'
  BY <1>1, Zenon DEF DecisionInv, OnlineFinished
<1>2. ASSUME NEW p \in Party, InitEnd(p) \/ PreProcess(p) PROVE DecisionInv'
  <2>1. /\ record' = record /\ pc[p] \in {"Init", "PreProcess"}
        /\ Goto(p, "PreProcess") \/ Goto(p, "OnlineStart")
    BY <1>2, Zenon DEF InitEnd, PreProcess, At
  <2> QED BY <2>1, DecisionMoves, Zenon
<1>3. ASSUME NEW p \in Party, OnlineStart(p) PROVE DecisionInv'
  <2>1. CASE ~Recovery
    BY <1>3, <2>1, DecisionMoves, Zenon DEF OnlineStart, At
  <2>2. CASE Recovery
    <3>1. /\ pc[p] = "OnlineStart" /\ Goto(p, "OnlineGather")
          /\ pc[Other(p)] \in {"OnlineStart"} \cup PastOnlineStart
      BY <1>3, <2>2, Zenon DEF OnlineStart, At, Reached
    <3>2. PICK q \in Party : q = Other(p) /\ p = Other(q) /\ q # p /\ \A r \in Party : r = p \/ r = q
      BY Others, Zenon
    <3>3. pc'[p] = "OnlineGather" /\ pc'[q] = pc[q]
      BY <3>1, <3>2, Zenon DEF Goto, LinkInv, TypeOK, ControlTypes
    <3>4. pc[q] \in {"OnlineStart", "OnlineGather"}
      BY <2>2, <3>1, <3>2, Zenon DEF DecisionInv
    <3>5. pc'[p] \notin PastOnlineGather /\ pc'[q] \notin PastOnlineGather
      BY <3>3, <3>4, Zenon
    <3> QED BY <3>2, <3>5, Zenon DEF DecisionInv
  <2> QED BY <2>1, <2>2, ConstAssumption, Zenon
<1>4. ASSUME NEW p \in Party, OnlineGather(p) PROVE DecisionInv'
  <2>1. /\ record' = record /\ pc[p] = "OnlineGather" /\ pc[Other(p)] \in PastOnlineStart
        /\ Goto(p, IF OnlineFinished(p) THEN "OnlineEnd" ELSE "RunEcdhPsi")
    BY <1>4, Zenon DEF OnlineGather, At, Reached
  <2> QED BY <2>1, DecisionMoves, Zenon
<1>5. ASSUME NEW p \in Party, Join(p) PROVE DecisionInv'
  BY <1>5, DecisionMoves, Zenon DEF Join, At
<1>6. ASSUME NEW p \in Party, OnlineEnd(p) PROVE DecisionInv'
  <2>1. /\ record' = record /\ Goto(p, "PostProcess")
        /\ \/ pc[p] = "OnlineEnd"
           \/ pc[p] = "OnlineSync" /\ pc[Other(p)] \in {"OnlineSync"} \cup PastOnlineSync
    BY <1>6, Zenon DEF OnlineEnd, At, Reached
  <2> QED BY <2>1, DecisionMoves, Zenon
<1>7. ASSUME NEW p \in Party,
             PostProcess(p) \/ PostEnd(p) \/ FinalizeWrite(p) \/ Finalize(p)
      PROVE  DecisionInv'
  <2>1. /\ record' = record /\ pc[p] \in PastOnlineSync
        /\ \E place \in PastOnlineSync : Goto(p, place)
    BY <1>7, Zenon DEF PostProcess, PostEnd, FinalizeWrite, Finalize, At
  <2> QED BY <2>1, DecisionMoves, Zenon
<1>8. ASSUME NEW p \in Party, FinalizeThrows(p) \/ Crash(p) \/ Abort(p) PROVE DecisionInv'
  BY <1>8, DecisionMoves, Zenon DEF FinalizeThrows, Crash, Abort
<1>9. ASSUME Restart PROVE DecisionInv'
  BY <1>9, Zenon DEF Restart, DecisionInv, Party, Other
<1>10. ASSUME NEW p \in Party, MaskSelf(p) \/ MaskPeer(p) \/ RecvSelf(p)
       PROVE  UNCHANGED <<pc, record>>
  BY ZenonT(60), <1>10 DEF MaskSelf, MaskPeer, MaskPeerRecv, MaskPeerFlush, MaskPeerDual, RecvSelf,
                 RecvDualMaskedSelf, RecvDualMaskedFlush, RecvDualMaskedNext
<1>11. ASSUME NEW p \in Party, NEW t \in Savers, Save(p, t) PROVE UNCHANGED <<pc, record>>
  BY Zenon, <1>11 DEF Save, SaveOpen, SaveWrite
<1>12. ASSUME UNCHANGED vars PROVE UNCHANGED <<pc, record>>
  BY Zenon, <1>12 DEF vars
<1> QED BY Zenon, <1>1, <1>2, <1>3, <1>4, <1>5, <1>6, <1>7, <1>8, <1>9, <1>10, <1>11, <1>12
        DEF Next, MainStep, Terminated

\* Both parties skip Online or both run it, whatever their checkpoints say and
\* whenever they were written (recovery.cc:148-199).
THEOREM DecidedAlike == Spec => []SameDecision
<1>1. DecisionInv => SameDecision
  <2> SUFFICES ASSUME DecisionInv, NEW p \in Party, pc[p] = "RunEcdhPsi"
               PROVE  pc[Other(p)] \notin {"OnlineEnd"} \cup PastOnlineSync
    BY Zenon DEF SameDecision
  <2>1. PICK q \in Party : q = Other(p) /\ p = Other(q)
    BY Others, Zenon
  <2>2. ~OnlineFinished(p) /\ ~OnlineFinished(q)
    BY Zenon DEF DecisionInv, OnlineFinished
  <2>3. pc[q] \in PastOnlineSync => pc[p] \in {"OnlineSync", "down"} \cup PastOnlineSync
    BY <2>1, <2>2, Zenon DEF DecisionInv
  <2> QED BY <2>1, <2>2, <2>3, Zenon
          DEF DecisionInv, PastOnlineSync, PastPostEnd, PastFinalizeSync
<1> QED BY <1>1, DecisionInit, DecisionStep, LinkInvariant, PTL DEF Spec

-----------------------------------------------------------------------------
(* The keys. *)

\* What Settled(r) looks at.
LEMMA SettledSame ==
  ASSUME NEW r \in Party, Settled(r), UNCHANGED ckptVars
  PROVE  Settled(r)'
BY Zenon DEF Settled, ckptVars

LEMMA SettledMark ==
  ASSUME CkptTypes, NEW r \in Party, Settled(r), NEW p \in Party, NEW t \in Savers,
         NEW ck \in Checkpoints, ck.stage >= PRE_PROCESS_END, Mark(p, t, ck)
  PROVE  Settled(r)'
<1>1. ckpt'[r].stage >= PRE_PROCESS_END
  <2>1. ckpt'[r] = IF r = p THEN ck ELSE ckpt[r]
    BY Zenon DEF Mark, CkptTypes
  <2> QED BY <2>1, Zenon DEF Settled
<1>2. ASSUME NEW u \in Savers, saving'[r][u] = "write" PROVE saving[r][u] = "write"
  <2>1. saving[r] \in [Savers -> {"no", "save", "write"}] /\ saving[p] \in [Savers -> {"no", "save", "write"}]
    BY Zenon DEF CkptTypes
  <2>2. saving'[r] = IF r = p THEN [saving[p] EXCEPT ![t] = "save"] ELSE saving[r]
    BY Zenon DEF Mark, CkptTypes
  <2> QED BY <1>2, <2>1, <2>2, Zenon
<1>3. UNCHANGED <<file, image>>
  BY Zenon DEF Mark
<1> QED BY <1>1, <1>2, <1>3, Zenon DEF Settled

LEMMA SettledMarkStage ==
  ASSUME CkptTypes, NEW r \in Party, Settled(r), NEW p \in Party, NEW s \in 0 .. 5,
         MarkStage(p, s), p = r \/ s >= PRE_PROCESS_END
  PROVE  Settled(r)'
<1>1. CASE UNCHANGED ckptVars
  BY <1>1, SettledSame, Zenon
<1>2. CASE ckpt[p].stage < s /\ Mark(p, "main", [ckpt[p] EXCEPT !.stage = s])
  <2>1. [ckpt[p] EXCEPT !.stage = s] \in Checkpoints /\ [ckpt[p] EXCEPT !.stage = s].stage = s
    BY Zenon DEF CkptTypes, Checkpoints
  <2>2. s >= PRE_PROCESS_END
    <3>1. ckpt[p].stage \in 0 .. 5
      BY Zenon DEF CkptTypes, Checkpoints
    <3>2. p = r => ckpt[p].stage >= PRE_PROCESS_END
      BY Zenon DEF Settled
    <3> QED BY <1>2, <3>1, <3>2 DEF PRE_PROCESS_END
  <2>3. "main" \in Savers
    BY Zenon DEF Savers
  <2>4. PICK ck \in Checkpoints : ck = [ckpt[p] EXCEPT !.stage = s] /\ ck.stage = s
    BY <2>1, Zenon
  <2> QED BY <1>2, <2>2, <2>3, <2>4, SettledMark, Zenon
<1> QED BY <1>1, <1>2, Zenon DEF MarkStage

LEMMA SettledSave ==
  ASSUME CkptTypes, NEW r \in Party, Settled(r), NEW p \in Party, NEW t \in Savers, Save(p, t)
  PROVE  Settled(r)'
<1>1. CASE SaveOpen(p, t)
  <2>1. CASE r # p
    <3>1. /\ saving'[r] = saving[r] /\ image'[r] = image[r] /\ file'[r] = file[r] /\ ckpt' = ckpt
      BY <1>1, <2>1, Zenon DEF SaveOpen, CkptTypes
    <3> QED BY <3>1, Zenon DEF Settled
  <2>2. CASE r = p
    <3>1. /\ image'[r] = ckpt[r] /\ file'[r] = [file[r] EXCEPT !.st = "torn"] /\ ckpt' = ckpt
      BY <1>1, <2>2, Zenon DEF SaveOpen, CkptTypes
    <3>2. file'[r].st = "torn"
      BY <3>1, Zenon DEF CkptTypes
    <3> QED BY <3>1, <3>2, Zenon DEF Settled
  <2> QED BY <2>1, <2>2, Zenon
<1>2. CASE SaveWrite(p, t)
  <2>1. CASE r # p
    <3>1. saving'[r] = saving[r] /\ image' = image /\ file'[r] = file[r] /\ ckpt' = ckpt
      BY <1>2, <2>1, Zenon DEF SaveWrite, CkptTypes
    <3> QED BY <3>1, Zenon DEF Settled
  <2>2. CASE r = p
    <3>1. /\ saving[r][t] = "write" /\ image' = image /\ ckpt' = ckpt
          /\ file'[r] = [st |-> "ok", ck |-> image[r]]
      BY <1>2, <2>2, Zenon DEF SaveWrite, CkptTypes
    <3>2. image[r].stage >= PRE_PROCESS_END
      BY <3>1, Zenon DEF Settled
    <3> QED BY <3>1, <3>2 DEF Settled
  <2> QED BY <2>1, <2>2, Zenon
<1> QED BY <1>1, <1>2, Zenon DEF Save

\* Once settled, a party stays so: its key is never drawn again.
LEMMA SettledKept ==
  ASSUME LinkInv, [Next]_vars, Recovery, NEW r \in Party, Settled(r)
  PROVE  Settled(r)'
<1>0. CkptTypes
  BY Zenon DEF LinkInv, TypeOK
<1>1. ASSUME UNCHANGED ckptVars PROVE Settled(r)'
  BY <1>1, SettledSame, Zenon
<1>2. ASSUME NEW p \in Party, InitEnd(p) \/ PreProcess(p) \/ OnlineGather(p) \/ OnlineEnd(p) \/ PostEnd(p)
      PROVE  Settled(r)'
  <2>0. \E s \in 0 .. 5 : MarkStage(p, s)
    <3>1. /\ INIT_END \in 0 .. 5 /\ PRE_PROCESS_END \in 0 .. 5 /\ ONLINE_START \in 0 .. 5
          /\ ONLINE_END \in 0 .. 5 /\ POST_PROCESS_END \in 0 .. 5
      BY DEF INIT_END, PRE_PROCESS_END, ONLINE_START, ONLINE_END, POST_PROCESS_END
    <3>2. \/ MarkStage(p, INIT_END) \/ MarkStage(p, PRE_PROCESS_END) \/ MarkStage(p, ONLINE_START)
          \/ MarkStage(p, ONLINE_END) \/ MarkStage(p, POST_PROCESS_END)
      BY <1>2, Zenon DEF InitEnd, PreProcess, OnlineGather, OnlineEnd, PostEnd
    <3> QED BY <3>1, <3>2, Zenon
  <2>1. CASE p = r
    BY <1>0, <2>0, <2>1, SettledMarkStage, Zenon
  <2>2. CASE p # r
    <3>2. ckpt'[r] = ckpt[r] /\ saving'[r] = saving[r] /\ file' = file /\ image' = image
      BY <1>0, <2>0, <2>2, Zenon DEF MarkStage, Mark, ckptVars, CkptTypes
    <3> QED BY <3>2, Zenon DEF Settled
  <2> QED BY <2>1, <2>2, Zenon
<1>3. ASSUME NEW p \in Party, MaskPeerFlush(p) \/ RecvDualMaskedFlush(p) PROVE Settled(r)'
  <2>1. PICK t \in Savers, ck \in Checkpoints : Mark(p, t, ck) /\ ck.stage = ONLINE_START
    <3>1. CASE MaskPeerFlush(p)
      <4>1. PICK ck : ck = [stage |-> ONLINE_START, self |-> ckpt[p].self, peer |-> peerIdx[p]]
        BY Zenon
      <4>2. ck \in Checkpoints /\ ck.stage = ONLINE_START /\ "peer" \in Savers
        BY <4>1 DEF LinkInv, TypeOK, CkptTypes, StoreTypes, Checkpoints, ONLINE_START, Savers
      <4> QED BY <3>1, <4>1, <4>2, Zenon DEF MaskPeerFlush
    <3>2. CASE RecvDualMaskedFlush(p)
      <4>1. PICK ck : ck = [stage |-> ONLINE_START, self |-> selfIdx[p], peer |-> ckpt[p].peer]
        BY Zenon
      <4>2. ck \in Checkpoints /\ ck.stage = ONLINE_START /\ "recv" \in Savers
        BY <4>1 DEF LinkInv, TypeOK, CkptTypes, StoreTypes, Checkpoints, ONLINE_START, Savers
      <4> QED BY <3>2, <4>1, <4>2, Zenon DEF RecvDualMaskedFlush
    <3> QED BY <1>3, <3>1, <3>2, Zenon
  <2>2. ck.stage >= PRE_PROCESS_END
    BY <2>1 DEF ONLINE_START, PRE_PROCESS_END
  <2> QED BY <1>0, <2>1, <2>2, SettledMark, Zenon
<1>4. ASSUME Restart PROVE Settled(r)'
  <2>1. file' = file /\ file[r].st = "ok" /\ ckpt'[r] = file[r].ck /\ saving'[r] = NotSaving
    BY <1>0, <1>4, Zenon DEF Restart, Unloadable, Settled, CkptTypes
  <2> QED BY <2>1, Zenon DEF Settled, NotSaving
<1>5. ASSUME NEW p \in Party, NEW t \in Savers, Save(p, t) PROVE Settled(r)'
  BY <1>0, <1>5, SettledSave, Zenon
<1>6. ASSUME NEW p \in Party, OnlineStart(p) \/ Join(p) \/ PostProcess(p) \/ FinalizeWrite(p)
                   \/ FinalizeThrows(p) \/ Finalize(p) \/ Crash(p) \/ Abort(p)
      PROVE  UNCHANGED ckptVars
  BY Zenon, <1>6 DEF OnlineStart, Join, PostProcess, FinalizeWrite, FinalizeThrows, Finalize, Crash, Abort
<1>7. ASSUME NEW p \in Party, MaskSelf(p) \/ MaskPeerRecv(p) \/ MaskPeerDual(p)
                   \/ RecvDualMaskedSelf(p) \/ RecvDualMaskedNext(p)
      PROVE  UNCHANGED ckptVars
  BY Zenon, <1>7 DEF MaskSelf, MaskPeerRecv, MaskPeerDual, RecvDualMaskedSelf, RecvDualMaskedNext
<1>8. ASSUME UNCHANGED vars PROVE UNCHANGED ckptVars
  BY Zenon, <1>8 DEF vars, ckptVars
<1> QED BY Zenon, <1>1, <1>2, <1>3, <1>4, <1>5, <1>6, <1>7, <1>8
        DEF Next, MainStep, MaskPeer, RecvSelf, Terminated

-----------------------------------------------------------------------------
(* A step of one party. *)

Step(p) ==
  \/ MainStep(p) \/ MaskSelf(p) \/ MaskPeer(p) \/ RecvSelf(p) \/ Crash(p) \/ Abort(p)
  \/ \E t \in Savers : Save(p, t)

Local(r) == <<pc[r], ckpt[r], file[r], saving[r], image[r], key[r], keyFile[r],
              main[r], dual[r], self[r], selfBuf[r], peer[r], peerBuf[r]>>

\* The step of one party leaves what the other has alone.
LEMMA Alone ==
  ASSUME LinkInv, NEW p \in Party, Step(p), NEW r \in Party, r # p
  PROVE  Local(r)' = Local(r) /\ run' = run
<1>0. CkptTypes /\ KeyTypes /\ LinkTypes /\ StoreTypes /\ DOMAIN pc = Party
  BY Zenon DEF LinkInv, TypeOK, ControlTypes
<1> DEFINE Goal == Local(r)' = Local(r) /\ run' = run
<1> USE DEF Local, ckptVars, keyVars, taskVars, linkVars, storeVars
<1>1. ASSUME NEW place, Goto(p, place) PROVE pc'[r] = pc[r]
  BY <1>0, <1>1, Zenon DEF Goto
<1>2. ASSUME NEW s, MarkStage(p, s) PROVE UNCHANGED <<ckpt[r], file[r], saving[r], image[r]>>
  BY <1>0, <1>2, Zenon DEF MarkStage, Mark, CkptTypes
<1>3. ASSUME NEW t, NEW ck, Mark(p, t, ck) PROVE UNCHANGED <<ckpt[r], file[r], saving[r], image[r]>>
  BY <1>0, <1>3, Zenon DEF Mark, CkptTypes
<1>4. ASSUME InitEnd(p) \/ OnlineGather(p) \/ OnlineEnd(p) \/ PostEnd(p) PROVE Goal
  <2>1. \E place : Goto(p, place)
    BY <1>4, Zenon DEF InitEnd, OnlineGather, OnlineEnd, PostEnd
  <2>2. \E s : MarkStage(p, s)
    BY <1>4, Zenon DEF InitEnd, OnlineGather, OnlineEnd, PostEnd
  <2>3. UNCHANGED <<key, keyFile, main, dual, self, selfBuf, peer, peerBuf, run>>
    BY Zenon, <1>4 DEF InitEnd, OnlineGather, OnlineEnd, PostEnd
  <2> QED BY <1>1, <1>2, <2>1, <2>2, <2>3, Zenon
<1>5. ASSUME PreProcess(p) PROVE Goal
  <2>1. key'[r] = key[r] /\ keyFile'[r] = keyFile[r]
    BY <1>0, <1>5, Zenon DEF PreProcess, KeyTypes
  <2>2. UNCHANGED <<main, dual, self, selfBuf, peer, peerBuf, run>>
    BY Zenon, <1>5 DEF PreProcess
  <2> QED BY <1>1, <1>2, <1>5, <2>1, <2>2, Zenon DEF PreProcess
<1>6. ASSUME OnlineStart(p) \/ Join(p) \/ FinalizeWrite(p) \/ FinalizeThrows(p) \/ Finalize(p) PROVE Goal
  <2>1. \E place : Goto(p, place)
    BY <1>6, Zenon DEF OnlineStart, Join, FinalizeWrite, FinalizeThrows, Finalize
  <2>2. UNCHANGED <<ckpt, file, saving, image, key, keyFile, main, dual, self, selfBuf, peer, peerBuf, run>>
    BY Zenon, <1>6 DEF OnlineStart, Join, FinalizeWrite, FinalizeThrows, Finalize
  <2> QED BY <1>1, <2>1, <2>2, Zenon
<1>7. ASSUME PostProcess(p) \/ Crash(p) \/ Abort(p) PROVE Goal
  <2>1. \E place : Goto(p, place)
    BY <1>7, Zenon DEF PostProcess, Crash, Abort
  <2>2. UNCHANGED <<self[r], selfBuf[r], peer[r], peerBuf[r]>>
    BY <1>0, <1>7, Zenon DEF PostProcess, Crash, Abort, StoreTypes
  <2>3. UNCHANGED <<ckpt, file, saving, image, key, keyFile, main, dual, run>>
    BY Zenon, <1>7 DEF PostProcess, Crash, Abort
  <2> QED BY <1>1, <2>1, <2>2, <2>3, Zenon
<1>8. ASSUME MaskSelf(p) \/ MaskPeerDual(p) PROVE Goal
  <2>1. UNCHANGED <<main[r], dual[r]>>
    BY <1>0, <1>8, Zenon DEF MaskSelf, MaskPeerDual, LinkTypes
  <2>2. UNCHANGED <<pc, ckpt, file, saving, image, key, keyFile, self, selfBuf, peer, peerBuf, run>>
    BY Zenon, <1>8 DEF MaskSelf, MaskPeerDual
  <2> QED BY <2>1, <2>2, Zenon
<1>9. ASSUME MaskPeerRecv(p) \/ RecvDualMaskedSelf(p) \/ RecvDualMaskedNext(p) PROVE Goal
  <2>1. UNCHANGED <<selfBuf[r], peerBuf[r]>>
    BY <1>0, <1>9, Zenon DEF MaskPeerRecv, RecvDualMaskedSelf, RecvDualMaskedNext, StoreTypes
  <2>2. UNCHANGED <<pc, ckpt, file, saving, image, key, keyFile, main, dual, self, peer, run>>
    BY Zenon, <1>9 DEF MaskPeerRecv, RecvDualMaskedSelf, RecvDualMaskedNext
  <2> QED BY <2>1, <2>2, Zenon
<1>10. ASSUME MaskPeerFlush(p) \/ RecvDualMaskedFlush(p) PROVE Goal
  <2>1. UNCHANGED <<self[r], selfBuf[r], peer[r], peerBuf[r]>>
    BY <1>0, <1>10, Zenon DEF MaskPeerFlush, RecvDualMaskedFlush, StoreTypes
  <2>2. UNCHANGED <<pc, key, keyFile, main, dual, run>>
    BY Zenon, <1>10 DEF MaskPeerFlush, RecvDualMaskedFlush
  <2>3. \E t, ck : Mark(p, t, ck)
    BY Zenon, <1>10 DEF MaskPeerFlush, RecvDualMaskedFlush
  <2> QED BY <1>3, <2>1, <2>2, <2>3, Zenon
<1>11. ASSUME NEW t \in Savers, Save(p, t) PROVE Goal
  <2>1. UNCHANGED <<saving[r], image[r], file[r]>>
    BY <1>0, <1>11, Zenon DEF Save, SaveOpen, SaveWrite, CkptTypes
  <2>2. UNCHANGED <<pc, ckpt, key, keyFile, main, dual, self, selfBuf, peer, peerBuf, run>>
    BY Zenon, <1>11 DEF Save, SaveOpen, SaveWrite
  <2> QED BY <2>1, <2>2, Zenon
<1> HIDE DEF Goal
<1>12. Goal
  BY Zenon, <1>4, <1>5, <1>6, <1>7, <1>8, <1>9, <1>10, <1>11 DEF Step, MainStep, MaskPeer, RecvSelf
<1> QED BY <1>12, Zenon DEF Goal

LEMMA Steps == Next => (\E p \in Party : Step(p)) \/ Restart \/ UNCHANGED vars
BY Zenon DEF Next, Step, Terminated

\* Only PreProcess touches a key.
LEMMA KeyChosen ==
  ASSUME LinkInv, NEW p \in Party, Step(p), ~PreProcess(p)
  PROVE  /\ UNCHANGED <<key, keyFile, run>>
         /\ pc[p] # "Init" => pc'[p] \notin {"Init", "PreProcess"} \/ pc'[p] = pc[p]
<1>0. DOMAIN pc = Party
  BY Zenon DEF LinkInv, TypeOK, ControlTypes
<1>1. UNCHANGED <<key, keyFile, run>>
  BY ZenonT(60) DEF Step, MainStep, InitEnd, OnlineStart, OnlineGather, Join, OnlineEnd, PostProcess, PostEnd,
         FinalizeWrite, FinalizeThrows, Finalize, MaskSelf, MaskPeer, MaskPeerRecv, MaskPeerFlush, MaskPeerDual,
         RecvSelf, RecvDualMaskedSelf, RecvDualMaskedFlush, RecvDualMaskedNext, Crash, Abort, Save, SaveOpen,
         SaveWrite, keyVars, taskVars
<1>2. pc[p] # "Init" => pc'[p] \notin {"Init", "PreProcess"} \/ pc'[p] = pc[p]
  <2>1. \/ pc' = pc \/ pc[p] = "Init"
        \/ \E place \in {"OnlineGather", "RunEcdhPsi", "OnlineEnd", "OnlineSync", "PostProcess",
                         "PostEnd", "Finalize", "FinalizeSync", "done", "down"} : Goto(p, place)
    <3>1. ASSUME MainStep(p) \/ Crash(p) \/ Abort(p) PROVE \/ pc[p] = "Init"
        \/ \E place \in {"OnlineGather", "RunEcdhPsi", "OnlineEnd", "OnlineSync", "PostProcess",
                         "PostEnd", "Finalize", "FinalizeSync", "done", "down"} : Goto(p, place)
      BY <3>1, Zenon DEF MainStep, InitEnd, OnlineStart, OnlineGather, Join, OnlineEnd, PostProcess, PostEnd,
         FinalizeWrite, FinalizeThrows, Finalize, Crash, Abort, At
    <3>2. ASSUME ~(MainStep(p) \/ Crash(p) \/ Abort(p)) PROVE pc' = pc
      BY ZenonT(60), <3>2 DEF Step, MaskSelf, MaskPeer, MaskPeerRecv, MaskPeerFlush, MaskPeerDual,
         RecvSelf, RecvDualMaskedSelf, RecvDualMaskedFlush, RecvDualMaskedNext, Save, SaveOpen, SaveWrite
    <3> QED BY <3>1, <3>2, Zenon
  <2> QED BY <1>0, <2>1, Zenon DEF Goto
<1> QED BY <1>1, <1>2, Zenon

-----------------------------------------------------------------------------
(* How far a party is with its key. *)

\* Both keys are settled where one party is past the barrier.
LEMMA PastBarrier ==
  ASSUME LinkInv, KeyInv, [Next]_vars, NEW r \in Party, pc[r] \in PastOnlineStart, ~Restart
  PROVE  /\ pc'[Other(r)] \notin {"Init", "PreProcess"}
         /\ \A q \in Party : /\ key'[q] = MaskKey(q)' /\ MaskKey(q)' = MaskKey(q)
                             /\ Recovery => Settled(q)'
<1> USE DEF PastOnlineStart, PastOnlineGather, PastOnlineSync, PastPostEnd, PastFinalizeSync
<1>1. /\ pc[Other(r)] \notin {"Init", "PreProcess"} /\ pc[r] \notin {"Init", "PreProcess"}
      /\ \A q \in Party : key[q] = MaskKey(q) /\ (Recovery => Settled(q))
  BY Zenon DEF KeyInv, KeyInStep
<1>2. \A q \in Party : q = r \/ q = Other(r)
  BY Others, Zenon
<1>3. UNCHANGED <<key, keyFile, run>> /\ pc'[Other(r)] \notin {"Init", "PreProcess"}
  <2>1. ASSUME NEW p \in Party, Step(p)
        PROVE  UNCHANGED <<key, keyFile, run>> /\ pc'[Other(r)] \notin {"Init", "PreProcess"}
    <3>1. pc[p] \notin {"Init", "PreProcess"}
      BY <1>1, <1>2, Zenon
    <3>2. ~PreProcess(p)
      BY <3>1, Zenon DEF PreProcess, At
    <3>3. UNCHANGED <<key, keyFile, run>> /\ pc'[p] \notin {"Init", "PreProcess"}
      BY <2>1, <3>1, <3>2, KeyChosen, Zenon
    <3>4. Other(r) # p => pc'[Other(r)] = pc[Other(r)]
      BY <2>1, Alone, Others, Zenon DEF Local
    <3> QED BY <1>1, <3>3, <3>4, Zenon
  <2> QED BY <1>1, <2>1, Steps, Zenon DEF vars
<1> QED BY <1>1, <1>3, SettledKept, Zenon DEF MaskKey

\* The step of the other party.
LEMMA KeyStepOther ==
  ASSUME LinkInv, KeyInv, [Next]_vars, ~Restart, NEW p \in Party, Step(p), NEW r \in Party, r # p
  PROVE  KeyInStep(r)'
<1>0. KeyInStep(r)
  BY Zenon DEF KeyInv
<1>1. /\ pc'[r] = pc[r] /\ ckpt'[r] = ckpt[r] /\ file'[r] = file[r] /\ saving'[r] = saving[r]
      /\ image'[r] = image[r] /\ key'[r] = key[r] /\ keyFile'[r] = keyFile[r]
      /\ selfBuf'[r] = selfBuf[r] /\ peerBuf'[r] = peerBuf[r] /\ run' = run
  BY Alone, Zenon DEF Local
<1>2. (Settled(r)' <=> Settled(r)) /\ MaskKey(r)' = MaskKey(r)
  BY <1>1, Zenon DEF Settled, MaskKey
<1>3. pc'[r] \in PastOnlineStart =>
        /\ pc'[Other(r)] \notin {"Init", "PreProcess"}
        /\ \A q \in Party : key'[q] = MaskKey(q)' /\ (Recovery => Settled(q)')
  BY <1>1, PastBarrier, Zenon
<1> QED BY <1>0, <1>1, <1>2, <1>3, Zenon DEF KeyInStep

\* A step of r after which it is where it was, or at a later place of the run.
LEMMA KeyStepLater ==
  ASSUME LinkInv, KeyInv, [Next]_vars, ~Restart, NEW r \in Party,
         pc[r] \in PastOnlineStart, pc'[r] \in PastOnlineStart \cup {"down"},
         pc'[r] \in {"PostEnd", "down"} \cup PastPostEnd => selfBuf'[r] = {} /\ peerBuf'[r] = {}
  PROVE  KeyInStep(r)'
<1>1. pc'[r] \notin {"Init", "PreProcess", "OnlineStart"}
  BY Zenon DEF PastOnlineStart, PastOnlineGather, PastOnlineSync, PastPostEnd, PastFinalizeSync
<1> QED BY <1>1, PastBarrier, Zenon DEF KeyInStep

\* r gives up.
LEMMA KeyStepDown ==
  ASSUME NEW r \in Party, pc'[r] = "down", selfBuf'[r] = {} /\ peerBuf'[r] = {}
  PROVE  KeyInStep(r)'
BY Zenon DEF KeyInStep, PastOnlineStart, PastOnlineGather, PastOnlineSync, PastPostEnd, PastFinalizeSync

LEMMA KeyInitEnd ==
  ASSUME LinkInv, KeyInv, [Next]_vars, NEW r \in Party, InitEnd(r)
  PROVE  KeyInStep(r)'
<1>0. KeyInStep(r) /\ CkptTypes /\ DOMAIN pc = Party
  BY Zenon DEF KeyInv, LinkInv, TypeOK, ControlTypes
<1>1. pc[r] = "Init" /\ pc'[r] = "PreProcess" /\ MarkStage(r, INIT_END)
  BY <1>0, Zenon DEF InitEnd, At, Goto
<1>2. ckpt'[r].stage >= PRE_PROCESS_END => ckpt[r].stage >= PRE_PROCESS_END
  BY <1>0, <1>1 DEF MarkStage, Mark, ckptVars, INIT_END, PRE_PROCESS_END, CkptTypes, Checkpoints
<1>3. saving'[r]["peer"] = "no" /\ saving'[r]["recv"] = "no"
  <2>1. saving[r]["peer"] = "no" /\ saving[r]["recv"] = "no"
    BY <1>0, <1>1, Zenon DEF KeyInStep
  <2>2. saving' = saving \/ saving' = [saving EXCEPT ![r]["main"] = "save"]
    BY <1>1, Zenon DEF MarkStage, Mark, ckptVars
  <2>3. saving[r] \in [Savers -> {"no", "save", "write"}] /\ r \in DOMAIN saving
    BY <1>0, Zenon DEF CkptTypes
  <2>4. saving'[r] = saving[r] \/ saving'[r] = [saving[r] EXCEPT !["main"] = "save"]
    BY <2>2, <2>3, Zenon
  <2> QED BY <2>1, <2>3, <2>4, Zenon DEF Savers
<1>4. Recovery /\ ckpt'[r].stage >= PRE_PROCESS_END => Settled(r)'
  BY <1>0, <1>1, <1>2, SettledKept, Zenon DEF KeyInStep
<1> QED BY <1>1, <1>3, <1>4, Zenon
        DEF KeyInStep, PastOnlineStart, PastOnlineGather, PastOnlineSync, PastPostEnd, PastFinalizeSync

LEMMA KeyPreProcess ==
  ASSUME LinkInv, KeyInv, [Next]_vars, NEW r \in Party, PreProcess(r)
  PROVE  KeyInStep(r)'
<1>0. KeyInStep(r) /\ CkptTypes /\ KeyTypes /\ DOMAIN pc = Party
  BY Zenon DEF KeyInv, LinkInv, TypeOK, ControlTypes
<1>1. /\ pc[r] = "PreProcess" /\ saving[r].main = "no" /\ pc'[r] = "OnlineStart" /\ run' = run
      /\ MarkStage(r, PRE_PROCESS_END)
      /\ key'[r] = IF Recovery /\ ~(ckpt[r].stage < PRE_PROCESS_END) THEN keyFile[r] ELSE run
      /\ keyFile'[r] = IF Recovery /\ ckpt[r].stage < PRE_PROCESS_END THEN run ELSE keyFile[r]
  BY <1>0, Zenon DEF PreProcess, At, Goto, KeyTypes, taskVars
<1>2. key'[r] = MaskKey(r)'
  BY <1>1, Zenon DEF MaskKey
<1>3. saving'[r]["peer"] = "no" /\ saving'[r]["recv"] = "no"
  <2>1. saving[r]["peer"] = "no" /\ saving[r]["recv"] = "no"
    BY <1>0, <1>1, Zenon DEF KeyInStep
  <2>2. saving' = saving \/ saving' = [saving EXCEPT ![r]["main"] = "save"]
    BY <1>1, Zenon DEF MarkStage, Mark, ckptVars
  <2>3. saving[r] \in [Savers -> {"no", "save", "write"}] /\ r \in DOMAIN saving
    BY <1>0, Zenon DEF CkptTypes
  <2>4. saving'[r] = saving[r] \/ saving'[r] = [saving[r] EXCEPT !["main"] = "save"]
    BY <2>2, <2>3, Zenon
  <2> QED BY <2>1, <2>3, <2>4, Zenon DEF Savers
<1>4. ASSUME Recovery
      PROVE  /\ ckpt'[r].stage >= PRE_PROCESS_END
             /\ saving'[r]["main"] = "no" => Settled(r)'
             /\ saving'[r]["main"] # "write"
  <2>1. CASE ckpt[r].stage < PRE_PROCESS_END
    <3>1. Mark(r, "main", [ckpt[r] EXCEPT !.stage = PRE_PROCESS_END])
      BY <1>1, <1>4, <2>1, Zenon DEF MarkStage
    <3>2. ckpt'[r].stage = PRE_PROCESS_END /\ saving'[r]["main"] = "save"
      BY <1>0, <3>1 DEF Mark, CkptTypes, Checkpoints, Savers
    <3> QED BY <3>2 DEF PRE_PROCESS_END
  <2>2. CASE ~(ckpt[r].stage < PRE_PROCESS_END)
    <3>0. ckpt[r].stage \in 0 .. 5
      BY <1>0, Zenon DEF CkptTypes, Checkpoints
    <3>1. ckpt[r].stage >= PRE_PROCESS_END
      BY <2>2, <3>0 DEF PRE_PROCESS_END
    <3>2. ckpt' = ckpt /\ saving' = saving
      BY <1>1, <2>2, Zenon DEF MarkStage, ckptVars
    <3>3. Settled(r)'
      BY <1>0, <1>1, <1>4, <3>1, SettledKept, Zenon DEF KeyInStep
    <3> QED BY <1>1, <3>1, <3>2, <3>3, Zenon
  <2> QED BY <2>1, <2>2, Zenon
<1> QED BY <1>1, <1>2, <1>3, <1>4, Zenon
        DEF KeyInStep, PastOnlineStart, PastOnlineGather, PastOnlineSync, PastPostEnd, PastFinalizeSync

\* r passes the barrier: both parties have saved their checkpoints.
LEMMA KeyOnlineStart ==
  ASSUME LinkInv, KeyInv, [Next]_vars, NEW r \in Party, OnlineStart(r)
  PROVE  KeyInStep(r)'
<1> USE DEF PastOnlineStart, PastOnlineGather, PastOnlineSync, PastPostEnd, PastFinalizeSync
<1>0. DOMAIN pc = Party /\ Other(r) \in Party /\ \A q \in Party : q = r \/ q = Other(r)
  BY Others, Zenon DEF LinkInv, TypeOK, ControlTypes
<1>1. /\ pc[r] = "OnlineStart" /\ saving[r]["main"] = "no"
      /\ pc'[r] \in {"OnlineGather", "RunEcdhPsi"} /\ pc'[Other(r)] = pc[Other(r)]
      /\ UNCHANGED <<ckptVars, keyVars, run>>
      /\ \/ pc[Other(r)] = "OnlineStart" /\ saving[Other(r)]["main"] = "no"
         \/ pc[Other(r)] \in PastOnlineStart
  <2>1. /\ pc[r] = "OnlineStart" /\ saving[r]["main"] = "no" /\ UNCHANGED <<ckptVars, keyVars, run>>
        /\ \/ pc[Other(r)] = "OnlineStart" /\ saving[Other(r)]["main"] = "no"
           \/ pc[Other(r)] \in PastOnlineStart
    BY Zenon DEF OnlineStart, At, Reached, taskVars
  <2>2. Goto(r, "OnlineGather") \/ Goto(r, "RunEcdhPsi")
    BY Zenon DEF OnlineStart
  <2>3. r # Other(r)
    BY Others, Zenon
  <2> QED BY <1>0, <2>1, <2>2, <2>3, Zenon DEF Goto
<1>2. ASSUME NEW q \in Party PROVE key[q] = MaskKey(q) /\ (Recovery => Settled(q))
  <2>1. CASE q = r
    BY <1>1, <2>1, Zenon DEF KeyInv, KeyInStep
  <2>2. CASE q = Other(r)
    BY <1>0, <1>1, <2>2, Zenon DEF KeyInv, KeyInStep
  <2> QED BY <1>0, <2>1, <2>2, Zenon
<1>3. \A q \in Party : key'[q] = MaskKey(q)' /\ (Recovery => Settled(q)')
  BY <1>1, <1>2, SettledSame, Zenon DEF MaskKey, keyVars
<1> QED BY <1>1, <1>3, Zenon DEF KeyInStep

\* The checkpoint of MarkPreProcessEnd reaches the file.
LEMMA KeySave ==
  ASSUME LinkInv, KeyInv, [Next]_vars, NEW r \in Party, NEW t \in Savers, Save(r, t)
  PROVE  KeyInStep(r)'
<1> USE DEF PastOnlineStart, PastOnlineGather, PastOnlineSync, PastPostEnd, PastFinalizeSync
<1>0. KeyInStep(r) /\ CkptTypes
  BY Zenon DEF KeyInv, LinkInv, TypeOK
<1>1. /\ UNCHANGED <<pc, ckpt, key, keyFile, run, selfBuf, peerBuf>>
      /\ saving[r][t] # "no"
  BY Zenon DEF Save, SaveOpen, SaveWrite, keyVars, taskVars, storeVars
<1>2. pc[r] \in {"Init", "PreProcess", "OnlineStart"} => t = "main"
  BY <1>0, <1>1, Zenon DEF KeyInStep, Savers
<1>3. pc[r] \in {"Init", "PreProcess", "OnlineStart"} => saving'[r]["peer"] = "no" /\ saving'[r]["recv"] = "no"
  <2>1. saving' = [saving EXCEPT ![r][t] = "write"] \/ saving' = [saving EXCEPT ![r][t] = "no"]
    BY Zenon DEF Save, SaveOpen, SaveWrite
  <2>2. saving[r] \in [Savers -> {"no", "save", "write"}] /\ r \in DOMAIN saving
    BY <1>0, Zenon DEF CkptTypes
  <2>3. saving'[r] = [saving[r] EXCEPT ![t] = "write"] \/ saving'[r] = [saving[r] EXCEPT ![t] = "no"]
    BY <2>1, <2>2, Zenon
  <2>4. t = "main" => UNCHANGED <<saving[r]["peer"], saving[r]["recv"]>>
    BY <2>2, <2>3, Zenon DEF Savers
  <2> QED BY <1>0, <1>2, <2>4, Zenon DEF KeyInStep
<1>4. Recovery /\ pc[r] \in {"Init", "PreProcess"} /\ ckpt[r].stage >= PRE_PROCESS_END => Settled(r)'
  BY <1>0, SettledKept, Zenon DEF KeyInStep
<1>5. ASSUME pc[r] = "OnlineStart", Recovery
      PROVE  /\ saving'[r]["main"] = "no" => Settled(r)'
             /\ saving'[r]["main"] = "write" => image'[r].stage >= PRE_PROCESS_END
  <2>0. t = "main" /\ ckpt[r].stage >= PRE_PROCESS_END
    BY <1>0, <1>2, <1>5, Zenon DEF KeyInStep
  <2>1. CASE SaveOpen(r, t)
    <3>1. image'[r] = ckpt[r] /\ saving'[r]["main"] = "write"
      BY <1>0, <2>0, <2>1, Zenon DEF SaveOpen, CkptTypes
    <3> QED BY <2>0, <3>1, Zenon
  <2>2. CASE SaveWrite(r, t)
    <3>1. /\ image[r].stage >= PRE_PROCESS_END
      BY <1>0, <1>5, <2>0, <2>2, Zenon DEF SaveWrite, KeyInStep
    <3>2. file'[r] = [st |-> "ok", ck |-> image[r]] /\ saving'[r]["main"] = "no"
      BY <1>0, <2>0, <2>2, Zenon DEF SaveWrite, CkptTypes
    <3>3. \A u \in Savers : saving'[r][u] # "write"
      BY <1>3, <1>5, <3>2, Zenon DEF Savers
    <3>4. file'[r].st = "ok" /\ file'[r].ck = image[r] /\ ckpt'[r].stage >= PRE_PROCESS_END
      BY <1>1, <2>0, <3>2
    <3>5. Settled(r)'
      BY <3>1, <3>3, <3>4, Zenon DEF Settled
    <3> QED BY <3>2, <3>5, Zenon
  <2> QED BY <2>1, <2>2, Zenon DEF Save
<1>6. pc[r] \in PastOnlineStart =>
        /\ pc'[Other(r)] \notin {"Init", "PreProcess"}
        /\ \A q \in Party : key'[q] = MaskKey(q)' /\ (Recovery => Settled(q)')
  <2>1. ~Restart \/ pc[r] \notin PastOnlineStart \/ pc'[r] = "Init"
    BY Zenon DEF Restart
  <2> QED BY <1>1, <2>1, PastBarrier, Zenon
<1>7. MaskKey(r)' = MaskKey(r)
  BY <1>1, Zenon DEF MaskKey
<1> QED BY <1>0, <1>1, <1>3, <1>4, <1>5, <1>6, <1>7, Zenon DEF KeyInStep

LEMMA KeyRestart ==
  ASSUME LinkInv, Restart, NEW r \in Party
  PROVE  KeyInStep(r)'
<1>0. CkptTypes
  BY Zenon DEF LinkInv, TypeOK
<1>1. /\ pc'[r] = "Init" /\ saving'[r] = NotSaving /\ file' = file
      /\ ckpt'[r] = IF file[r].st = "ok" THEN file[r].ck ELSE NoCheckpoint
  BY Zenon DEF Restart
<1>2. saving'[r]["peer"] = "no" /\ saving'[r]["recv"] = "no" /\ \A t \in Savers : saving'[r][t] # "write"
  BY <1>1, Zenon DEF NotSaving, Savers
<1>3. ckpt'[r].stage >= PRE_PROCESS_END => Settled(r)'
  BY <1>0, <1>1, <1>2 DEF Settled, NoCheckpoint, UNSPECIFIED, PRE_PROCESS_END
<1> QED BY <1>1, <1>2, <1>3, Zenon
        DEF KeyInStep, PastOnlineStart, PastOnlineGather, PastOnlineSync, PastPostEnd, PastFinalizeSync

LEMMA KeyInStepStep ==
  ASSUME LinkInv, KeyInv, [Next]_vars, NEW r \in Party
  PROVE  KeyInStep(r)'
<1> USE DEF PastOnlineStart, PastOnlineGather, PastOnlineSync, PastPostEnd, PastFinalizeSync
<1>0. KeyInStep(r) /\ StoreTypes /\ DOMAIN pc = Party
  BY Zenon DEF KeyInv, LinkInv, TypeOK, ControlTypes
<1>1. CASE Restart
  BY <1>1, KeyRestart, Zenon
<1>2. ASSUME ~Restart, NEW p \in Party, Step(p) PROVE KeyInStep(r)'
  <2>1. CASE p # r
    BY <1>2, <2>1, KeyStepOther, Zenon
  <2>2. CASE p = r
    <3>1. CASE OnlineGather(r) \/ Join(r) \/ OnlineEnd(r)
      <4>1. \E place \in {"RunEcdhPsi", "OnlineSync", "OnlineEnd", "PostProcess"} : Goto(r, place)
        BY <3>1, Zenon DEF OnlineGather, Join, OnlineEnd
      <4>2. pc[r] \in PastOnlineStart
        BY <3>1, Zenon DEF OnlineGather, Join, OnlineEnd, At
      <4>3. pc'[r] \in {"RunEcdhPsi", "OnlineSync", "OnlineEnd", "PostProcess"}
        BY <1>0, <4>1, Zenon DEF Goto
      <4> QED BY <1>2, <4>2, <4>3, KeyStepLater, Zenon
    <3>2. CASE PostProcess(r)
      <4>1. pc[r] = "PostProcess" /\ pc'[r] = "PostEnd" /\ selfBuf'[r] = {} /\ peerBuf'[r] = {}
        BY <1>0, <3>2, Zenon DEF PostProcess, Goto, At, StoreTypes
      <4> QED BY <1>2, <4>1, KeyStepLater, Zenon
    <3>3. CASE PostEnd(r) \/ FinalizeWrite(r) \/ Finalize(r) \/ FinalizeThrows(r)
      <4>1. pc[r] \in {"PostEnd", "Finalize", "FinalizeSync"} /\ UNCHANGED <<selfBuf, peerBuf>>
        BY Zenon, <3>3 DEF PostEnd, FinalizeWrite, Finalize, FinalizeThrows, At, storeVars
      <4>2. \E place \in {"Finalize", "FinalizeSync", "done", "down"} : Goto(r, place)
        BY <3>3, Zenon DEF PostEnd, FinalizeWrite, Finalize, FinalizeThrows
      <4>3. pc'[r] \in {"Finalize", "FinalizeSync", "done", "down"}
        BY <1>0, <4>2, Zenon DEF Goto
      <4>4. selfBuf'[r] = {} /\ peerBuf'[r] = {}
        BY <1>0, <4>1, Zenon DEF KeyInStep
      <4> QED BY <1>2, <4>1, <4>3, <4>4, KeyStepLater, Zenon
    <3>4. CASE Crash(r) \/ Abort(r)
      <4>1. pc'[r] = "down" /\ selfBuf'[r] = {} /\ peerBuf'[r] = {}
        BY <1>0, <3>4, Zenon DEF Crash, Abort, Goto, StoreTypes
      <4> QED BY <4>1, KeyStepDown, Zenon
    <3>5. CASE MaskSelf(r) \/ MaskPeer(r) \/ RecvSelf(r)
      <4>1. pc[r] = "RunEcdhPsi" /\ pc' = pc
        BY ZenonT(60), <3>5 DEF MaskSelf, MaskPeer, MaskPeerRecv, MaskPeerFlush, MaskPeerDual, RecvSelf,
                 RecvDualMaskedSelf, RecvDualMaskedFlush, RecvDualMaskedNext, Running
      <4> QED BY <1>2, <4>1, KeyStepLater, Zenon
    <3> QED BY Zenon, <1>2, <2>2, <3>1, <3>2, <3>3, <3>4, <3>5, KeyInitEnd, KeyPreProcess,
               KeyOnlineStart, KeySave DEF Step, MainStep
  <2> QED BY <2>1, <2>2, Zenon
<1>3. CASE UNCHANGED vars
  BY <1>0, <1>3, Zenon DEF vars, KeyInStep, Settled, MaskKey
<1> QED BY <1>1, <1>2, <1>3, Steps, Zenon

-----------------------------------------------------------------------------
(* What is masked. *)

\* A key that something is masked with stays, within a run and across runs.
LEMMA MaskKeyKept ==
  ASSUME LinkInv, KeyInv, [Next]_vars, Recovery \/ ~Restart, NEW q \in Party
  PROVE  MaskKey(q)' = MaskKey(q) \/ (Untouched /\ Untouched')
<1>1. CASE Restart
  BY <1>1, Zenon DEF Restart, MaskKey
<1>2. CASE UNCHANGED vars
  BY <1>2, Zenon DEF vars, MaskKey
<1>3. ASSUME NEW p \in Party, Step(p) PROVE MaskKey(q)' = MaskKey(q) \/ (Untouched /\ Untouched')
  <2>1. CASE ~PreProcess(p)
    BY <1>3, <2>1, KeyChosen, Zenon DEF MaskKey
  <2>2. CASE PreProcess(p)
    <3>1. run' = run /\ keyFile' = [keyFile EXCEPT ![p] = IF Recovery /\ ckpt[p].stage < PRE_PROCESS_END
                                                         THEN run ELSE @]
      BY <2>2, Zenon DEF PreProcess, taskVars
    <3>2. CASE Recovery /\ ckpt[p].stage < PRE_PROCESS_END
      <4>1. ~Settled(p)
        <5>1. ckpt[p].stage \in 0 .. 5
          BY Zenon DEF LinkInv, TypeOK, CkptTypes, Checkpoints
        <5> QED BY <3>2, <5>1 DEF Settled, PRE_PROCESS_END
      <4>2. Untouched
        BY <3>2, <4>1, Zenon DEF KeyInv
      <4>3. UNCHANGED <<linkVars, storeVars>>
        BY <2>2, Zenon DEF PreProcess
      <4> QED BY <4>2, <4>3, Zenon DEF Untouched, linkVars, storeVars
    <3>3. CASE ~(Recovery /\ ckpt[p].stage < PRE_PROCESS_END)
      <4>1. keyFile' = [keyFile EXCEPT ![p] = keyFile[p]]
        BY <3>1, <3>3, Zenon
      <4>2. keyFile'[q] = keyFile[q]
        BY <4>1, Zenon DEF LinkInv, TypeOK, KeyTypes
      <4> QED BY <3>1, <4>2, Zenon DEF MaskKey
    <3> QED BY <3>2, <3>3, Zenon
  <2> QED BY <2>1, <2>2, Zenon
<1> QED BY <1>1, <1>2, <1>3, Steps, Zenon

LEMMA UntouchedMasked == Untouched => \A r \in Party : MaskedAlike(r)
BY DEF Untouched, MaskedAlike

\* Batches and lines that were there before are masked as they were.
LEMMA MaskedSame ==
  ASSUME NEW r \in Party, MaskedAlike(r), \A q \in Party : MaskKey(q)' = MaskKey(q),
         main'[r] \in {main[r], <<>>}, dual'[r] \in {dual[r], <<>>},
         self'[r] \cup selfBuf'[r] \subseteq self[r] \cup selfBuf[r],
         peer'[r] \cup peerBuf'[r] \subseteq peer[r] \cup peerBuf[r]
  PROVE  MaskedAlike(r)'
<1>1. Other(r) \in Party
  BY Others, Zenon
<1>2. MaskKey(r)' = MaskKey(r) /\ MaskKey(Other(r))' = MaskKey(Other(r))
  BY <1>1, Zenon
<1>3. \A k \in 1 .. Len(main'[r]) : main'[r][k].own = MaskKey(r)
  BY DEF MaskedAlike
<1>4. \A k \in 1 .. Len(dual'[r]) : dual'[r][k].own = MaskKey(Other(r)) /\ dual'[r][k].via = MaskKey(r)
  BY DEF MaskedAlike
<1>5. /\ \A l \in self'[r] \cup selfBuf'[r] : l.own = MaskKey(r) /\ l.via = MaskKey(Other(r))
      /\ \A l \in peer'[r] \cup peerBuf'[r] : l.own = MaskKey(Other(r)) /\ l.via = MaskKey(r)
  BY Zenon DEF MaskedAlike
<1> QED BY <1>2, <1>3, <1>4, <1>5, Zenon DEF MaskedAlike

LEMMA MaskedMaskSelf ==
  ASSUME LinkInv, KeyInv, NEW r \in Party, MaskSelf(r), \A q \in Party : MaskKey(q)' = MaskKey(q)
  PROVE  MaskedAlike(r)'
<1>0. Other(r) \in Party /\ MaskedAlike(r)
  BY Others, Zenon DEF KeyInv
<1>1. PICK b \in Batches : b.own = key[r] /\ main' = [main EXCEPT ![r] = Append(@, b)]
  <2>1. PICK b : /\ b = [lo |-> pos[r], hi |-> BatchEnd(r, pos[r]),
                         base |-> pos[r] - (pos[r] % BatchSize), own |-> key[r]]
                 /\ main' = [main EXCEPT ![r] = Append(@, b)]
    BY Zenon DEF MaskSelf
  <2>2. b \in Batches
    <3>1. pos[r] \in Nat /\ key[r] \in Nat
      BY Zenon DEF LinkInv, TypeOK, LinkTypes, KeyTypes
    <3>2. BatchEnd(r, pos[r]) \in Nat /\ pos[r] - (pos[r] % BatchSize) \in Nat
      BY <3>1, BatchEnds, Zenon
    <3> QED BY <2>1, <3>1, <3>2, Zenon DEF Batches
  <2> QED BY <2>1, <2>2, Zenon
<1>2. key[r] = MaskKey(r)
  BY Zenon DEF MaskSelf, Running, KeyInv, KeyInStep, PastOnlineStart, PastOnlineGather
<1>3. main[r] \in Seq(Batches) /\ main'[r] = Append(main[r], b)
  BY <1>1, Zenon DEF LinkInv, TypeOK, LinkTypes
<1>4. ASSUME NEW k \in 1 .. Len(main'[r]) PROVE main'[r][k].own = MaskKey(r)
  <2>1. CASE k \in 1 .. Len(main[r])
    <3>1. main'[r][k] = main[r][k]
      BY <1>3, <2>1
    <3> QED BY <1>0, <2>1, <3>1, Zenon DEF MaskedAlike
  <2>2. CASE k \notin 1 .. Len(main[r])
    <3>1. main'[r][k] = b
      BY <1>3, <2>2
    <3> QED BY <1>1, <1>2, <3>1, Zenon
  <2> QED BY <2>1, <2>2, Zenon
<1>5. UNCHANGED <<dual, self, selfBuf, peer, peerBuf>>
  BY Zenon DEF MaskSelf, storeVars
<1>6. MaskKey(r)' = MaskKey(r) /\ MaskKey(Other(r))' = MaskKey(Other(r))
  BY <1>0, Zenon
<1> QED BY <1>0, <1>4, <1>5, <1>6, Zenon DEF MaskedAlike

\* The batch that MaskPeer of r works on is masked with the key of its owner.
LEMMA ReceivedMasked ==
  ASSUME LinkInv, KeyInv, NEW r \in Party
  PROVE  /\ \A k \in 1 .. Len(main[Other(r)]) : main[Other(r)][k].own = MaskKey(Other(r))
         /\ \A k \in 1 .. Len(dual[Other(r)]) :
              dual[Other(r)][k].own = MaskKey(r) /\ dual[Other(r)][k].via = MaskKey(Other(r))
<1>1. Other(r) \in Party /\ Other(Other(r)) = r
  BY Others, Zenon
<1>2. MaskedAlike(Other(r))
  BY <1>1, Zenon DEF KeyInv
<1> QED BY <1>1, <1>2, Zenon DEF MaskedAlike

LEMMA MaskedMaskPeerRecv ==
  ASSUME LinkInv, KeyInv, NEW r \in Party, MaskPeerRecv(r), \A q \in Party : MaskKey(q)' = MaskKey(q)
  PROVE  MaskedAlike(r)'
<1>0. Other(r) \in Party /\ MaskedAlike(r)
  BY Others, Zenon DEF KeyInv
<1>1. PICK b : b = main[Other(r)][mainRecv[r] + 1]
  BY Zenon
<1>2. b.own = MaskKey(Other(r))
  <2>1. mainRecv[r] + 1 \in 1 .. Len(main[Other(r)])
    BY <1>0 DEF MaskPeerRecv, LinkInv, TypeOK, LinkTypes
  <2> QED BY <1>1, <2>1, ReceivedMasked, Zenon
<1>3. key[r] = MaskKey(r)
  BY Zenon DEF MaskPeerRecv, Running, KeyInv, KeyInStep, PastOnlineStart, PastOnlineGather
<1>4. \A l \in PeerLines(r, b) : l.own = MaskKey(Other(r)) /\ l.via = MaskKey(r)
  BY <1>2, <1>3 DEF PeerLines
<1>5. peerBuf'[r] \in {peerBuf[r], peerBuf[r] \cup PeerLines(r, b)}
  BY <1>1, Zenon DEF MaskPeerRecv, LinkInv, TypeOK, StoreTypes
<1>6. UNCHANGED <<main, dual, self, selfBuf, peer>>
  BY Zenon DEF MaskPeerRecv
<1>7. MaskKey(r)' = MaskKey(r) /\ MaskKey(Other(r))' = MaskKey(Other(r))
  BY <1>0, Zenon
<1>8. \A l \in peer'[r] \cup peerBuf'[r] : l.own = MaskKey(Other(r)) /\ l.via = MaskKey(r)
  BY <1>0, <1>4, <1>5, <1>6, Zenon DEF MaskedAlike
<1> QED BY <1>0, <1>6, <1>7, <1>8, Zenon DEF MaskedAlike

LEMMA MaskedMaskPeerDual ==
  ASSUME LinkInv, KeyInv, NEW r \in Party, MaskPeerDual(r), \A q \in Party : MaskKey(q)' = MaskKey(q)
  PROVE  MaskedAlike(r)'
<1>0. Other(r) \in Party /\ MaskedAlike(r)
  BY Others, Zenon DEF KeyInv
<1>1. PICK b : b = main[Other(r)][mainRecv[r]]
  BY Zenon
<1>2. b.own = MaskKey(Other(r))
  <2>1. mainRecv[r] \in 1 .. Len(main[Other(r)])
    <3>1. mainRecv[r] >= 1 /\ mainRecv[r] <= Len(main[Other(r)])
      BY Zenon DEF MaskPeerDual, LinkInv, ThreadsInStep, DualInOrder
    <3> QED BY <1>0, <3>1 DEF LinkInv, TypeOK, LinkTypes
  <2> QED BY <1>1, <2>1, ReceivedMasked, Zenon
<1>3. key[r] = MaskKey(r)
  BY Zenon DEF MaskPeerDual, Running, KeyInv, KeyInStep, PastOnlineStart, PastOnlineGather
<1>4. PICK d : d = [lo |-> b.lo, hi |-> b.hi, own |-> b.own, via |-> key[r]]
  BY Zenon
<1>5. d.own = MaskKey(Other(r)) /\ d.via = MaskKey(r)
  BY <1>2, <1>3, <1>4, Zenon
<1>6. dual[r] \in Seq(DualBatches) /\ dual'[r] \in {dual[r], Append(dual[r], d)}
  BY <1>1, <1>4, Zenon DEF MaskPeerDual, LinkInv, TypeOK, LinkTypes
<1>7. ASSUME NEW k \in 1 .. Len(dual'[r])
      PROVE  dual'[r][k].own = MaskKey(Other(r)) /\ dual'[r][k].via = MaskKey(r)
  <2>1. CASE k \in 1 .. Len(dual[r])
    <3>1. dual'[r][k] = dual[r][k]
      BY <1>6, <2>1
    <3> QED BY <1>0, <2>1, <3>1, Zenon DEF MaskedAlike
  <2>2. CASE k \notin 1 .. Len(dual[r])
    <3>1. dual'[r][k] = d
      BY <1>6, <2>2
    <3> QED BY <1>5, <3>1, Zenon
  <2> QED BY <2>1, <2>2, Zenon
<1>8. UNCHANGED <<main, self, selfBuf, peer, peerBuf>>
  BY Zenon DEF MaskPeerDual, storeVars
<1>9. MaskKey(r)' = MaskKey(r) /\ MaskKey(Other(r))' = MaskKey(Other(r))
  BY <1>0, Zenon
<1> QED BY <1>0, <1>7, <1>8, <1>9, Zenon DEF MaskedAlike

LEMMA MaskedRecvDualMaskedSelf ==
  ASSUME LinkInv, KeyInv, NEW r \in Party, RecvDualMaskedSelf(r), \A q \in Party : MaskKey(q)' = MaskKey(q)
  PROVE  MaskedAlike(r)'
<1>0. Other(r) \in Party /\ MaskedAlike(r)
  BY Others, Zenon DEF KeyInv
<1>1. PICK b : b = dual[Other(r)][dualRecv[r] + 1]
  BY Zenon
<1>2. b.own = MaskKey(r) /\ b.via = MaskKey(Other(r))
  <2>1. dualRecv[r] + 1 \in 1 .. Len(dual[Other(r)])
    BY <1>0 DEF RecvDualMaskedSelf, LinkInv, TypeOK, LinkTypes
  <2> QED BY <1>1, <2>1, ReceivedMasked, Zenon
<1>4. \A l \in SelfLines(r, b) : l.own = MaskKey(r) /\ l.via = MaskKey(Other(r))
  BY <1>2 DEF SelfLines
<1>5. selfBuf'[r] = selfBuf[r] \cup SelfLines(r, b)
  BY <1>1, Zenon DEF RecvDualMaskedSelf, LinkInv, TypeOK, StoreTypes
<1>6. UNCHANGED <<main, dual, self, peer, peerBuf>>
  BY Zenon DEF RecvDualMaskedSelf
<1>7. MaskKey(r)' = MaskKey(r) /\ MaskKey(Other(r))' = MaskKey(Other(r))
  BY <1>0, Zenon
<1>8. \A l \in self'[r] \cup selfBuf'[r] : l.own = MaskKey(r) /\ l.via = MaskKey(Other(r))
  BY <1>0, <1>4, <1>5, <1>6, Zenon DEF MaskedAlike
<1> QED BY <1>0, <1>6, <1>7, <1>8, Zenon DEF MaskedAlike

\* Steps of r that add no batch and no line.
LEMMA NothingAdded ==
  ASSUME LinkInv, NEW r \in Party, Step(r), ~MaskSelf(r), ~MaskPeerRecv(r), ~MaskPeerDual(r),
         ~RecvDualMaskedSelf(r)
  PROVE  /\ UNCHANGED <<main, dual>>
         /\ self'[r] \cup selfBuf'[r] \subseteq self[r] \cup selfBuf[r]
         /\ peer'[r] \cup peerBuf'[r] \subseteq peer[r] \cup peerBuf[r]
<1>0. StoreTypes
  BY Zenon DEF LinkInv, TypeOK
<1>1. UNCHANGED <<main, dual>>
  BY ZenonT(60) DEF Step, MainStep, InitEnd, PreProcess, OnlineStart, OnlineGather, Join, OnlineEnd, PostProcess,
         PostEnd, FinalizeWrite, FinalizeThrows, Finalize, MaskPeer, MaskPeerFlush,
         RecvSelf, RecvDualMaskedFlush, RecvDualMaskedNext, Crash, Abort, Save, SaveOpen,
         SaveWrite, linkVars
<1>2. CASE UNCHANGED <<self, selfBuf, peer, peerBuf>>
  BY <1>1, <1>2, Zenon
<1>3. CASE PostProcess(r) \/ Crash(r) \/ Abort(r) \/ MaskPeerFlush(r) \/ RecvDualMaskedFlush(r)
  <2>1. /\ self'[r] \subseteq self[r] \cup selfBuf[r] /\ selfBuf'[r] \subseteq selfBuf[r]
        /\ peer'[r] \subseteq peer[r] \cup peerBuf[r] /\ peerBuf'[r] \subseteq peerBuf[r]
    BY <1>0, <1>3 DEF PostProcess, Crash, Abort, MaskPeerFlush, RecvDualMaskedFlush, StoreTypes
  <2> QED BY <1>1, <2>1, Zenon
<1>4. UNCHANGED <<self, selfBuf, peer, peerBuf>> \/
      PostProcess(r) \/ Crash(r) \/ Abort(r) \/ MaskPeerFlush(r) \/ RecvDualMaskedFlush(r)
  BY ZenonT(60) DEF Step, MainStep, InitEnd, PreProcess, OnlineStart, OnlineGather, Join, OnlineEnd,
         PostEnd, FinalizeWrite, FinalizeThrows, Finalize, MaskPeer,
         RecvSelf, RecvDualMaskedNext, Save, SaveOpen, SaveWrite, storeVars
<1> QED BY <1>2, <1>3, <1>4, Zenon

\* Without recovery a restart finds nothing of the runs before.
LEMMA FreshRestart ==
  ASSUME LinkInv, KeyInv, Restart, ~Recovery
  PROVE  Untouched'
<1> SUFFICES ASSUME NEW p \in Party
             PROVE  /\ main'[p] = <<>> /\ dual'[p] = <<>> /\ self'[p] = {} /\ peer'[p] = {}
                    /\ selfBuf'[p] = {} /\ peerBuf'[p] = {}
  BY Zenon DEF Untouched
<1>1. main'[p] = <<>> /\ dual'[p] = <<>> /\ self'[p] = {} /\ peer'[p] = {}
  BY Zenon DEF Restart
<1>2. selfBuf' = selfBuf /\ peerBuf' = peerBuf /\ pc[p] \in {"down", "done"}
  BY Zenon DEF Restart, Stopped
<1>3. selfBuf[p] = {} /\ peerBuf[p] = {}
  BY <1>2, Zenon DEF KeyInv, KeyInStep, PastPostEnd, PastFinalizeSync
<1> QED BY <1>1, <1>2, <1>3, Zenon

LEMMA MaskedStep ==
  ASSUME LinkInv, KeyInv, [Next]_vars, NEW r \in Party
  PROVE  MaskedAlike(r)'
<1>0. MaskedAlike(r)
  BY Zenon DEF KeyInv
<1>1. CASE Restart /\ ~Recovery
  BY <1>1, FreshRestart, UntouchedMasked DEF Untouched, MaskedAlike
<1>2. CASE Untouched'
  BY <1>2 DEF Untouched, MaskedAlike
<1>3. CASE Recovery \/ ~Restart
  <2> SUFFICES ASSUME \A q \in Party : MaskKey(q)' = MaskKey(q) PROVE MaskedAlike(r)'
    BY <1>2, <1>3, MaskKeyKept, Zenon
  <2>1. CASE Restart
    <3>1. main'[r] = <<>> /\ dual'[r] = <<>> /\ UNCHANGED <<self, selfBuf, peer, peerBuf>>
      BY <1>3, <2>1, Zenon DEF Restart
    <3> QED BY <1>0, <3>1, MaskedSame, Zenon
  <2>2. CASE UNCHANGED vars
    BY <1>0, <2>2, MaskedSame, Zenon DEF vars
  <2>3. ASSUME NEW p \in Party, Step(p) PROVE MaskedAlike(r)'
    <3>1. CASE p # r
      <4>1. /\ main'[r] = main[r] /\ dual'[r] = dual[r] /\ self'[r] = self[r]
            /\ selfBuf'[r] = selfBuf[r] /\ peer'[r] = peer[r] /\ peerBuf'[r] = peerBuf[r]
        BY <2>3, <3>1, Alone, Zenon DEF Local
      <4> QED BY <1>0, <4>1, MaskedSame, Zenon
    <3>2. CASE p = r /\ (MaskSelf(r) \/ MaskPeerRecv(r) \/ MaskPeerDual(r) \/ RecvDualMaskedSelf(r))
      BY <3>2, MaskedMaskSelf, MaskedMaskPeerRecv, MaskedMaskPeerDual, MaskedRecvDualMaskedSelf, Zenon
    <3>3. CASE p = r /\ ~(MaskSelf(r) \/ MaskPeerRecv(r) \/ MaskPeerDual(r) \/ RecvDualMaskedSelf(r))
      <4>1. /\ UNCHANGED <<main, dual>>
            /\ self'[r] \cup selfBuf'[r] \subseteq self[r] \cup selfBuf[r]
            /\ peer'[r] \cup peerBuf'[r] \subseteq peer[r] \cup peerBuf[r]
        BY <2>3, <3>3, NothingAdded, Zenon
      <4> QED BY <1>0, <4>1, MaskedSame, Zenon
    <3> QED BY <3>1, <3>2, <3>3, Zenon
  <2> QED BY <2>1, <2>2, <2>3, Steps, Zenon
<1> QED BY <1>1, <1>3, Zenon

\* Nothing is masked before both parties are settled.
LEMMA SettledStep ==
  ASSUME LinkInv, KeyInv, [Next]_vars, Recovery
  PROVE  Untouched' \/ \A q \in Party : Settled(q)'
<1>1. CASE \A q \in Party : Settled(q)
  BY <1>1, SettledKept, Zenon
<1>2. CASE Untouched
  <2>1. CASE Restart
    <3>1. \A p \in Party : main'[p] = <<>> /\ dual'[p] = <<>>
      BY <2>1, Zenon DEF Restart
    <3>2. UNCHANGED <<self, selfBuf, peer, peerBuf>>
      BY <2>1, Zenon DEF Restart
    <3> QED BY <1>2, <3>1, <3>2, Zenon DEF Untouched
  <2>2. CASE UNCHANGED vars
    BY <1>2, <2>2, Zenon DEF vars, Untouched
  <2>3. ASSUME NEW p \in Party, Step(p) PROVE Untouched' \/ \A q \in Party : Settled(q)'
    <3>1. CASE MaskSelf(p) \/ MaskPeerRecv(p) \/ MaskPeerDual(p) \/ RecvDualMaskedSelf(p)
      <4>1. pc[p] \in PastOnlineStart
        BY <3>1, Zenon DEF MaskSelf, MaskPeerRecv, MaskPeerDual, RecvDualMaskedSelf, Running, PastOnlineStart,
                    PastOnlineGather
      <4>2. \A q \in Party : Settled(q)
        BY <4>1, Zenon DEF KeyInv, KeyInStep
      <4> QED BY <1>1, <4>2, Zenon
    <3>2. CASE ~(MaskSelf(p) \/ MaskPeerRecv(p) \/ MaskPeerDual(p) \/ RecvDualMaskedSelf(p))
      <4>1. /\ UNCHANGED <<main, dual>>
            /\ self'[p] \cup selfBuf'[p] \subseteq self[p] \cup selfBuf[p]
            /\ peer'[p] \cup peerBuf'[p] \subseteq peer[p] \cup peerBuf[p]
        BY <2>3, <3>2, NothingAdded, Zenon
      <4>2. self'[p] = {} /\ selfBuf'[p] = {} /\ peer'[p] = {} /\ peerBuf'[p] = {}
        BY <1>2, <4>1, Zenon DEF Untouched
      <4>3. ASSUME NEW q \in Party, q # p
            PROVE  self'[q] = {} /\ selfBuf'[q] = {} /\ peer'[q] = {} /\ peerBuf'[q] = {}
        BY <1>2, <2>3, <4>3, Alone DEF Untouched, Local
      <4> QED BY <1>2, <4>1, <4>2, <4>3, Zenon DEF Untouched
    <3> QED BY <3>1, <3>2, Zenon
  <2> QED BY <2>1, <2>2, <2>3, Steps, Zenon
<1> QED BY <1>1, <1>2, Zenon DEF KeyInv

LEMMA KeyInit == Init => KeyInv
<1> SUFFICES ASSUME Init PROVE KeyInv
  BY Zenon
<1>1. Untouched
  BY Zenon DEF Init, Untouched
<1>2. ASSUME NEW p \in Party PROVE KeyInStep(p)
  BY DEF Init, KeyInStep, NotSaving, Savers, NoCheckpoint, UNSPECIFIED, PRE_PROCESS_END,
         PastOnlineStart, PastOnlineGather, PastOnlineSync, PastPostEnd, PastFinalizeSync
<1> QED BY <1>1, <1>2, UntouchedMasked, Zenon DEF KeyInv

\* The key pair that anything in memory, on the links or on disk is masked with
\* is never drawn again, in whatever order the two parties save, crash and are
\* restarted (recovery.cc:122-146, interface.h:52).
THEOREM KeyInvariant == Spec => []KeyInv
<1>1. LinkInv /\ KeyInv /\ [Next]_vars => KeyInv'
  BY KeyInStepStep, MaskedStep, SettledStep, Zenon DEF KeyInv
<1> QED BY <1>1, KeyInit, LinkInvariant, PTL DEF Spec

\* A line of an earlier run is masked with the keys now in use, so the join of
\* FinalizeAndComputeIndices compares like with like (recovery.cc:122-146).
THEOREM KeysStayConsistent == Spec => []KeysConsistent
<1>1. KeyInv => KeysConsistent
  <2> SUFFICES ASSUME KeyInv, NEW p \in Party, Running(p)
               PROVE  /\ \A l \in self[p] \cup selfBuf[p] : l.own = key[p] /\ l.via = key[Other(p)]
                      /\ \A l \in peer[p] \cup peerBuf[p] : l.own = key[Other(p)] /\ l.via = key[p]
    BY Zenon DEF KeysConsistent
  <2>1. \A q \in Party : key[q] = MaskKey(q)
    BY Zenon DEF KeyInv, KeyInStep, Running, PastOnlineStart, PastOnlineGather
  <2>2. key[p] = MaskKey(p) /\ key[Other(p)] = MaskKey(Other(p))
    BY <2>1, Others, Zenon
  <2> QED BY <2>2, Zenon DEF KeyInv, MaskedAlike
<1> QED BY <1>1, KeyInvariant, PTL

=============================================================================
