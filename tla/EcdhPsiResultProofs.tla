------------------------ MODULE EcdhPsiResultProofs -------------------------
(* Theorems about what the two parties of EcdhPsi write, for lists, batches, *)
(* throttle windows and numbers of crashes of any size: the join takes the   *)
(* right count of duplicates although a resumed run may start inside a batch *)
(* of the provider, and a task that never resumes writes the intersection.   *)
EXTENDS EcdhPsiProofs

-----------------------------------------------------------------------------
(* The lines that the stores keep.                                           *)

INSTANCE WellFoundedInduction

(* Arithmetic of the provider's batches. *)

\* A set of naturals that is not empty has a least member.
LEMMA LeastNat ==
  ASSUME NEW S, S \subseteq Nat, S # {}
  PROVE  \E n \in S : \A m \in S : n <= m
<1>1. PICK R : R = OpToRel(<, Nat)
  BY Zenon
<1>2. IsWellFoundedOn(R, Nat)
  BY NatLessThanWellFounded, <1>1, Zenon
<1>3. \A x, y \in Nat : x < y => <<x, y>> \in R
  BY <1>1, Zenon DEF OpToRel
<1>4. PICK n \in S : \A m \in S : <<m, n>> \notin R
  BY <1>2, WFMin, Zenon
<1>5. \A m \in S : ~(m < n)
  BY <1>3, <1>4, Zenon
<1> QED BY <1>5

LEMMA Multiples ==
  ASSUME NEW a \in Nat, NEW b \in Nat, NEW B \in Nat \ {0}, B * a < B * b + B
  PROVE  B * a <= B * b
<1>1. CASE a >= b + 1
  <2>1. PICK d \in Nat : a = b + 1 + d
    <3>1. a - b - 1 \in Nat /\ a = b + 1 + (a - b - 1)
      BY <1>1
    <3> QED BY <3>1, Zenon
  <2>2. B * a = B * b + B + B * d
    BY <2>1
  <2>3. B * d \in Nat /\ B * b \in Nat
    OBVIOUS
  <2> QED BY <2>2, <2>3
<1>2. CASE a <= b
  <2>1. PICK d \in Nat : b = a + d
    <3>1. b - a \in Nat /\ b = a + (b - a)
      BY <1>2
    <3> QED BY <3>1, Zenon
  <2>2. B * b = B * a + B * d
    BY <2>1
  <2>3. B * d \in Nat /\ B * a \in Nat
    OBVIOUS
  <2> QED BY <2>2, <2>3
<1> QED BY <1>1, <1>2

\* An item is in the batch that its start begins.
LEMMA StartOf ==
  ASSUME NEW i \in Nat
  PROVE  /\ BatchStart(i) \in Nat /\ BatchStart(i) <= i /\ i < BatchStart(i) + BatchSize
         /\ \E k \in Nat : BatchStart(i) = BatchSize * k
         /\ i + BatchSize - (i % BatchSize) = BatchStart(i) + BatchSize
<1>1. /\ i % BatchSize \in 0 .. BatchSize - 1 /\ i \div BatchSize \in Nat
      /\ BatchStart(i) = BatchSize * (i \div BatchSize)
  BY ConstAssumption DEF BatchStart
<1>2. BatchSize * (i \div BatchSize) \in Nat
  BY <1>1, ConstAssumption
<1>3. i + BatchSize - (i % BatchSize) = BatchStart(i) + BatchSize
  BY <1>1, ConstAssumption DEF BatchStart
<1>4. BatchStart(i) <= i /\ i < BatchStart(i) + BatchSize
  BY <1>1, ConstAssumption DEF BatchStart
<1> QED BY <1>1, <1>2, <1>3, <1>4, Zenon

\* No batch starts inside another one.
LEMMA StartsApart ==
  ASSUME NEW i \in Nat, NEW j \in Nat, BatchStart(i) < BatchStart(j) + BatchSize
  PROVE  BatchStart(i) <= BatchStart(j)
<1>1. PICK a \in Nat : BatchStart(i) = BatchSize * a
  BY StartOf, Zenon
<1>2. PICK b \in Nat : BatchStart(j) = BatchSize * b
  BY StartOf, Zenon
<1>3. BatchSize * a < BatchSize * b + BatchSize /\ BatchSize \in Nat \ {0}
  BY <1>1, <1>2, ConstAssumption, Zenon
<1>4. BatchSize * a <= BatchSize * b
  BY <1>3, Multiples, Zenon
<1> QED BY <1>1, <1>2, <1>4, Zenon

LEMMA NextStart ==
  ASSUME NEW i \in Nat
  PROVE  BatchStart(BatchStart(i) + BatchSize) = BatchStart(i) + BatchSize
<1>1. PICK k \in Nat : BatchStart(i) = BatchSize * k
  BY StartOf, Zenon
<1>2. BatchStart(i) + BatchSize = BatchSize * (k + 1)
  BY <1>1, ConstAssumption
<1>3. (BatchSize * (k + 1)) % BatchSize = 0
  BY ConstAssumption
<1> QED BY <1>2, <1>3, ConstAssumption DEF BatchStart

\* Where a batch ends: a batch that starts before c starts before c's own
\* batch does or is that batch, so all of its items are before the end.
LEMMA EndsRounded ==
  ASSUME NEW q \in Party, NEW lo \in Nat, NEW c \in Nat, c <= BatchEnd(q, lo),
         NEW i \in Items(q), BatchStart(i) < c
  PROVE  i < BatchEnd(q, lo)
<1>1. N[q] \in Nat /\ i \in Nat /\ i < N[q] /\ BatchSize \in Nat
  BY ConstAssumption DEF Items
<1>2. BatchEnd(q, lo) = IF N[q] <= BatchStart(lo) + BatchSize THEN N[q] ELSE BatchStart(lo) + BatchSize
  BY StartOf, Zenon DEF BatchEnd, Smaller
<1>3. /\ BatchStart(i) \in Nat /\ i < BatchStart(i) + BatchSize
      /\ BatchStart(lo) \in Nat
  BY <1>1, StartOf, Zenon
<1>4. BatchStart(i) < BatchStart(lo) + BatchSize => BatchStart(i) <= BatchStart(lo)
  BY <1>1, StartsApart, Zenon
<1> QED BY <1>1, <1>2, <1>3, <1>4

\* An item of the rest of a batch is in that batch.
LEMMA InBatch ==
  ASSUME NEW q \in Party, NEW lo \in Nat, NEW i \in Nat, i < BatchEnd(q, lo)
  PROVE  BatchStart(i) <= BatchStart(lo) /\ i < N[q]
<1>1. N[q] \in Nat /\ BatchSize \in Nat
  BY ConstAssumption, Zenon
<1>2. BatchEnd(q, lo) = IF N[q] <= BatchStart(lo) + BatchSize THEN N[q] ELSE BatchStart(lo) + BatchSize
  BY StartOf, Zenon DEF BatchEnd, Smaller
<1>3. BatchStart(i) \in Nat /\ BatchStart(i) <= i /\ BatchStart(lo) \in Nat
  BY StartOf, Zenon
<1>4. BatchStart(i) < BatchStart(lo) + BatchSize => BatchStart(i) <= BatchStart(lo)
  BY StartsApart, Zenon
<1> QED BY <1>1, <1>2, <1>3, <1>4

-----------------------------------------------------------------------------
(* The batches on the main link are cut where the provider cuts them. *)

LEMMA AlignedMaskSelf ==
  ASSUME LinkInv, NEW r \in Party, BatchesAligned(r), MaskSelf(r)
  PROVE  BatchesAligned(r)'
<1>1. PICK b : /\ b = [lo |-> pos[r], hi |-> BatchEnd(r, pos[r]),
                        base |-> pos[r] - (pos[r] % BatchSize), own |-> key[r]]
               /\ main' = [main EXCEPT ![r] = Append(@, b)]
  BY Zenon DEF MaskSelf
<1>2. main'[r] = Append(main[r], b) /\ main[r] \in Seq(Batches)
  BY <1>1, Zenon DEF LinkInv, TypeOK, LinkTypes
<1>3. b.base = BatchStart(b.lo) /\ b.hi = BatchEnd(r, b.lo)
  BY <1>1, Zenon DEF BatchStart
<1>4. ASSUME NEW k \in 1 .. Len(main'[r])
      PROVE  main'[r][k] = b \/ (k \in 1 .. Len(main[r]) /\ main'[r][k] = main[r][k])
  BY <1>2, <1>4
<1> SUFFICES ASSUME NEW k \in 1 .. Len(main'[r])
             PROVE  /\ main'[r][k].base = BatchStart(main'[r][k].lo)
                    /\ main'[r][k].hi = BatchEnd(r, main'[r][k].lo)
  BY Zenon DEF BatchesAligned, BatchStart, BatchEnd
<1> QED BY <1>3, <1>4, Zenon DEF BatchesAligned

LEMMA AlignedStep ==
  ASSUME LinkInv, NEW r \in Party, BatchesAligned(r), [Next]_vars
  PROVE  BatchesAligned(r)'
<1>1. ASSUME main'[r] = main[r] PROVE BatchesAligned(r)'
  BY <1>1, Zenon DEF BatchesAligned, BatchStart, BatchEnd
<1>2. ASSUME Restart PROVE BatchesAligned(r)'
  <2>1. main'[r] = <<>>
    BY <1>2, Zenon DEF Restart
  <2> QED BY <2>1 DEF BatchesAligned
<1>3. ASSUME NEW p \in Party, Step(p) PROVE BatchesAligned(r)'
  <2>1. CASE p # r
    BY <1>1, <1>3, <2>1, Alone, Zenon DEF Local
  <2>2. CASE p = r /\ ~MaskSelf(r)
    <3>1. main' = main
      BY ZenonT(60), <1>3, <2>2 DEF Step, MainStep, InitEnd, PreProcess, OnlineStart, OnlineGather, Join,
         OnlineEnd, PostProcess, PostEnd, FinalizeWrite, FinalizeThrows, Finalize, MaskPeer, MaskPeerRecv,
         MaskPeerFlush, MaskPeerDual, RecvSelf, RecvDualMaskedSelf, RecvDualMaskedFlush, RecvDualMaskedNext,
         Crash, Abort, Save, SaveOpen, SaveWrite, linkVars
    <3> QED BY <1>1, <3>1
  <2> QED BY <2>1, <2>2, AlignedMaskSelf
<1>4. ASSUME UNCHANGED vars PROVE BatchesAligned(r)'
  BY <1>1, <1>4, Zenon DEF vars
<1> QED BY <1>2, <1>3, <1>4, Steps, Zenon

-----------------------------------------------------------------------------
(* Which run a line is from. *)

\* A party comes to its first places only by a restart.
LEMMA FirstPlaces ==
  ASSUME LinkInv, NEW p \in Party, Step(p), pc'[p] \in {"Init", "PreProcess", "OnlineStart"}
  PROVE  pc[p] \in {"Init", "PreProcess", "OnlineStart"} /\ ~MaskPeerRecv(p)
<1>0. DOMAIN pc = Party
  BY Zenon DEF LinkInv, TypeOK, ControlTypes
<1>1. \/ pc' = pc \/ pc[p] \in {"Init", "PreProcess"}
      \/ \E place \in {"OnlineGather", "RunEcdhPsi", "OnlineEnd", "OnlineSync", "PostProcess",
                       "PostEnd", "Finalize", "FinalizeSync", "done", "down"} : Goto(p, place)
  <2>1. ASSUME MainStep(p) \/ Crash(p) \/ Abort(p) PROVE \/ pc[p] \in {"Init", "PreProcess"}
        \/ \E place \in {"OnlineGather", "RunEcdhPsi", "OnlineEnd", "OnlineSync", "PostProcess",
                         "PostEnd", "Finalize", "FinalizeSync", "done", "down"} : Goto(p, place)
    BY <2>1, Zenon DEF MainStep, InitEnd, PreProcess, OnlineStart, OnlineGather, Join, OnlineEnd, PostProcess, PostEnd,
         FinalizeWrite, FinalizeThrows, Finalize, Crash, Abort, At
  <2>2. ASSUME ~(MainStep(p) \/ Crash(p) \/ Abort(p)) PROVE pc' = pc
    BY ZenonT(60), <2>2 DEF Step, MaskSelf, MaskPeer, MaskPeerRecv, MaskPeerFlush, MaskPeerDual,
         RecvSelf, RecvDualMaskedSelf, RecvDualMaskedFlush, RecvDualMaskedNext, Save, SaveOpen, SaveWrite
  <2> QED BY <2>1, <2>2, Zenon
<1>2. pc[p] \in {"Init", "PreProcess", "OnlineStart"}
  BY <1>0, <1>1, Zenon DEF Goto
<1> QED BY <1>2, Zenon DEF MaskPeerRecv, Running

\* Only MaskPeer's receiving step adds lines of peer items.
LEMMA PeerLinesAdded ==
  ASSUME LinkInv, NEW r \in Party, [Next]_vars, Recovery \/ ~Restart
  PROVE  \/ peer'[r] \cup peerBuf'[r] \subseteq peer[r] \cup peerBuf[r]
         \/ MaskPeerRecv(r)
<1>1. ASSUME NEW p \in Party, Step(p), p # r PROVE peer'[r] = peer[r] /\ peerBuf'[r] = peerBuf[r]
  BY <1>1, Alone, Zenon DEF Local
<1>2. ASSUME Step(r), ~MaskPeerRecv(r)
      PROVE  peer'[r] \cup peerBuf'[r] \subseteq peer[r] \cup peerBuf[r]
  <2>1. CASE MaskSelf(r) \/ MaskPeerDual(r) \/ RecvDualMaskedSelf(r)
    BY Zenon, <2>1 DEF MaskSelf, MaskPeerDual, RecvDualMaskedSelf, storeVars
  <2> QED BY <1>2, <2>1, NothingAdded, Zenon
<1>3. ASSUME Restart PROVE peer' = peer /\ peerBuf' = peerBuf
  BY <1>3, Zenon DEF Restart
<1>4. ASSUME UNCHANGED vars PROVE peer' = peer /\ peerBuf' = peerBuf
  BY <1>4, Zenon DEF vars
<1> QED BY <1>1, <1>2, <1>3, <1>4, Steps, Zenon

\* The lines of a batch, if they are kept
LEMMA PeerLinesOf ==
  ASSUME LinkInv, NEW r \in Party, MaskPeerRecv(r)
  PROVE  /\ peer' = peer /\ run' = run /\ Running(r)
         /\ mainRecv[r] < Len(main[Other(r)])
         /\ \A l \in peerBuf'[r] : \/ l \in peerBuf[r]
                                   \/ /\ r \in Targets
                                      /\ l \in PeerLines(r, main[Other(r)][mainRecv[r] + 1])
<1>1. PICK b : b = main[Other(r)][mainRecv[r] + 1]
  BY Zenon
<1>2. peerBuf' = [peerBuf EXCEPT ![r] = IF r \in Targets /\ b.lo < b.hi
                                        THEN @ \cup PeerLines(r, b) ELSE @]
  BY Zenon, <1>1 DEF MaskPeerRecv
<1>3. peerBuf'[r] = IF r \in Targets /\ b.lo < b.hi
                    THEN peerBuf[r] \cup PeerLines(r, b) ELSE peerBuf[r]
  BY <1>2, Zenon DEF LinkInv, TypeOK, StoreTypes
<1>4. \A l \in peerBuf'[r] : l \in peerBuf[r] \/ (r \in Targets /\ l \in PeerLines(r, b))
  BY <1>3, Zenon
<1>5. peer' = peer /\ run' = run /\ Running(r) /\ mainRecv[r] < Len(main[Other(r)])
  BY Zenon DEF MaskPeerRecv, taskVars
<1> QED BY <1>1, <1>4, <1>5, Zenon

LEMMA DatedStep ==
  ASSUME LinkInv, KeyInv, NEW r \in Party, LinesDated(r), [Next]_vars
  PROVE  LinesDated(r)'
<1> DEFINE E == {"Init", "PreProcess", "OnlineStart"}
<1>0. run \in Nat /\ \A l \in peer[r] \cup peerBuf[r] : l \in Lines
  BY Zenon DEF LinkInv, TypeOK, ControlTypes, StoreTypes
<1>1. CASE Restart
  <2>1. run' = run + 1
    BY <1>1, Zenon DEF Restart
  <2>2. peer'[r] \cup peerBuf'[r] \subseteq peer[r] \cup peerBuf[r]
    <3>1. CASE Recovery
      BY <1>1, <3>1, Zenon DEF Restart
    <3>2. CASE ~Recovery
      BY <1>1, <3>2, FreshRestart, Zenon DEF Untouched
    <3> QED BY <3>1, <3>2, Zenon
  <2> QED BY <1>0, <2>1, <2>2 DEF LinesDated, Lines
<1>2. CASE ~Restart
  <2>1. run' = run
    <3>1. ASSUME NEW p \in Party, Step(p) PROVE run' = run
      BY <3>1, Alone, Others, Zenon DEF Local
    <3>2. ASSUME UNCHANGED vars PROVE run' = run
      BY <3>2, Zenon DEF vars
    <3> QED BY <1>2, <3>1, <3>2, Steps, Zenon
  <2>2. pc'[r] \in E => pc[r] \in E /\ ~MaskPeerRecv(r)
    <3>1. ASSUME NEW p \in Party, Step(p), p # r PROVE pc'[r] = pc[r]
      BY <3>1, Alone, Zenon DEF Local
    <3>2. ASSUME UNCHANGED vars PROVE pc'[r] = pc[r]
      BY <3>2, Zenon DEF vars
    <3>3. pc[r] \in E => ~MaskPeerRecv(r)
      BY Zenon DEF MaskPeerRecv, Running
    <3> QED BY <1>2, <3>1, <3>2, <3>3, FirstPlaces, Steps
  <2>3. CASE MaskPeerRecv(r)
    <3>1. \A l \in peer'[r] \cup peerBuf'[r] : l \in peer[r] \cup peerBuf[r] \/ l.run = run
      <4>1. \A b : \A l \in PeerLines(r, b) : l.run = run
        BY SMTT(30) DEF PeerLines
      <4> QED BY <2>3, <4>1, PeerLinesOf, Zenon
    <3> QED BY <1>0, <2>1, <2>2, <2>3, <3>1 DEF LinesDated
  <2>4. CASE peer'[r] \cup peerBuf'[r] \subseteq peer[r] \cup peerBuf[r]
    BY <1>0, <2>1, <2>2, <2>4, Zenon DEF LinesDated
  <2> QED BY <1>2, <2>3, <2>4, PeerLinesAdded, Zenon
<1> QED BY <1>1, <1>2, Zenon

-----------------------------------------------------------------------------
(* A line with another item's count follows a right one. *)

LEMMA BatchTypes ==
  ASSUME LinkInv, NEW q \in Party, NEW k \in 1 .. Len(main[q])
  PROVE  main[q][k].lo \in Nat /\ main[q][k].hi \in Nat /\ main[q][k].base \in Nat
<1>1. main[q] \in Seq(Batches)
  BY Zenon DEF LinkInv, TypeOK, LinkTypes
<1>2. main[q][k] \in Batches
  BY <1>1
<1> QED BY <1>2, Zenon DEF Batches

\* What MaskPeer writes for item i of a batch is right, or i is in the files
\* of an older run.
LEMMA BatchRight ==
  ASSUME LinkInv, DupInv, NEW r \in Party, r \in Targets, NEW q \in Party, q = Other(r),
         NEW k \in 1 .. Len(main[q]), NEW b, b = main[q][k], NEW i \in b.lo .. b.hi - 1
  PROVE  i \in Items(q) /\ (b.base = b.lo \/ Has(OldLines(r), i))
<1>0. b.lo \in Nat /\ b.hi \in Nat /\ b.base \in Nat
  BY BatchTypes, Zenon
<1>1. /\ b.lo \in Nat /\ b.hi \in Nat /\ b.base \in Nat /\ i \in Nat /\ i < b.hi
      /\ N[q] \in Nat /\ BatchSize \in Nat /\ k \in Nat /\ Len(main[q]) \in Nat
  <2>1. N[q] \in Nat /\ Len(main[q]) \in Nat
    BY Positions, Zenon
  <2>2. BatchSize \in Nat
    BY ConstAssumption, Zenon
  <2>3. k \in Nat
    BY <2>1
  <2>4. i \in Nat /\ i < b.hi
    BY <1>0
  <2> QED BY <1>0, <2>1, <2>2, <2>3, <2>4, Zenon
<1>2. b.base = BatchStart(b.lo) /\ b.hi = BatchEnd(q, b.lo)
  BY Zenon DEF DupInv, BatchesAligned
<1>3. BatchStart(i) <= b.base /\ i < N[q] /\ b.base <= b.lo
  <2>1. BatchStart(i) <= BatchStart(b.lo) /\ i < N[q]
    BY <1>1, <1>2, InBatch, Zenon
  <2>2. BatchStart(b.lo) <= b.lo
    BY <1>1, StartOf, Zenon
  <2> QED BY <1>2, <2>1, <2>2, Zenon
<1>4. i \in Items(q)
  BY <1>1, <1>3 DEF Items
<1>5. CASE k = 1
  <2>1. b.lo = start[q]
    BY <1>5 DEF LinkInv, MainInOrder, UpTo
  <2>2. RoundedUp(OldLines(r), q, start[q])
    BY Zenon DEF DupInv, CountsRounded
  <2>3. BatchStart(i) \in Nat
    BY <1>1, StartOf, Zenon
  <2>4. b.base < b.lo => BatchStart(i) < start[q]
    BY <1>1, <1>3, <2>1, <2>3
  <2> QED BY <1>1, <1>3, <1>4, <2>2, <2>4 DEF RoundedUp
<1>6. CASE k # 1
  <2>1. k - 1 \in 1 .. Len(main[q]) /\ k - 1 # 0
    BY <1>1, <1>6
  <2>2. PICK a : a = main[q][k - 1]
    BY Zenon
  <2>3. a.lo \in Nat /\ a.hi = BatchEnd(q, a.lo)
    BY <2>1, <2>2, BatchTypes, Zenon DEF DupInv, BatchesAligned
  <2>4. b.lo = a.hi
    BY <2>1, <2>2, Zenon DEF LinkInv, MainInOrder, UpTo
  <2>5. a.hi = N[q] \/ a.hi = BatchStart(a.lo) + BatchSize
    BY <2>3, StartOf, Zenon DEF BatchEnd, Smaller
  <2>6. a.hi # N[q]
    BY <1>1, <1>3, <2>4
  <2>7. BatchStart(b.lo) = b.lo
    BY <2>3, <2>4, <2>5, <2>6, NextStart, Zenon
  <2> QED BY <1>2, <1>4, <2>7, Zenon
<1> QED BY <1>5, <1>6, Zenon

LEMMA RightMaskPeerRecv ==
  ASSUME LinkInv, DupInv, NEW r \in Party, MaskPeerRecv(r)
  PROVE  LinesRight(r)'
<1>0. LinesRight(r) /\ LinesDated(r)
  BY Zenon DEF DupInv
<1>1. /\ peer' = peer
      /\ \A l \in peerBuf'[r] : \/ l \in peerBuf[r]
                                \/ /\ r \in Targets
                                   /\ l \in PeerLines(r, main[Other(r)][mainRecv[r] + 1])
  BY PeerLinesOf, Zenon
<1>2. PICK q \in Party : q = Other(r)
  BY Others, Zenon
<1>3. PICK b : b = main[q][mainRecv[r] + 1]
  BY Zenon
<1>4. mainRecv[r] + 1 \in 1 .. Len(main[q])
  BY <1>2, PeerLinesOf, NextBatch, Zenon
<1>5. ASSUME NEW l \in PeerLines(r, b), r \in Targets
      PROVE  /\ l.pos \in Items(q)
             /\ \/ l.dup = Dup[q][l.pos]
                \/ \E m \in peer[r] : m.pos = l.pos /\ m.run < l.run /\ m.dup = Dup[q][l.pos]
  <2>1. PICK i \in b.lo .. b.hi - 1 : l.run = run /\ l.pos = i /\ l.dup = Dup[q][b.base + (i - b.lo)]
    BY <1>2, <1>5 DEF PeerLines
  <2>2. i \in Items(q) /\ (b.base = b.lo \/ Has(OldLines(r), i))
    BY <1>2, <1>3, <1>4, <1>5, BatchRight, Zenon
  <2>3. CASE b.base = b.lo
    <3>1. b.lo \in Nat
      BY <1>3, <1>4, BatchTypes, Zenon
    <3>2. b.base + (i - b.lo) = i
      BY <2>3, <3>1
    <3> QED BY <2>1, <2>2, <3>2, Zenon
  <2>4. CASE Has(OldLines(r), i)
    <3>1. PICK o \in peer[r] : o.run < run /\ o.pos = i
      BY <2>4, Zenon DEF Has, OldLines
    <3>2. o.dup = Dup[q][i] \/ \E m \in peer[r] : m.pos = i /\ m.run < o.run /\ m.dup = Dup[q][i]
      BY <1>0, <1>2, <3>1, Zenon DEF LinesRight
    <3>3. run \in Nat /\ \A m \in peer[r] : m.run \in Nat
      BY DEF LinkInv, TypeOK, ControlTypes, StoreTypes, Lines
    <3>4. \E m \in peer[r] : m.pos = i /\ m.run < run /\ m.dup = Dup[q][i]
      BY <3>1, <3>2, <3>3
    <3> QED BY <2>1, <2>2, <3>4, Zenon
  <2> QED BY <2>2, <2>3, <2>4, Zenon
<1> SUFFICES ASSUME NEW l \in peer'[r] \cup peerBuf'[r]
             PROVE  /\ l.pos \in Items(q)
                    /\ \/ l.dup = Dup[q][l.pos]
                       \/ \E m \in peer'[r] : m.pos = l.pos /\ m.run < l.run /\ m.dup = Dup[q][l.pos]
  BY <1>2, Zenon DEF LinesRight, Items
<1>6. l \in peer[r] \cup peerBuf[r] \/ (r \in Targets /\ l \in PeerLines(r, b))
  BY <1>1, <1>2, <1>3, Zenon
<1> QED BY <1>0, <1>1, <1>2, <1>5, <1>6, Zenon DEF LinesRight

LEMMA RightStep ==
  ASSUME LinkInv, KeyInv, DupInv, [Next]_vars, NEW r \in Party
  PROVE  LinesRight(r)'
<1>1. CASE Restart /\ ~Recovery
  BY <1>1, FreshRestart, Zenon DEF Untouched, LinesRight
<1>2. CASE Recovery \/ ~Restart
  <2>1. LinesRight(r)
    BY Zenon DEF DupInv
  <2>2. peer[r] \subseteq peer'[r]
    BY <1>2, StoresGrow, Zenon
  <2>3. CASE peer'[r] \cup peerBuf'[r] \subseteq peer[r] \cup peerBuf[r]
    <3>1. ASSUME NEW l \in peer'[r] \cup peerBuf'[r]
          PROVE  /\ l.pos \in Items(Other(r))
                 /\ \/ l.dup = Dup[Other(r)][l.pos]
                    \/ \E m \in peer'[r] : m.pos = l.pos /\ m.run < l.run /\ m.dup = Dup[Other(r)][l.pos]
      BY <2>1, <2>2, <2>3, Zenon DEF LinesRight
    <3> QED BY <3>1, Zenon DEF LinesRight, Items
  <2> QED BY <1>2, <2>3, RightMaskPeerRecv, PeerLinesAdded, Zenon
<1> QED BY <1>1, <1>2, Zenon

-----------------------------------------------------------------------------
(* The counts of peer items and the batches they stand for. *)

LEMMA RoundedGrows ==
  ASSUME NEW A, NEW B, A \subseteq B, NEW q \in Party, NEW c \in Nat, NEW d \in Nat, d <= c,
         RoundedUp(A, q, c)
  PROVE  RoundedUp(B, q, d)
<1>1. N[q] \in Nat
  BY ConstAssumption, Zenon
<1>2. \A i \in Items(q) : BatchStart(i) \in Nat
  BY <1>1, StartOf DEF Items
<1> QED BY <1>2 DEF RoundedUp, Has

LEMMA RoundedNone ==
  ASSUME NEW A, NEW q \in Party
  PROVE  RoundedUp(A, q, 0)
<1>1. N[q] \in Nat
  BY ConstAssumption, Zenon
<1>2. \A i \in Items(q) : BatchStart(i) \in Nat
  BY <1>1, StartOf DEF Items
<1> QED BY <1>2 DEF RoundedUp

\* What MaskPeer has received ends a batch.
LEMMA RoundedMaskPeerFlush ==
  ASSUME LinkInv, StoreInv, DupInv, NEW r \in Party, r \in Targets, MaskPeerFlush(r)
  PROVE  RoundedUp(peer'[r], Other(r), peerIdx[r])
<1>1. PICK q \in Party : q = Other(r)
  BY Others, Zenon
<1>2. pc[r] # "down" /\ peer'[r] = peer[r] \cup peerBuf[r] /\ th[r].peer = "flush"
  BY Zenon DEF MaskPeerFlush, Running, LinkInv, TypeOK, StoreTypes
<1>3. mainRecv[r] \in 1 .. Len(main[q])
  BY <1>1, <1>2, Received DEF LinkInv, ThreadsInStep
<1>4. PICK lo \in Nat : UpTo(q, mainRecv[r]) = BatchEnd(q, lo)
  BY <1>3, BatchTypes DEF UpTo, DupInv, BatchesAligned
<1>5. Covered(peer'[r], UpTo(q, mainRecv[r]))
  BY <1>1, <1>2, Zenon DEF StoreInv, StoresFilled
<1>6. peerIdx[r] \in Nat /\ peerIdx[r] <= UpTo(q, mainRecv[r])
  BY <1>1, Zenon DEF LinkInv, CountsBounded, TypeOK, StoreTypes
<1>7. BatchEnd(q, lo) \in Nat
  BY <1>1, <1>4, NextBatch, Zenon
<1>8. ASSUME NEW i \in Items(q), BatchStart(i) < peerIdx[r] PROVE Has(peer'[r], i)
  <2>1. i \in Nat /\ i < BatchEnd(q, lo)
    BY <1>4, <1>6, <1>8, EndsRounded DEF Items
  <2> QED BY <1>4, <1>5, <1>7, <2>1 DEF Covered
<1> QED BY <1>1, <1>8, Zenon DEF RoundedUp

\* The counts in the checkpoint, its file and the text being written
LEMMA CkptRounded ==
  ASSUME LinkInv, StoreInv, KeyInv, DupInv, [Next]_vars, NEW r \in Party, r \in Targets,
         NEW q \in Party, q = Other(r)
  PROVE  /\ RoundedUp(peer'[r], q, ckpt'[r].peer) /\ RoundedUp(peer'[r], q, image'[r].peer)
         /\ RoundedUp(peer'[r], q, file'[r].ck.peer)
<1> DEFINE Round(c) == RoundedUp(peer'[r], q, c)
<1> DEFINE Goal == Round(ckpt'[r].peer) /\ Round(image'[r].peer) /\ Round(file'[r].ck.peer)
<1>0. /\ ckpt[r] \in Checkpoints /\ image[r] \in Checkpoints /\ file[r].ck \in Checkpoints
      /\ ckpt[r].peer \in Nat /\ image[r].peer \in Nat /\ file[r].ck.peer \in Nat
      /\ CkptTypes
  BY Sizes, Zenon DEF Checkpoints, LinkInv, TypeOK
<1>1. CASE Restart /\ ~Recovery
  <2>1. ckpt'[r] = NoCheckpoint /\ image'[r] = NoCheckpoint /\ file'[r].ck = NoCheckpoint
    BY <1>1, Zenon DEF Restart, LinkInv, CountsBounded, Counts
  <2> QED BY <2>1, RoundedNone DEF NoCheckpoint
<1>2. CASE Recovery \/ ~Restart
  <2>1. peer[r] \subseteq peer'[r]
    BY <1>2, StoresGrow, Zenon
  <2>2. Round(ckpt[r].peer) /\ Round(image[r].peer) /\ Round(file[r].ck.peer) /\ Round(0)
    BY <1>0, <2>1, RoundedGrows, RoundedNone DEF DupInv, CountsRounded
  <2> HIDE DEF Round
  <2>3. ASSUME UNCHANGED <<ckpt[r], image[r], file[r]>> PROVE Goal
    BY <2>2, <2>3, Zenon
  <2>4. ASSUME Restart PROVE Goal
    <3>1. /\ ckpt'[r] = (IF file[r].st = "ok" THEN file[r].ck ELSE NoCheckpoint)
          /\ image'[r] = NoCheckpoint /\ file' = file
      BY <2>4, Zenon DEF Restart
    <3>2. NoCheckpoint.peer = 0
      BY Zenon DEF NoCheckpoint
    <3> QED BY <2>2, <3>1, <3>2, Zenon
  <2>5. ASSUME NEW t, NEW ck, Mark(r, t, ck), Round(ck.peer) PROVE Goal
    <3>1. ckpt'[r] = ck /\ image' = image /\ file' = file
      BY <1>0, <2>5, Zenon DEF Mark, CkptTypes
    <3> QED BY <2>2, <2>5, <3>1, Zenon
  <2>6. ASSUME NEW s, MarkStage(r, s) PROVE Goal
    <3>1. CASE UNCHANGED ckptVars
      BY <2>3, <3>1 DEF ckptVars
    <3>2. CASE Mark(r, "main", [ckpt[r] EXCEPT !.stage = s])
      <4>1. [ckpt[r] EXCEPT !.stage = s].peer = ckpt[r].peer
        BY <1>0, Zenon DEF Checkpoints
      <4> QED BY <2>2, <2>5, <3>2, <4>1, Zenon
    <3> QED BY <2>6, <3>1, <3>2, Zenon DEF MarkStage
  <2>7. ASSUME MaskPeerFlush(r) PROVE Goal
    <3>1. Mark(r, "peer", [stage |-> ONLINE_START, self |-> ckpt[r].self, peer |-> peerIdx[r]])
      BY <2>7, Zenon DEF MaskPeerFlush
    <3>2. Round(peerIdx[r])
      BY <2>7, RoundedMaskPeerFlush, Zenon DEF Round
    <3> QED BY <2>5, <3>1, <3>2
  <2>8. ASSUME RecvDualMaskedFlush(r) PROVE Goal
    <3>1. Mark(r, "recv", [stage |-> ONLINE_START, self |-> selfIdx[r], peer |-> ckpt[r].peer])
      BY <2>8, Zenon DEF RecvDualMaskedFlush
    <3> QED BY <2>2, <2>5, <3>1
  <2>9. ASSUME NEW t \in Savers, Save(r, t) PROVE Goal
    <3>1. CASE SaveOpen(r, t)
      <4>1. ckpt' = ckpt /\ image'[r] = ckpt[r] /\ file'[r].ck = file[r].ck
        BY <1>0, <3>1, Zenon DEF SaveOpen, CkptTypes
      <4> QED BY <2>2, <4>1, Zenon
    <3>2. CASE SaveWrite(r, t)
      <4>1. ckpt' = ckpt /\ image' = image /\ file'[r].ck = image[r]
        BY <1>0, <3>2 DEF SaveWrite, CkptTypes
      <4> QED BY <2>2, <4>1, Zenon
    <3> QED BY <2>9, <3>1, <3>2, Zenon DEF Save
  <2>10. ASSUME Step(r) PROVE Goal
    <3> HIDE DEF Goal
    <3>1. \/ UNCHANGED ckptVars \/ (\E s : MarkStage(r, s))
          \/ MaskPeerFlush(r) \/ RecvDualMaskedFlush(r) \/ \E t \in Savers : Save(r, t)
      BY ZenonT(60), <2>10 DEF Step, MainStep, InitEnd, PreProcess, OnlineStart, OnlineGather, Join,
         OnlineEnd, PostProcess, PostEnd, FinalizeWrite, FinalizeThrows, Finalize, MaskSelf, MaskPeer,
         MaskPeerRecv, MaskPeerDual, RecvSelf, RecvDualMaskedSelf, RecvDualMaskedNext, Crash, Abort
    <3>2. ASSUME UNCHANGED ckptVars PROVE Goal
      BY <2>3, <3>2, Zenon DEF ckptVars
    <3> QED BY <2>6, <2>7, <2>8, <2>9, <3>1, <3>2, Zenon
  <2>11. ASSUME NEW p \in Party, Step(p), p # r PROVE Goal
    BY <2>3, <2>11, Alone, Zenon DEF Local
  <2>12. ASSUME UNCHANGED vars PROVE Goal
    BY <2>3, <2>12, Zenon DEF vars
  <2> HIDE DEF Goal
  <2>13. Goal
    BY <2>4, <2>10, <2>11, <2>12, Steps
  <2> QED BY <2>13, Zenon DEF Goal, Round
<1> QED BY <1>1, <1>2, Zenon

\* The counts that were exchanged are those of runs before this one.
LEMMA RecordRounded ==
  ASSUME LinkInv, DupInv, [Next]_vars, NEW r \in Party, r \in Targets, NEW q \in Party, q = Other(r)
  PROVE  RoundedUp(OldLines(r)', q, record'[r].cnt) /\ RoundedUp(OldLines(r)', q, start'[q])
<1>0. /\ record[r].cnt \in Nat /\ start[q] \in Nat /\ record \in [Party -> [stage : 0 .. 5, cnt : Nat]]
      /\ start \in [Party -> Nat] /\ ckpt[r].peer \in Nat /\ run \in Nat
  BY Sizes, Zenon DEF LinkInv, TypeOK, ControlTypes, Checkpoints
<1>1. CASE Restart
  <2>1. record'[r].cnt = 0 /\ start'[q] = 0
    BY <1>1, Zenon DEF Restart
  <2> QED BY <2>1, RoundedNone, Zenon
<1>2. CASE ~Restart
  <2> DEFINE Goal == RoundedUp(OldLines(r)', q, record'[r].cnt) /\ RoundedUp(OldLines(r)', q, start'[q])
  <2>1. run' = run
    <3>1. ASSUME NEW p \in Party, Step(p) PROVE run' = run
      BY <3>1, Alone, Others DEF Local
    <3>2. ASSUME UNCHANGED vars PROVE run' = run
      BY <3>2, Zenon DEF vars
    <3> QED BY <1>2, <3>1, <3>2, Steps, Zenon
  <2>2. OldLines(r) \subseteq OldLines(r)'
    BY <1>2, <2>1, StoresGrow, Zenon DEF OldLines
  <2>3. RoundedUp(OldLines(r)', q, record[r].cnt) /\ RoundedUp(OldLines(r)', q, start[q])
    BY <1>0, <2>2, RoundedGrows DEF DupInv, CountsRounded
  <2>4. ASSUME record'[r].cnt = record[r].cnt, start'[q] = start[q] PROVE Goal
    BY <2>3, <2>4, Zenon
  <2>5. ASSUME NEW p \in Party, OnlineStart(p) PROVE Goal
    <3>0. start' = start
      BY Zenon, <2>5 DEF OnlineStart
    <3>1. CASE ~Recovery \/ p # r
      <4>1. record'[r] = record[r]
        BY <1>0, <2>5, <3>1, Zenon DEF OnlineStart
      <4> QED BY <2>4, <3>0, <4>1, Zenon
    <3>2. CASE Recovery /\ p = r
      <4>1. record' = [record EXCEPT ![r] = [stage |-> ckpt[r].stage, cnt |-> ckpt[r].peer]]
        BY Zenon, <2>5, <3>2 DEF OnlineStart
      <4>2. record'[r].cnt = ckpt[r].peer
        BY <1>0, <4>1, Zenon
      <4>3. peer[r] \subseteq OldLines(r)
        BY <2>5, <3>2, Zenon DEF OnlineStart, At, DupInv, LinesDated, OldLines
      <4>4. RoundedUp(peer[r], q, ckpt[r].peer)
        BY Zenon DEF DupInv, CountsRounded
      <4>5. RoundedUp(OldLines(r)', q, ckpt[r].peer)
        BY <1>0, <2>2, <4>3, <4>4, RoundedGrows
      <4> QED BY <2>3, <3>0, <4>2, <4>5, Zenon
    <3> QED BY <3>1, <3>2, Zenon
  <2>6. ASSUME NEW p \in Party, OnlineGather(p) PROVE Goal
    <3>1. record' = record /\ (start' = start \/ start' = [start EXCEPT ![p] = Processed(p)])
      BY <2>6, Zenon DEF OnlineGather
    <3>2. CASE start'[q] = start[q]
      BY <2>4, <3>1, <3>2, Zenon
    <3>3. CASE start'[q] = Processed(q)
      <4>1. Processed(q) \in Nat /\ r = Other(q) /\ ckpt[q].self \in Nat
        BY ProcessedBounded, Others, Sizes DEF Checkpoints
      <4>2. Processed(q) <= record[r].cnt
        BY <1>0, <4>1 DEF Processed, Smaller
      <4>3. RoundedUp(OldLines(r)', q, Processed(q))
        BY <1>0, <2>3, <4>1, <4>2, RoundedGrows, Zenon
      <4> QED BY <2>3, <3>1, <3>3, <4>3, Zenon
    <3> QED BY <1>0, <3>1, <3>2, <3>3, Zenon
  <2>7. ASSUME UNCHANGED <<record, start>> PROVE Goal
    BY <2>4, <2>7, Zenon
  <2> HIDE DEF Goal
  <2>8. ASSUME NEW p \in Party, Step(p) PROVE UNCHANGED <<record, start>> \/ OnlineStart(p) \/ OnlineGather(p)
    BY ZenonT(60), <2>8 DEF Step, MainStep, InitEnd, PreProcess, Join, OnlineEnd, PostProcess, PostEnd,
         FinalizeWrite, FinalizeThrows, Finalize, MaskSelf, MaskPeer, MaskPeerRecv, MaskPeerFlush,
         MaskPeerDual, RecvSelf, RecvDualMaskedSelf, RecvDualMaskedFlush, RecvDualMaskedNext,
         Crash, Abort, Save, SaveOpen, SaveWrite
  <2>9. ASSUME UNCHANGED vars PROVE UNCHANGED <<record, start>>
    BY Zenon, <2>9 DEF vars
  <2>10. Goal
    BY <1>2, <2>5, <2>6, <2>7, <2>8, <2>9, Steps
  <2> QED BY <2>10, Zenon DEF Goal
<1> QED BY <1>1, <1>2, Zenon

LEMMA RoundedStep ==
  ASSUME LinkInv, StoreInv, KeyInv, DupInv, [Next]_vars, NEW r \in Party, r \in Targets
  PROVE  CountsRounded(r)'
<1>1. PICK q \in Party : q = Other(r)
  BY Others, Zenon
<1>2. /\ RoundedUp(peer'[r], q, ckpt'[r].peer) /\ RoundedUp(peer'[r], q, image'[r].peer)
      /\ RoundedUp(peer'[r], q, file'[r].ck.peer)
  BY <1>1, CkptRounded, Zenon
<1>3. RoundedUp(OldLines(r)', q, record'[r].cnt) /\ RoundedUp(OldLines(r)', q, start'[q])
  BY <1>1, RecordRounded, Zenon
<1> QED BY <1>1, <1>2, <1>3, Zenon DEF CountsRounded, RoundedUp, Items, BatchStart

-----------------------------------------------------------------------------
(* The join keeps a right line. *)

LEMMA DupInit == Init => DupInv
<1> SUFFICES ASSUME Init, NEW p \in Party PROVE /\ BatchesAligned(p) /\ LinesRight(p) /\ LinesDated(p)
                                                /\ CountsRounded(p)
  BY Zenon DEF DupInv
<1>1. main[p] = <<>> /\ peer[p] = {} /\ peerBuf[p] = {}
  BY Zenon DEF Init
<1>2. PICK q \in Party : q = Other(p)
  BY Others, Zenon
<1>3. ckpt[p].peer = 0 /\ image[p].peer = 0 /\ file[p].ck.peer = 0 /\ record[p].cnt = 0 /\ start[q] = 0
  BY Zenon DEF Init, NoCheckpoint
<1>4. CountsRounded(p)
  BY <1>2, <1>3, RoundedNone, Zenon DEF CountsRounded
<1>5. BatchesAligned(p) /\ LinesRight(p) /\ LinesDated(p)
  BY <1>1 DEF BatchesAligned, LinesRight, LinesDated
<1> QED BY <1>4, <1>5, Zenon

\* Every count of peer items that a restart may use ends a batch or falls short
\* of the items stored, and a line with a shifted count of duplicates follows a
\* right one of an earlier run (ecdh_psi.cc:84-89, 183-189, 462-476).
THEOREM DupInvariant == Spec => []DupInv
<1>1. LinkInv /\ StoreInv /\ KeyInv /\ DupInv /\ [Next]_vars => DupInv'
  <2> SUFFICES ASSUME LinkInv, StoreInv, KeyInv, DupInv, [Next]_vars, NEW p \in Party
               PROVE  /\ BatchesAligned(p)' /\ LinesRight(p)' /\ LinesDated(p)'
                      /\ p \in Targets => CountsRounded(p)'
    BY Zenon DEF DupInv
  <2>1. BatchesAligned(p) /\ LinesDated(p)
    BY Zenon DEF DupInv
  <2>2. BatchesAligned(p)' /\ LinesDated(p)'
    BY <2>1, AlignedStep, DatedStep, Zenon
  <2> QED BY <2>2, RightStep, RoundedStep, Zenon
<1> QED BY <1>1, DupInit, LinkInvariant, StoreInvariant, KeyInvariant, PTL DEF Spec

\* The first line of some lines, by run and then by index, exists.
LEMMA KeptFirst ==
  ASSUME NEW S, S \subseteq Lines, S # {}
  PROVE  Kept(S) \in S /\ \A m \in S : Earlier(Kept(S), m)
<1>1. PICK a \in S : \A m \in S : a.run <= m.run
  <2>1. {l.run : l \in S} \subseteq Nat /\ {l.run : l \in S} # {}
    BY Zenon DEF Lines
  <2>2. PICK n \in {l.run : l \in S} : \A m \in {l.run : l \in S} : n <= m
    BY <2>1, LeastNat, Zenon
  <2> QED BY <2>2, Zenon
<1>2. PICK b \in S : b.run = a.run /\ \A m \in S : m.run = a.run => b.idx <= m.idx
  <2> DEFINE T == {l \in S : l.run = a.run}
  <2>1. {l.idx : l \in T} \subseteq Nat /\ {l.idx : l \in T} # {}
    BY Zenon DEF Lines
  <2>2. PICK n \in {l.idx : l \in T} : \A m \in {l.idx : l \in T} : n <= m
    BY <2>1, LeastNat, Zenon
  <2> QED BY <2>2, Zenon
<1>3. \A m \in S : Earlier(b, m)
  BY <1>1, <1>2 DEF Earlier, Lines
<1> QED BY <1>3, Zenon DEF Kept

\* The line of a peer item that FinalizeAndComputeIndices keeps carries the
\* item's own count of duplicates, also after runs that resumed inside a batch
\* (ecdh_psi.cc:84-89, ec_point_store.cc:98-131).
THEOREM KeptDupRight == Spec => []KeptDupCorrect
<1>1. LinkInv /\ DupInv => KeptDupCorrect
  <2> SUFFICES ASSUME LinkInv, DupInv, NEW p \in Party, NEW i \in Items(Other(p)),
                      {l \in peer[p] \cup peerBuf[p] : l.pos = i} # {}
               PROVE  Kept({l \in peer[p] \cup peerBuf[p] : l.pos = i}).dup = Dup[Other(p)][i]
    BY Zenon DEF KeptDupCorrect
  <2>0. PICK S : S = {l \in peer[p] \cup peerBuf[p] : l.pos = i}
    BY Zenon
  <2>1. S \subseteq Lines
    BY <2>0, Zenon DEF LinkInv, TypeOK, StoreTypes
  <2>2. PICK k \in S : k = Kept(S) /\ \A m \in S : Earlier(k, m)
    <3>1. S # {}
      BY Zenon, <2>0
    <3>2. Kept(S) \in S /\ \A m \in S : Earlier(Kept(S), m)
      BY ONLY <2>1, <3>1, KeptFirst, Zenon
    <3> QED BY Zenon, <3>2
  <2>3. LinesRight(p)
    BY Zenon DEF DupInv
  <2>4. ASSUME NEW m \in peer[p], m.pos = i, m.run < k.run PROVE FALSE
    <3>1. m \in S /\ m.run \in Nat /\ k.run \in Nat
      BY <2>0, <2>1, <2>4 DEF Lines
    <3> QED BY <2>2, <2>4, <3>1 DEF Earlier
  <2>5. k.dup = Dup[Other(p)][i]
    BY <2>0, <2>2, <2>3, <2>4, Zenon DEF LinesRight
  <2> QED BY <2>0, <2>2, <2>5, Zenon
<1> QED BY <1>1, LinkInvariant, DupInvariant, PTL

-----------------------------------------------------------------------------
(* The result of a task that never resumes.                                  *)

FirstFour == {"Init", "PreProcess", "OnlineStart", "OnlineGather"}
BeforeJoin == {"PreProcess", "OnlineStart", "OnlineGather", "RunEcdhPsi", "OnlineSync",
               "OnlineEnd", "PostProcess"}
AfterJoin == {"PostEnd"} \cup PastPostEnd

\* A task that starts again does so without recovery.
LEMMA RestartsFresh ==
  ASSUME Fresh, LinkInv, FreshInv, Restart
  PROVE  ~Recovery
BY ConstAssumption DEF Fresh, FreshInv, Restart, LinkInv, TypeOK, ControlTypes

\* Where a step of p leads.
LEMMA Moves ==
  ASSUME LinkInv, NEW p \in Party, Step(p)
  PROVE  /\ pc'[p] \in FirstFour => pc[p] \in FirstFour
         /\ pc'[p] \in BeforeJoin => pc[p] \in BeforeJoin \/ InitEnd(p)
         /\ pc'[p] \in AfterJoin => \/ pc[p] \in AfterJoin /\ self' = self /\ peer' = peer
                                    \/ PostProcess(p)
<1> USE DEF FirstFour, BeforeJoin, AfterJoin, PastPostEnd, PastFinalizeSync
<1>0. DOMAIN pc = Party
  BY Zenon DEF LinkInv, TypeOK, ControlTypes
<1> DEFINE Goal ==
         /\ pc'[p] \in FirstFour => pc[p] \in FirstFour
         /\ pc'[p] \in BeforeJoin => pc[p] \in BeforeJoin \/ InitEnd(p)
         /\ pc'[p] \in AfterJoin => \/ pc[p] \in AfterJoin /\ self' = self /\ peer' = peer
                                    \/ PostProcess(p)
<1>1. ASSUME NEW place, Goto(p, place) PROVE pc'[p] = place
  BY <1>0, <1>1, Zenon DEF Goto
<1>2. ASSUME InitEnd(p) PROVE Goal
  BY <1>1, <1>2, Zenon DEF InitEnd, At
<1>3. ASSUME PostProcess(p) PROVE Goal
  BY <1>1, <1>3, Zenon DEF PostProcess, At
<1>4. ASSUME PreProcess(p) \/ OnlineStart(p) \/ OnlineGather(p) \/ Join(p) \/ OnlineEnd(p) PROVE Goal
  BY <1>1, <1>4 DEF PreProcess, OnlineStart, OnlineGather, Join, OnlineEnd, At
<1>5. ASSUME PostEnd(p) \/ FinalizeWrite(p) \/ FinalizeThrows(p) \/ Finalize(p) PROVE Goal
  <2>1. self' = self /\ peer' = peer
    BY Zenon, <1>5 DEF PostEnd, FinalizeWrite, FinalizeThrows, Finalize, storeVars
  <2> QED BY <1>1, <1>5, <2>1, Zenon DEF PostEnd, FinalizeWrite, FinalizeThrows, Finalize, At
<1>6. ASSUME Crash(p) \/ Abort(p) PROVE Goal
  BY <1>1, <1>6, Zenon DEF Crash, Abort
<1>7. ASSUME MaskSelf(p) \/ MaskPeer(p) \/ RecvSelf(p) PROVE Goal
  <2>1. pc' = pc /\ pc[p] = "RunEcdhPsi"
    BY <1>7, Zenon DEF MaskSelf, MaskPeer, MaskPeerRecv, MaskPeerFlush, MaskPeerDual, RecvSelf,
         RecvDualMaskedSelf, RecvDualMaskedFlush, RecvDualMaskedNext, Running
  <2> QED BY <2>1, Zenon
<1>8. ASSUME NEW t \in Savers, Save(p, t) PROVE Goal
  <2>1. pc' = pc /\ self' = self /\ peer' = peer
    BY Zenon, <1>8 DEF Save, SaveOpen, SaveWrite, storeVars
  <2> QED BY <2>1
<1> HIDE DEF Goal
<1>9. Goal
  BY <1>2, <1>3, <1>4, <1>5, <1>6, <1>7, <1>8 DEF Step, MainStep
<1> QED BY <1>9, Zenon DEF Goal

\* Only two steps touch the index file.
LEMMA OutTouched ==
  ASSUME NEW p \in Party, Step(p), ~InitEnd(p), ~PostProcess(p)
  PROVE  out' = out
BY ZenonT(60) DEF Step, MainStep, PreProcess, OnlineStart, OnlineGather, Join, OnlineEnd,
   PostEnd, FinalizeWrite, FinalizeThrows, Finalize, MaskSelf, MaskPeer, MaskPeerRecv, MaskPeerFlush,
   MaskPeerDual, RecvSelf, RecvDualMaskedSelf, RecvDualMaskedFlush, RecvDualMaskedNext,
   Crash, Abort, Save, SaveOpen, SaveWrite

\* The counts of a checkpoint move only with a flush.
LEMMA CountsKept ==
  ASSUME LinkInv, NEW p \in Party, Step(p), ~MaskPeerFlush(p), ~RecvDualMaskedFlush(p)
  PROVE  ckpt'[p].self = ckpt[p].self /\ ckpt'[p].peer = ckpt[p].peer
<1>0. ckpt \in [Party -> Checkpoints] /\ ckpt[p] \in Checkpoints
  BY DEF LinkInv, TypeOK, CkptTypes
<1>1. ckpt' = ckpt \/ \E s : MarkStage(p, s)
  BY ZenonT(60) DEF Step, MainStep, InitEnd, PreProcess, OnlineStart, OnlineGather, Join,
         OnlineEnd, PostProcess, PostEnd, FinalizeWrite, FinalizeThrows, Finalize, MaskSelf, MaskPeer,
         MaskPeerRecv, MaskPeerDual, RecvSelf, RecvDualMaskedSelf, RecvDualMaskedNext, Crash, Abort,
         Save, SaveOpen, SaveWrite, ckptVars
<1>2. ASSUME NEW s, MarkStage(p, s)
      PROVE  ckpt' = ckpt \/ ckpt'[p] = [ckpt[p] EXCEPT !.stage = s]
  BY <1>0, <1>2 DEF MarkStage, Mark, ckptVars
<1> QED BY <1>0, <1>1, <1>2, Zenon DEF Checkpoints

-----------------------------------------------------------------------------
(* Lists are sent from their first item on. *)

LEMMA FreshStarts ==
  ASSUME Fresh, LinkInv, FreshInv, [Next]_vars, NEW r \in Party
  PROVE  start'[r] = 0 /\ record'[r].cnt = 0
<1>0. /\ record \in [Party -> [stage : 0 .. 5, cnt : Nat]] /\ start \in [Party -> Nat]
      /\ start[r] = 0 /\ record[r].cnt = 0
  BY Zenon DEF FreshInv, LinkInv, TypeOK, ControlTypes
<1>1. ASSUME Restart PROVE start'[r] = 0 /\ record'[r].cnt = 0
  BY <1>1, Zenon DEF Restart
<1>2. ASSUME NEW p \in Party, OnlineStart(p) PROVE start'[r] = 0 /\ record'[r].cnt = 0
  <2>1. start' = start /\ pc[p] = "OnlineStart"
    BY <1>2, Zenon DEF OnlineStart, At
  <2>2. ckpt[p].peer = 0
    BY <2>1, Zenon DEF FreshInv
  <2>3. record' = record \/ record' = [record EXCEPT ![p] = [stage |-> ckpt[p].stage, cnt |-> ckpt[p].peer]]
    BY Zenon, <1>2 DEF OnlineStart
  <2> QED BY <1>0, <2>1, <2>2, <2>3
<1>3. ASSUME NEW p \in Party, OnlineGather(p) PROVE start'[r] = 0 /\ record'[r].cnt = 0
  <2>1. pc[p] = "OnlineGather" /\ record' = record
    BY <1>3, Zenon DEF OnlineGather, At
  <2>2. ckpt[p].self = 0 /\ record[Other(p)].cnt = 0
    BY <2>1, Others, Zenon DEF FreshInv
  <2>3. Processed(p) = 0
    BY <2>2, Zenon DEF Processed, Smaller
  <2>4. start' = start \/ start' = [start EXCEPT ![p] = 0]
    BY <1>3, <2>3, Zenon DEF OnlineGather
  <2> QED BY <1>0, <2>1, <2>4, Zenon
<1>4. ASSUME UNCHANGED <<record, start>> PROVE start'[r] = 0 /\ record'[r].cnt = 0
  BY <1>0, <1>4, Zenon
<1>5. ASSUME NEW p \in Party, Step(p) PROVE UNCHANGED <<record, start>> \/ OnlineStart(p) \/ OnlineGather(p)
  BY ZenonT(60), <1>5 DEF Step, MainStep, InitEnd, PreProcess, Join, OnlineEnd, PostProcess, PostEnd,
       FinalizeWrite, FinalizeThrows, Finalize, MaskSelf, MaskPeer, MaskPeerRecv, MaskPeerFlush,
       MaskPeerDual, RecvSelf, RecvDualMaskedSelf, RecvDualMaskedFlush, RecvDualMaskedNext,
       Crash, Abort, Save, SaveOpen, SaveWrite
<1>6. ASSUME UNCHANGED vars PROVE UNCHANGED <<record, start>>
  BY Zenon, <1>6 DEF vars
<1> QED BY <1>1, <1>2, <1>3, <1>4, <1>5, <1>6, Steps, Zenon

LEMMA FreshCounts ==
  ASSUME Fresh, LinkInv, FreshInv, [Next]_vars, NEW r \in Party, pc'[r] \in FirstFour
  PROVE  ckpt'[r].self = 0 /\ ckpt'[r].peer = 0
<1>0. pc[r] \in FirstFour => ckpt[r].self = 0 /\ ckpt[r].peer = 0
  BY Zenon DEF FreshInv, FirstFour
<1>1. ASSUME Restart PROVE ckpt'[r].self = 0 /\ ckpt'[r].peer = 0
  <2>1. ckpt'[r] = NoCheckpoint
    BY <1>1, RestartsFresh, Zenon DEF Restart, LinkInv, CountsBounded, Counts
  <2> QED BY <2>1 DEF NoCheckpoint
<1>2. ASSUME Step(r) PROVE ckpt'[r].self = 0 /\ ckpt'[r].peer = 0
  <2>1. pc[r] \in FirstFour
    BY <1>2, Moves
  <2>2. ~MaskPeerFlush(r) /\ ~RecvDualMaskedFlush(r)
    BY <2>1, Zenon DEF MaskPeerFlush, RecvDualMaskedFlush, Running, FirstFour
  <2> QED BY <1>0, <1>2, <2>1, <2>2, CountsKept
<1>3. ASSUME NEW p \in Party, Step(p), p # r PROVE ckpt'[r].self = 0 /\ ckpt'[r].peer = 0
  <2>1. ckpt'[r] = ckpt[r] /\ pc'[r] = pc[r]
    BY <1>3, Alone, Zenon DEF Local
  <2> QED BY <1>0, <2>1
<1>4. ASSUME UNCHANGED vars PROVE ckpt'[r].self = 0 /\ ckpt'[r].peer = 0
  BY <1>0, <1>4 DEF vars
<1> QED BY <1>1, <1>2, <1>3, <1>4, Steps, Zenon

-----------------------------------------------------------------------------
(* The counter of the store of own items counts positions. *)

LEMMA IndexedReceive ==
  ASSUME LinkInv, NEW r \in Party, IndexedByPosition(r), RecvDualMaskedSelf(r)
  PROVE  IndexedByPosition(r)'
<1>1. PICK k \in Nat : k = dualRecv[r]
  BY Positions, Zenon
<1>2. PICK b : b = dual[Other(r)][k + 1]
  BY Zenon
<1>3. /\ dualRecv' = [dualRecv EXCEPT ![r] = @ + 1] /\ dualRecv[r] < Len(dual[Other(r)])
      /\ self' = self /\ start' = start /\ main' = main /\ run' = run
      /\ selfBuf' = [selfBuf EXCEPT ![r] = @ \cup SelfLines(r, b)]
      /\ selfIdx' = [selfIdx EXCEPT ![r] = @ + (b.hi - b.lo)]
  BY Zenon, <1>1, <1>2 DEF RecvDualMaskedSelf, taskVars
<1>4. PICK lo, hi \in Nat : lo = UpTo(r, k) /\ hi = UpTo(r, k + 1)
  BY Zenon, <1>1, <1>3, NextBatch
<1>5. b.lo = lo /\ b.hi = hi /\ lo <= hi
  BY Zenon, <1>1, <1>2, <1>3, <1>4, NextBatch
<1>6. selfIdx[r] = lo
  BY <1>1, <1>4 DEF IndexedByPosition
<1>7. selfIdx'[r] = hi
  <2>1. selfIdx'[r] = selfIdx[r] + (b.hi - b.lo)
    BY <1>3, Zenon DEF LinkInv, TypeOK, StoreTypes
  <2> QED BY <1>5, <1>6, <2>1
<1>8. UpTo(r, dualRecv[r])' = hi
  <2>1. dualRecv'[r] = k + 1
    BY Zenon, <1>1, <1>3 DEF LinkInv, TypeOK, LinkTypes
  <2>2. UpTo(r, k + 1)' = hi
    BY <1>3, <1>4, Zenon DEF UpTo
  <2> QED BY <2>1, <2>2
<1>9. ASSUME NEW l \in SelfLines(r, b)
      PROVE  l.run = run /\ l.dup = 0 /\ l.idx = l.pos /\ l.pos < hi
  <2>1. PICK i \in lo .. hi - 1 : l.run = run /\ l.dup = 0 /\ l.idx = lo + (i - lo) /\ l.pos = i
    BY <1>5, <1>6, <1>9 DEF SelfLines
  <2> QED BY <2>1
<1>10. ASSUME NEW l \in self[r] \cup selfBuf[r]
       PROVE  l.run = run /\ l.dup = 0 /\ l.idx = l.pos /\ l.pos < hi
  <2>1. l.run = run /\ l.dup = 0 /\ l.idx = l.pos /\ l.pos < lo
    BY <1>1, <1>4, Zenon DEF IndexedByPosition
  <2>2. l.pos \in Nat
    BY DEF LinkInv, TypeOK, StoreTypes, Lines
  <2> QED BY <1>5, <2>1, <2>2
<1>11. self'[r] \cup selfBuf'[r] = (self[r] \cup selfBuf[r]) \cup SelfLines(r, b)
  <2>1. selfBuf'[r] = selfBuf[r] \cup SelfLines(r, b)
    BY Zenon, <1>3 DEF LinkInv, TypeOK, StoreTypes
  <2> QED BY Zenon, <1>3, <2>1
<1>12. \A l \in self'[r] \cup selfBuf'[r] : l.run = run' /\ l.dup = 0 /\ l.idx = l.pos /\ l.pos < hi
  BY <1>3, <1>9, <1>10, <1>11
<1> QED BY <1>7, <1>8, <1>12, Zenon DEF IndexedByPosition

\* Only RecvDualMaskedSelf adds lines of own items or moves their counter.
LEMMA SelfLinesAdded ==
  ASSUME LinkInv, NEW r \in Party, NEW p \in Party, Step(p), ~RecvDualMaskedSelf(r)
  PROVE  /\ self'[r] \cup selfBuf'[r] \subseteq self[r] \cup selfBuf[r]
         /\ selfIdx'[r] = selfIdx[r] /\ run' = run
<1>1. run' = run
  BY Alone, Others, Zenon DEF Local
<1>2. selfIdx'[r] = selfIdx[r]
  <2>1. selfIdx' = selfIdx \/ RecvDualMaskedSelf(p)
    BY ZenonT(60) DEF Step, MainStep, InitEnd, PreProcess, OnlineStart, OnlineGather, Join, OnlineEnd,
       PostProcess, PostEnd, FinalizeWrite, FinalizeThrows, Finalize, MaskSelf, MaskPeer, MaskPeerRecv,
       MaskPeerFlush, MaskPeerDual, RecvSelf, RecvDualMaskedFlush, RecvDualMaskedNext,
       Crash, Abort, Save, SaveOpen, SaveWrite, storeVars
  <2>2. ASSUME RecvDualMaskedSelf(p), p # r PROVE selfIdx'[r] = selfIdx[r]
    <3>1. \E c : selfIdx' = [selfIdx EXCEPT ![p] = c]
      BY Zenon, <2>2 DEF RecvDualMaskedSelf
    <3> QED BY <2>2, <3>1 DEF LinkInv, TypeOK, StoreTypes
  <2> QED BY <2>1, <2>2
<1>3. CASE p # r
  <2>1. self'[r] = self[r] /\ selfBuf'[r] = selfBuf[r]
    BY <1>3, Alone, Zenon DEF Local
  <2> QED BY <1>1, <1>2, <2>1
<1>4. CASE p = r /\ (MaskSelf(r) \/ MaskPeerRecv(r) \/ MaskPeerDual(r))
  <2>1. self' = self /\ selfBuf' = selfBuf
    BY Zenon, <1>4 DEF MaskSelf, MaskPeerRecv, MaskPeerDual, storeVars
  <2> QED BY <1>1, <1>2, <2>1
<1>5. CASE p = r /\ ~(MaskSelf(r) \/ MaskPeerRecv(r) \/ MaskPeerDual(r))
  BY <1>1, <1>2, <1>5, NothingAdded
<1> QED BY <1>3, <1>4, <1>5, Zenon

LEMMA IndexedStep ==
  ASSUME Fresh, LinkInv, KeyInv, FreshInv, [Next]_vars, NEW r \in Party
  PROVE  IndexedByPosition(r)'
<1>0. IndexedByPosition(r) /\ start[r] = 0 /\ start'[r] = 0
  BY FreshStarts, Zenon DEF FreshInv
<1>1. ASSUME /\ selfIdx'[r] = selfIdx[r] /\ run' = run
             /\ UpTo(r, dualRecv[r])' = UpTo(r, dualRecv[r])
             /\ self'[r] \cup selfBuf'[r] \subseteq self[r] \cup selfBuf[r]
      PROVE  IndexedByPosition(r)'
  BY <1>0, <1>1, Zenon DEF IndexedByPosition
<1>2. CASE Restart
  <2>1. selfIdx'[r] = 0 /\ dualRecv'[r] = 0
    BY <1>2, Zenon DEF Restart
  <2>2. UpTo(r, dualRecv[r])' = 0
    BY <1>0, <2>1 DEF UpTo
  <2>3. self'[r] = {} /\ selfBuf'[r] = {}
    BY <1>2, RestartsFresh, FreshRestart, Zenon DEF Untouched
  <2> QED BY <2>1, <2>2, <2>3 DEF IndexedByPosition
<1>3. CASE UNCHANGED vars
  <2>1. UNCHANGED <<selfIdx, run, dualRecv, start, main, self, selfBuf>>
    BY <1>3, Zenon DEF vars
  <2>2. UpTo(r, dualRecv[r])' = UpTo(r, dualRecv[r])
    BY <2>1 DEF UpTo
  <2> QED BY <1>1, <2>1, <2>2
<1>4. ASSUME NEW p \in Party, Step(p), ~Restart PROVE IndexedByPosition(r)'
  <2>1. CASE RecvDualMaskedSelf(r)
    BY <1>0, <2>1, IndexedReceive
  <2>2. CASE ~RecvDualMaskedSelf(r)
    <3>1. UpTo(r, dualRecv[r])' = UpTo(r, dualRecv[r])
      <4>1. ASSUME NEW q \in Party, OnlineGather(q) PROVE UpTo(r, dualRecv[r])' = UpTo(r, dualRecv[r])
        <5>1. main' = main /\ dualRecv' = dualRecv
          BY <4>1 DEF OnlineGather
        <5> QED BY <1>0, <5>1, Zenon DEF UpTo
      <4> QED BY <1>4, <2>2, <4>1, ReachSame
    <3> QED BY <1>1, <1>4, <2>2, <3>1, SelfLinesAdded, Zenon
  <2> QED BY <2>1, <2>2, Zenon
<1> QED BY <1>2, <1>3, <1>4, Steps, Zenon

-----------------------------------------------------------------------------
(* The index file holds the join. *)

LEMMA JoinStep ==
  ASSUME LinkInv, FreshInv, [Next]_vars, NEW r \in Party
  PROVE  JoinWritten(r)' /\ DOMAIN out' = Party
<1>0. JoinWritten(r) /\ DOMAIN out = Party
  BY Zenon DEF FreshInv
<1> USE DEF BeforeJoin, AfterJoin
<1>1. ASSUME NEW S, NEW P, S = self'[r], P = peer'[r]
      PROVE  Intersect(r, self[r], peer[r])' = Intersect(r, S, P)
  BY <1>1 DEF Intersect, Matches, Kept, Earlier
<1>2. ASSUME out'[r] = out[r], pc'[r] \in BeforeJoin => pc[r] \in BeforeJoin,
             pc'[r] \in AfterJoin => pc[r] \in AfterJoin /\ self'[r] = self[r] /\ peer'[r] = peer[r]
      PROVE  JoinWritten(r)'
  BY <1>0, <1>1, <1>2, Zenon DEF JoinWritten
<1>3. CASE Restart
  <2>1. pc'[r] = "Init" /\ out' = out
    BY <1>3, Zenon DEF Restart
  <2> QED BY <1>0, <2>1 DEF JoinWritten, PastPostEnd, PastFinalizeSync
<1>4. CASE UNCHANGED vars
  <2>1. UNCHANGED <<out, pc, self, peer>>
    BY <1>4, Zenon DEF vars
  <2> QED BY <1>0, <1>2, <2>1
<1>5. ASSUME NEW p \in Party, Step(p), p # r PROVE JoinWritten(r)' /\ DOMAIN out' = Party
  <2>1. pc'[r] = pc[r] /\ self'[r] = self[r] /\ peer'[r] = peer[r]
    BY <1>5, Alone, Zenon DEF Local
  <2>2. out' = out \/ \E o : out' = [out EXCEPT ![p] = o]
    BY <1>5, OutTouched DEF InitEnd, PostProcess
  <2>3. out'[r] = out[r] /\ DOMAIN out' = Party
    BY <1>0, <1>5, <2>2, Zenon
  <2> QED BY <1>2, <2>1, <2>3
<1>6. ASSUME InitEnd(r) PROVE JoinWritten(r)' /\ DOMAIN out' = Party
  <2>1. out'[r] = {} /\ pc'[r] = "PreProcess" /\ DOMAIN out' = Party
    BY <1>0, <1>6, Zenon DEF InitEnd, Goto, LinkInv, TypeOK, ControlTypes
  <2> QED BY <2>1 DEF JoinWritten, PastPostEnd, PastFinalizeSync
<1>7. ASSUME PostProcess(r) PROVE JoinWritten(r)' /\ DOMAIN out' = Party
  <2>1. /\ pc[r] = "PostProcess" /\ pc'[r] = "PostEnd"
        /\ out' = [out EXCEPT ![r] = @ \cup Intersect(r, self'[r], peer'[r])]
    BY <1>7, Zenon DEF PostProcess, At, Goto, LinkInv, TypeOK, ControlTypes
  <2>2. out[r] = {}
    BY <1>0, <2>1 DEF JoinWritten
  <2>3. out'[r] = Intersect(r, self'[r], peer'[r]) /\ DOMAIN out' = Party
    BY <1>0, <2>1, <2>2, Zenon
  <2>4. out'[r] = Intersect(r, self[r], peer[r])'
    BY <1>1, <2>3, Zenon
  <2> QED BY <2>1, <2>3, <2>4 DEF JoinWritten
<1>8. ASSUME Step(r), ~InitEnd(r), ~PostProcess(r) PROVE JoinWritten(r)' /\ DOMAIN out' = Party
  <2>1. out' = out
    BY <1>8, OutTouched
  <2> QED BY <1>0, <1>2, <1>8, <2>1, Moves, Zenon
<1> QED BY <1>3, <1>4, <1>5, <1>6, <1>7, <1>8, Steps, Zenon

LEMMA FreshInit == Init => FreshInv
<1> SUFFICES ASSUME Init PROVE FreshInv
  BY Zenon
<1>1. run >= 1 /\ DOMAIN out = Party
  BY DEF Init
<1> SUFFICES ASSUME NEW p \in Party
             PROVE  /\ start[p] = 0 /\ record[p].cnt = 0 /\ ckpt[p].self = 0 /\ ckpt[p].peer = 0
                    /\ IndexedByPosition(p) /\ JoinWritten(p)
  BY <1>1, Zenon DEF FreshInv
<1>2. start[p] = 0 /\ record[p].cnt = 0 /\ ckpt[p].self = 0 /\ ckpt[p].peer = 0
  BY Zenon DEF Init, NoCheckpoint
<1>3. /\ selfIdx[p] = 0 /\ dualRecv[p] = 0 /\ self[p] = {} /\ selfBuf[p] = {} /\ out[p] = {}
      /\ pc[p] = "Init"
  BY Zenon DEF Init
<1>4. UpTo(p, dualRecv[p]) = 0
  BY <1>2, <1>3, Zenon DEF UpTo
<1>5. IndexedByPosition(p)
  BY <1>3, <1>4, Zenon DEF IndexedByPosition
<1>6. JoinWritten(p)
  BY <1>3 DEF JoinWritten, PastPostEnd, PastFinalizeSync
<1> QED BY <1>2, <1>5, <1>6, Zenon

LEMMA FreshStep ==
  ASSUME Fresh
  PROVE  LinkInv /\ KeyInv /\ FreshInv /\ [Next]_vars => FreshInv'
<1> SUFFICES ASSUME LinkInv, KeyInv, FreshInv, [Next]_vars PROVE FreshInv'
  OBVIOUS
<1>1. run' >= 1
  <2>1. run \in Nat /\ run >= 1
    BY Zenon DEF FreshInv, LinkInv, TypeOK, ControlTypes
  <2>2. CASE Restart
    BY <2>1, <2>2 DEF Restart
  <2>3. CASE UNCHANGED vars
    BY <2>1, <2>3, Zenon DEF vars
  <2>4. ASSUME NEW p \in Party, Step(p) PROVE run' >= 1
    BY <2>1, <2>4, Alone, Others DEF Local
  <2> QED BY <2>2, <2>3, <2>4, Steps
<1>2. DOMAIN out' = Party
  BY JoinStep, Others, Zenon DEF Party
<1>3. ASSUME NEW p \in Party
      PROVE  /\ start'[p] = 0 /\ record'[p].cnt = 0
             /\ pc'[p] \in FirstFour => ckpt'[p].self = 0 /\ ckpt'[p].peer = 0
             /\ IndexedByPosition(p)' /\ JoinWritten(p)'
  BY FreshStarts, FreshCounts, IndexedStep, JoinStep
<1> QED BY <1>1, <1>2, <1>3, Zenon DEF FreshInv, FirstFour

\* In a task that never resumes, every list is sent from its first item on, the
\* index of a line is its item's position, and the index file holds the join of
\* the two stores (ecdh_psi.cc:462-476, receiver.cc:127-130).
THEOREM FreshInvariant ==
  ASSUME Fresh
  PROVE  Spec => []FreshInv
BY FreshStep, FreshInit, LinkInvariant, KeyInvariant, PTL DEF Spec

-----------------------------------------------------------------------------
(* The join of two complete stores is the intersection. *)

\* What holds when a party has written its result
Joined(p) ==
  /\ Covered(self[p], N[p]) /\ Covered(peer[p], N[Other(p)])
  /\ \A s, t \in self[p] : s.pos = t.pos => s = t
  /\ \A s \in self[p] : s.pos \in Items(p) /\ s.idx = s.pos
  /\ \A m \in peer[p] : m.pos \in Items(Other(p))
  /\ \A s \in self[p], m \in peer[p] : m.own = s.via /\ m.via = s.own
  /\ \A i \in Items(Other(p)) : 
       LET lines == {l \in peer[p] : l.pos = i} IN lines # {} => Kept(lines).dup = Dup[Other(p)][i]

\* The positions of the keys that both have
Common(p) == {i \in Items(p) : \E j \in Items(Other(p)) : Key[p][i] = Key[Other(p)][j]}

\* The line of one item is joined with the lines of the item with its key.
LEMMA MatchesOf ==
  ASSUME NEW p \in Party, Joined(p), NEW s \in self[p], NEW j \in Items(Other(p)),
         Key[p][s.pos] = Key[Other(p)][j]
  PROVE  /\ Matches(p, s, peer[p]) = {l \in peer[p] : l.pos = j}
         /\ Matches(p, s, peer[p]) # {}
         /\ Kept(Matches(p, s, peer[p])).dup = Dup[Other(p)][j]
<1>1. PICK q \in Party : q = Other(p)
  BY Others, Zenon
<1>2. \A m \in peer[p] : Key[q][m.pos] = Key[p][s.pos] <=> m.pos = j
  BY <1>1, UniqueKeys DEF Joined, Items
<1>3. Matches(p, s, peer[p]) = {l \in peer[p] : l.pos = j}
  BY <1>1, <1>2, Zenon DEF Matches, Joined
<1>4. PICK S : S = {l \in peer[p] : l.pos = j}
  BY Zenon
<1>5. S # {}
  <2>1. N[q] \in Nat /\ j \in 0 .. N[q] - 1
    BY <1>1, ConstAssumption, Zenon DEF Items
  <2>2. Has(peer[p], j)
    BY <1>1, <2>1, Zenon DEF Joined, Covered
  <2> QED BY <1>4, <2>2, Zenon DEF Has
<1>6. Kept(S).dup = Dup[Other(p)][j]
  <2>1. {l \in peer[p] : l.pos = j} # {} =>
          Kept({l \in peer[p] : l.pos = j}).dup = Dup[Other(p)][j]
    BY Zenon DEF Joined
  <2> QED BY Zenon, <1>4, <1>5, <2>1
<1> QED BY Zenon, <1>3, <1>4, <1>5, <1>6

\* What is written for an item: its position and the count of duplicates of the
\* item of the peer with its key.
LEMMA WrittenFor ==
  ASSUME NEW p \in Party, Joined(p), NEW i \in Common(p), NEW j \in Items(Other(p)),
         Key[p][i] = Key[Other(p)][j]
  PROVE  \E s \in self[p] : /\ s.pos = i /\ s.idx = i
                            /\ [line |-> s, dup |-> Dup[Other(p)][j]] \in Intersect(p, self[p], peer[p])
<1>1. i \in Items(p) /\ N[p] \in Nat
  BY ConstAssumption, Zenon DEF Common
<1>2. PICK s \in self[p] : s.pos = i
  BY <1>1, Zenon DEF Joined, Covered, Has, Items
<1>3. /\ Matches(p, s, peer[p]) # {}
      /\ Kept(Matches(p, s, peer[p])).dup = Dup[Other(p)][j]
  BY <1>2, MatchesOf
<1>4. [line |-> s, dup |-> Dup[Other(p)][j]] \in Intersect(p, self[p], peer[p])
  BY Zenon, <1>3 DEF Intersect
<1> QED BY <1>2, <1>4, Zenon DEF Joined

LEMMA WrittenOnly ==
  ASSUME NEW p \in Party, Joined(p), NEW o \in Intersect(p, self[p], peer[p])
  PROVE  \E s \in self[p] : \E j \in Items(Other(p)) :
           /\ s.pos \in Common(p) /\ Key[p][s.pos] = Key[Other(p)][j]
           /\ o = [line |-> s, dup |-> Dup[Other(p)][j]]
<1>1. PICK s \in self[p] : /\ Matches(p, s, peer[p]) # {}
                           /\ o = [line |-> s, dup |-> Kept(Matches(p, s, peer[p])).dup]
  BY Zenon DEF Intersect
<1>2. PICK m \in peer[p] : Key[Other(p)][m.pos] = Key[p][s.pos]
  BY <1>1, Zenon DEF Matches
<1>3. s.pos \in Items(p) /\ m.pos \in Items(Other(p))
  BY DEF Joined
<1>4. Kept(Matches(p, s, peer[p])).dup = Dup[Other(p)][m.pos]
  BY <1>2, <1>3, MatchesOf
<1>5. s.pos \in Common(p)
  BY <1>2, <1>3, Zenon DEF Common
<1> QED BY <1>1, <1>2, <1>3, <1>4, <1>5

INSTANCE FunctionTheorems
INSTANCE FiniteSetTheorems

\* Two sets that the positions of the common keys number have one size.
LEMMA SameSize ==
  ASSUME NEW S, NEW T, NEW D, IsFiniteSet(D), NEW f \in [D -> S], NEW g \in [D -> T],
         \A a, b \in D : f[a] = f[b] => a = b, \A s \in S : \E a \in D : f[a] = s,
         \A a, b \in D : g[a] = g[b] => a = b, \A t \in T : \E a \in D : g[a] = t
  PROVE  Cardinality(S) = Cardinality(T)
<1>1. f \in Bijection(D, S) /\ g \in Bijection(D, T)
  BY Fun_IsBij, Zenon
<1>2. ExistsBijection(D, S) /\ ExistsBijection(D, T)
  BY <1>1, Zenon DEF ExistsBijection
<1> QED BY <1>2, FS_Bijection, Zenon

\* The join of the stores is what the party has to see, each index once.
LEMMA JoinedExact ==
  ASSUME NEW p \in Party, Joined(p), out[p] = Intersect(p, self[p], peer[p])
  PROVE  /\ {<<o.line.idx, o.dup>> : o \in out[p]} = Expected(p)
         /\ Cardinality(out[p]) = Cardinality(Expected(p))
<1>1. PICK q \in Party : q = Other(p)
  BY Others, Zenon
<1>2. PICK D : D = Common(p)
  BY Zenon
<1>3. PICK mate : /\ mate \in [D -> Items(q)]
                  /\ \A i \in D : Key[p][i] = Key[q][mate[i]]
  <2>1. \A i \in D : \E j \in Items(q) : Key[p][i] = Key[q][j]
    BY <1>1, <1>2, Zenon DEF Common
  <2> DEFINE c == [i \in D |-> CHOOSE j \in Items(q) : Key[p][i] = Key[q][j]]
  <2>2. c \in [D -> Items(q)]
    BY <2>1, Zenon
  <2>3. \A i \in D : Key[p][i] = Key[q][c[i]]
    BY <2>1
  <2> HIDE DEF c
  <2> QED BY <2>2, <2>3, Zenon
<1>4. \A i \in D : \A j \in Items(q) : Key[p][i] = Key[q][j] => j = mate[i]
  BY <1>3, UniqueKeys DEF Items
<1>5. PICK line : /\ line \in [D -> self[p]]
                  /\ \A i \in D : /\ line[i].pos = i /\ line[i].idx = i
                                  /\ [line |-> line[i], dup |-> Dup[q][mate[i]]] \in out[p]
  <2>1. ASSUME NEW i \in D
        PROVE  \E s \in self[p] : /\ s.pos = i /\ s.idx = i
                                  /\ [line |-> s, dup |-> Dup[q][mate[i]]] \in out[p]
    <3>1. i \in Common(p) /\ mate[i] \in Items(q) /\ Key[p][i] = Key[q][mate[i]]
      BY <1>2, <1>3, Zenon
    <3>2. \E s \in self[p] : /\ s.pos = i /\ s.idx = i
             /\ [line |-> s, dup |-> Dup[q][mate[i]]] \in Intersect(p, self[p], peer[p])
      BY Zenon, <1>1, <3>1, WrittenFor
    <3> QED BY Zenon, <3>2
  <2> DEFINE w == [i \in D |-> CHOOSE s \in self[p] :
                      /\ s.pos = i /\ s.idx = i
                      /\ [line |-> s, dup |-> Dup[q][mate[i]]] \in out[p]]
  <2>2. w \in [D -> self[p]]
    BY <2>1, Zenon
  <2>3. \A i \in D : /\ w[i].pos = i /\ w[i].idx = i
                     /\ [line |-> w[i], dup |-> Dup[q][mate[i]]] \in out[p]
    BY <2>1, Zenon
  <2> HIDE DEF w
  <2> QED BY <2>2, <2>3, Zenon
<1> DEFINE f == [i \in D |-> [line |-> line[i], dup |-> Dup[q][mate[i]]]]
<1> DEFINE g == [i \in D |-> <<i, Dup[q][mate[i]]>>]
<1>6. f \in [D -> out[p]] /\ \A a, b \in D : f[a] = f[b] => a = b
  <2>1. f \in [D -> out[p]]
    BY <1>5, Zenon
  <2>2. \A a \in D : f[a].line = line[a]
    OBVIOUS
  <2> QED BY <1>5, <2>1, <2>2
<1>7. \A o \in out[p] : \E a \in D : f[a] = o
  <2> SUFFICES ASSUME NEW o \in out[p] PROVE \E a \in D : f[a] = o
    OBVIOUS
  <2>1. PICK s \in self[p] : \E j \in Items(q) :
           /\ s.pos \in D /\ Key[p][s.pos] = Key[q][j]
           /\ o = [line |-> s, dup |-> Dup[q][j]]
    BY <1>1, <1>2, WrittenOnly
  <2>2. PICK j \in Items(q) : /\ Key[p][s.pos] = Key[q][j]
                              /\ o = [line |-> s, dup |-> Dup[q][j]]
    BY <2>1, Zenon
  <2>3. j = mate[s.pos]
    BY <1>4, <2>1, <2>2
  <2>4. s = line[s.pos]
    <3>1. \A x, y \in self[p] : x.pos = y.pos => x = y
      BY Zenon DEF Joined
    <3>2. line[s.pos] \in self[p] /\ line[s.pos].pos = s.pos
      BY <1>5, <2>1, Zenon
    <3> QED BY Zenon, <3>1, <3>2
  <2>5. f[s.pos] = o
    BY <2>1, <2>2, <2>3, <2>4
  <2> QED BY <2>1, <2>5, Zenon
<1>8. Expected(p) = {<<i, Dup[q][mate[i]]>> : i \in D}
  <2>1. ASSUME NEW e \in Expected(p) PROVE \E i \in D : e = <<i, Dup[q][mate[i]]>>
    <3>1. PICK m \in Items(p) \X Items(q) : Key[p][m[1]] = Key[q][m[2]] /\ e = <<m[1], Dup[q][m[2]]>>
      <4>1. \E m \in {ij \in Items(p) \X Items(q) : Key[p][ij[1]] = Key[q][ij[2]]} :
              e = <<m[1], Dup[q][m[2]]>>
        BY <1>1, <2>1, Zenon DEF Expected
      <4> QED BY <4>1
    <3>2. m[1] \in D /\ m[2] = mate[m[1]]
      <4>1. m[1] \in Items(p) /\ m[2] \in Items(q)
        OBVIOUS
      <4>2. m[1] \in D
        BY <1>1, <1>2, <3>1, <4>1, Zenon DEF Common
      <4> QED BY <1>4, <3>1, <4>1, <4>2
    <3> QED BY <3>1, <3>2, Zenon
  <2>2. ASSUME NEW i \in D PROVE <<i, Dup[q][mate[i]]>> \in Expected(p)
    <3>1. i \in Items(p) /\ mate[i] \in Items(q) /\ Key[p][i] = Key[q][mate[i]]
      BY <1>2, <1>3, Zenon DEF Common
    <3>2. PICK m : m = <<i, mate[i]>>
      BY Zenon
    <3>3. m \in Items(p) \X Items(q) /\ m[1] = i /\ m[2] = mate[i]
      BY <3>1, <3>2, Zenon
    <3> QED BY <1>1, <3>1, <3>3, Zenon DEF Expected
  <2> QED BY <2>1, <2>2
<1>9. g \in [D -> Expected(p)] /\ (\A a, b \in D : g[a] = g[b] => a = b)
      /\ \A e \in Expected(p) : \E a \in D : g[a] = e
  BY <1>8, Zenon
<1>10. {<<o.line.idx, o.dup>> : o \in out[p]} = {<<i, Dup[q][mate[i]]>> : i \in D}
  <2>1. \A i \in D : f[i] \in out[p] /\ f[i].line.idx = i /\ f[i].dup = Dup[q][mate[i]]
    BY <1>5, <1>6, Zenon
  <2> HIDE DEF f
  <2> QED BY <1>7, <2>1
<1>11. IsFiniteSet(D)
  <2>1. N[p] \in Nat /\ N[p] - 1 \in Int
    BY ConstAssumption
  <2>2. IsFiniteSet(0 .. N[p] - 1)
    BY <2>1, FS_Interval
  <2> QED BY <1>2, <2>2, FS_Subset, Zenon DEF Common, Items
<1> HIDE DEF f, g
<1>12. Cardinality(out[p]) = Cardinality(Expected(p))
  BY <1>6, <1>7, <1>9, <1>11, SameSize
<1> QED BY <1>8, <1>10, <1>12

\* Without recovery, or without a crash, a finished task has written exactly the
\* intersection, each index once and with the peer's count of duplicates, and
\* nothing at a party that may not touch the result (ecdh_psi.cc:60-281,
\* receiver.cc:127-130, ec_point_store.cc:98-131).
THEOREM ResultsExact ==
  ASSUME Fresh
  PROVE  Spec => []ResultExact
<1>1. LinkInv /\ StoreInv /\ KeyInv /\ DupInv /\ KeptDupCorrect /\ FreshInv => ResultExact
  <2> SUFFICES ASSUME LinkInv, StoreInv, KeyInv, DupInv, KeptDupCorrect, FreshInv,
                      NEW p \in Party, pc[p] = "done"
               PROVE  /\ {<<o.line.idx, o.dup>> : o \in out[p]} = IF p \in Targets THEN Expected(p) ELSE {}
                      /\ Cardinality(out[p]) = Cardinality(IF p \in Targets THEN Expected(p) ELSE {})
    BY Zenon DEF ResultExact
  <2>1. out[p] = Intersect(p, self[p], peer[p])
    BY Zenon DEF FreshInv, JoinWritten, PastPostEnd, PastFinalizeSync
  <2>2. selfBuf[p] = {} /\ peerBuf[p] = {}
    BY Zenon DEF KeyInv, KeyInStep, PastPostEnd, PastFinalizeSync
  <2>3. UpTo(p, dualRecv[p]) \in 0 .. N[p]
    BY Received, Positions
  <2>4. \A s \in self[p] : /\ s \in Lines /\ s.run = run /\ s.dup = 0 /\ s.idx = s.pos
                           /\ s.pos < UpTo(p, dualRecv[p])
    BY Zenon DEF FreshInv, IndexedByPosition, LinkInv, TypeOK, StoreTypes
  <2>5. CASE p \in Targets
    <3>1. Covered(self[p], N[p]) /\ Covered(peer[p], N[Other(p)])
      BY <2>5, Zenon DEF StoreInv, StoresFilled, Full, PastPostEnd, PastFinalizeSync
    <3>2. \A s \in self[p] : s.own = MaskKey(p) /\ s.via = MaskKey(Other(p))
      BY Zenon DEF KeyInv, MaskedAlike
    <3>3. \A m \in peer[p] : m.own = MaskKey(Other(p)) /\ m.via = MaskKey(p)
      BY Zenon DEF KeyInv, MaskedAlike
    <3>4. \A s, t \in self[p] : s.pos = t.pos => s = t
      BY <2>4, <3>2 DEF Lines
    <3>5. \A s \in self[p] : s.pos \in Items(p) /\ s.idx = s.pos
      BY <2>3, <2>4, Positions DEF Lines, Items
    <3>6. \A m \in peer[p] : m.pos \in Items(Other(p))
      BY Zenon DEF DupInv, LinesRight
    <3>7. peer[p] \cup peerBuf[p] = peer[p]
      BY <2>2, Zenon
    <3>8. ASSUME NEW i \in Items(Other(p)), {l \in peer[p] : l.pos = i} # {}
          PROVE  Kept({l \in peer[p] : l.pos = i}).dup = Dup[Other(p)][i]
      BY Zenon, <3>7, <3>8 DEF KeptDupCorrect
    <3>9. Joined(p)
      BY Zenon, <3>1, <3>2, <3>3, <3>4, <3>5, <3>6, <3>8 DEF Joined
    <3> QED BY <2>1, <2>5, <3>9, JoinedExact
  <2>6. CASE p \notin Targets
    <3>1. dualRecv[p] = 0
      <4>1. Other(Other(p)) = p /\ Other(p) \in Party
        BY Others, Zenon
      <4>2. Len(dual[Other(p)]) = 0 /\ dualRecv[p] <= Len(dual[Other(p)])
        BY <2>6, <4>1 DEF LinkInv, DualInOrder
      <4> QED BY <4>2, Positions
    <3>2. UpTo(p, dualRecv[p]) = 0
      BY <3>1 DEF UpTo, FreshInv
    <3>3. self[p] = {}
      BY <2>4, <3>2 DEF Lines
    <3>4. out[p] = {}
      BY <2>1, <3>3, Zenon DEF Intersect
    <3> QED BY <2>6, <3>4
  <2> QED BY <2>5, <2>6, Zenon
<1> QED BY <1>1, LinkInvariant, StoreInvariant, KeyInvariant, DupInvariant, KeptDupRight, FreshInvariant, PTL
=============================================================================
