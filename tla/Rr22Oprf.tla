------------------------------ MODULE Rr22Oprf ------------------------------
(* The OPRF of RR22 (algorithm/rr22/rr22_oprf.cc) over the oblivious key-value *)
(* store it is built on (okvs/{paxos,baxos,paxos_hash,dense_mtx}.cc).  The     *)
(* receiver's threads hash its items into bins, each solves the linear system  *)
(* of its bins, and the solution masked with one half of a VOLE correlation is *)
(* sent.  FastMode uses bins and dense columns over GF(2^128), LowCommMode one *)
(* bin and binary dense columns.                                               *)
(*                                                                             *)
(* A 128-bit word is a formal sum: a function from the independent terms in it *)
(* to their coefficients, so one run stands for every value of the hashes and  *)
(* of the correlation.  A term is <<kind, power of delta, key or cell>>.  The  *)
(* field is GF(4), on 0..3.  What the hash of a key gives - bin, three words,  *)
(* dense part - is part of the task.  No caller passes a prng, so the          *)
(* randomised encoding is left out.                                            *)
EXTENDS Integers, Sequences, FiniteSets, FiniteSetsExt, SequencesExt

CONSTANTS Tasks,   \* [proto |-> "rr22", mode, malicious, items, hash, bins, threads, sparse, dense, gap,
                   \*  perThread, perBin: the room SimpleIndex gives a bin, per thread and in all]
          Block    \* kPaxosBuildRowSize: rows built and decoded at once

VARIABLES task, pc, net, mem
vars == <<task, pc, net, mem>>

Party == {"rcv", "snd"}
Peer(p) == CHOOSE q \in Party : q # p
Fast == task.mode = "fast"

-----------------------------------------------------------------------------
(* Field and words.                                                          *)

GfAdd(x, y) == IF x = y THEN 0 ELSE IF 0 \in {x, y} THEN x + y ELSE 6 - x - y
Mul(x, y) == IF 0 \in {x, y} THEN 0 ELSE 1 + ((x + y - 2) % 3)
Inv(x) == 1 + ((4 - x) % 3)

RECURSIVE Pow(_, _)
Pow(x, n) == IF n = 0 THEN 1 ELSE Mul(x, Pow(x, n - 1))

Zero == <<>>
Term(kind, id) == (<<kind, 0, id>> :> 1)
Coef(w, s) == IF s \in DOMAIN w THEN w[s] ELSE 0

Add(u, v) ==
  LET sum(s) == GfAdd(Coef(u, s), Coef(v, s))
  IN  [s \in {t \in DOMAIN u \cup DOMAIN v : sum(t) # 0} |-> sum(s)]

MultAdd(u, v, x) == Add(u, IF x = 0 THEN Zero ELSE [s \in DOMAIN v |-> Mul(v[s], x)])
TimesDelta(w) ==
  [s \in {<<t[1], t[2] + 1, t[3]>> : t \in DOMAIN w} |-> w[<<s[1], s[2] - 1, s[3]>>]]

AddAll(S, word(_)) == MapThenFoldSet(Add, Zero, word, LAMBDA T : CHOOSE s \in T : TRUE, S)

-----------------------------------------------------------------------------
(* Rows.                                                                     *)

\* three different columns out of three words of the hash
BuildRow(hash) ==
  LET r0 == hash[1] % task.sparse
      r1 == hash[2] % (task.sparse - 1)
      r2 == hash[3] % (task.sparse - 2)
      min == Min({r0, r1})
      max == r0 + r1 - min
      up == IF max = r1 THEN 1 ELSE 0
      s2 == IF r2 >= min THEN r2 + 1 ELSE r2
  IN  <<r0, r1 + up, IF s2 >= max + up THEN s2 + 1 ELSE s2>>

\* the same without branches: a mask is -1 where the comparison holds
BuildRow32(hash) ==
  LET r0 == hash[1] % task.sparse
      r1 == hash[2] % (task.sparse - 1)
      r2 == hash[3] % (task.sparse - 2)
      Mask(holds) == IF holds THEN -1 ELSE 0
      max == IF Mask(r0 > r1) = -1 THEN r0 ELSE r1
      min == r0 + r1 - max
      eq == Mask(max = r1)
      s2 == r2 - Mask(~(min > r2))
  IN  <<r0, r1 - eq, s2 - Mask(~(max - eq > s2))>>

\* full blocks are built together, the rest one by one
InBlock(i, n) == i <= (n \div Block) * Block
Row(keys, i) ==
  LET hash == task.hash[keys[i]].words
  IN  IF InBlock(i, Len(keys)) THEN BuildRow32(hash) ELSE BuildRow(hash)

Columns(keys, i) == Range(Row(keys, i))
Dense(keys, i) == task.hash[keys[i]].dense

\* what multiplies dense cell j of an item: a power over the field, a bit of
\* the low half of the hash otherwise
DenseCoef(dense, j) ==
  IF Fast THEN Pow(dense, j + 1) ELSE IF j \in dense.lo THEN 1 ELSE 0

DenseCols == 0 .. (task.dense - 1)
Cells == (0 .. (task.bins - 1)) \X (0 .. (task.sparse + task.dense - 1))

-----------------------------------------------------------------------------
(* Decoding.                                                                 *)

\* Decode32 takes the bits of .first of the decomposed hash, its high half
Coef32(dense, j) == IF Fast THEN Pow(dense, j + 1) ELSE IF j \in dense.hi THEN 1 ELSE 0

Decode1(P, bin, row, dense) ==
  Add(AddAll(Range(row), LAMBDA c : P[<<bin, c>>]),
      AddAll(DenseCols, LAMBDA j : MultAdd(Zero, P[<<bin, task.sparse + j>>], DenseCoef(dense, j))))

Decode32(P, bin, row, dense) ==
  Add(AddAll(Range(row), LAMBDA c : P[<<bin, c>>]),
      AddAll(DenseCols, LAMBDA j : MultAdd(Zero, P[<<bin, task.sparse + j>>], Coef32(dense, j))))

\* one bin's share of the inputs: blocks, then the rest
DecodeBin(P, bin, keys) ==
  [i \in DOMAIN keys |->
     IF InBlock(i, Len(keys))
     THEN Decode32(P, bin, BuildRow32(task.hash[keys[i]].words), Dense(keys, i))
     ELSE Decode1(P, bin, BuildRow(task.hash[keys[i]].words), Dense(keys, i))]

BinOf(key) == task.hash[key].bin % task.bins

\* Inputs are queued by bin and a full queue is decoded; what is left in the
\* queues is decoded at the end
DecodeBatch(P, keys) ==
  LET flush(out, bin, idxs) ==
        LET values == DecodeBin(P, bin, [k \in DOMAIN idxs |-> keys[idxs[k]]])
        IN  [i \in DOMAIN out |-> IF i \in Range(idxs)
                                  THEN values[CHOOSE k \in DOMAIN idxs : idxs[k] = i] ELSE out[i]]
      queue(acc, i) ==
        LET bin == BinOf(keys[i])
            q == Append(acc.q[bin], i)
        IN  IF Len(q) = Min({512, Len(keys)})
            THEN [q |-> [acc.q EXCEPT ![bin] = <<>>], out |-> flush(acc.out, bin, q)]
            ELSE [acc EXCEPT !.q[bin] = q]
      queued == FoldLeft(queue, [q |-> [b \in 0 .. (task.bins - 1) |-> <<>>],
                                 out |-> [i \in DOMAIN keys |-> Zero]], [i \in DOMAIN keys |-> i])
  IN  FoldLeft(LAMBDA out, b : flush(out, b - 1, queued.q[b - 1]), queued.out,
               [b \in 1 .. task.bins |-> b])

\* thread t of n takes the inputs from n*t to n*(t+1)
Share(keys, t) ==
  SubSeq(keys, (Len(keys) * t) \div task.threads + 1, (Len(keys) * (t + 1)) \div task.threads)

RECURSIVE Shares(_, _, _)
Shares(P, keys, t) ==
  IF t = task.threads THEN <<>> ELSE DecodeBatch(P, Share(keys, t)) \o Shares(P, keys, t + 1)

Decode(P, keys) == IF task.bins = 1 THEN DecodeBin(P, 0, keys) ELSE Shares(P, keys, 0)

-----------------------------------------------------------------------------
(* Encoding one bin.                                                         *)

Threads == 0 .. (task.threads - 1)
Value(key) == Term("hash", key)

\* A bin being solved: its keys, the weight each column still has, the rows
\* that are set, the diagonal (row, column) and the gap (row, diagonal row)
SetInput(bin, keys) ==
  [bin |-> bin, keys |-> keys, set |-> {}, main |-> <<>>, gap |-> <<>>,
   weight |-> [c \in 0 .. (task.sparse - 1) |->
                 Cardinality({i \in DOMAIN keys : c \in Columns(keys, i)})]]

\* columns that GetMinWeightNode may return
MinWeightNodes(s) ==
  LET live == {c \in DOMAIN s.weight : s.weight[c] > 0}
  IN  {c \in live : \A d \in live : s.weight[c] <= s.weight[d]}

\* One turn of Triangulate: the first open row of the column goes on the
\* diagonal, the others into the gap, and all their columns lose weight
FixColumn(s, col) ==
  LET rows == {i \in DOMAIN s.keys : col \in Columns(s.keys, i)} \ s.set
      order == SetToSortSeq(rows, <)
  IN  [s EXCEPT !.set = @ \cup rows,
                !.main = Append(@, <<order[1], col>>),
                !.gap = @ \o [k \in 1 .. (Len(order) - 1) |-> <<order[k + 1], order[1]>>],
                !.weight = [c \in DOMAIN @ |-> IF c = col THEN 0 ELSE
                              @[c] - Cardinality({i \in rows : c \in Columns(s.keys, i)})]]

Duplicate(s) == \E k \in DOMAIN s.gap : task.hash[s.keys[s.gap[k][1]]] = task.hash[s.keys[s.gap[k][2]]]

\* positions on the diagonal of the columns of row i
OnDiagonal(s, i) == {k \in DOMAIN s.main : s.main[k][2] \in Columns(s.keys, i)}

\* the diagonal rows that cancel what the row has on the diagonal
RECURSIVE Cancel(_, _)
Cancel(s, row) ==
  IF row = {} THEN {}
  ELSE LET hRow == s.main[Min(row)][1]
       IN  {hRow} \cup Cancel(s, SymDiff(row, OnDiagonal(s, hRow)))

GetFCInv(s, k) ==
  LET g == s.gap[k]
  IN  IF Row(s.keys, g[1]) = Row(s.keys, g[2]) THEN {g[2]} ELSE Cancel(s, OnDiagonal(s, g[1]))

\* right-hand side and dense coefficients of gap row k
X2Prime(s, k) ==
  AddAll({s.gap[k][1]} \cup GetFCInv(s, k), LAMBDA i : Value(s.keys[i]))

EPrime(s, k, j) ==
  FoldSet(LAMBDA i, acc : GfAdd(acc, DenseCoef(Dense(s.keys, i), j)), 0,
          {s.gap[k][1]} \cup GetFCInv(s, k))

\* Gauss-Jordan over GF(2) on rows [left, right]; <<>> if singular
RECURSIVE Invert(_, _)
Invert(rows, i) ==
  IF i > Len(rows) THEN rows
  ELSE LET pivots == {j \in i .. Len(rows) : rows[j].left[i] = 1}
       IN  IF pivots = {} THEN <<>>
           ELSE LET p == Min(pivots)
                    swapped == [rows EXCEPT ![i] = rows[p], ![p] = rows[i]]
                    plus(u, v) == [k \in DOMAIN u |-> GfAdd(u[k], v[k])]
                    cleared == [j \in DOMAIN rows |->
                                  IF j # i /\ swapped[j].left[i] = 1
                                  THEN [left |-> plus(swapped[j].left, swapped[i].left),
                                        right |-> plus(swapped[j].right, swapped[i].right)]
                                  ELSE swapped[j]]
                IN  Invert(cleared, i + 1)

InverseOn(s, cols) ==
  Invert([k \in DOMAIN s.gap |->
            [left |-> [j \in DOMAIN s.gap |-> EPrime(s, k, cols[j])],
             right |-> [j \in DOMAIN s.gap |-> IF j = k THEN 1 ELSE 0]]], 1)

\* the dense columns that make the gap solvable
GapCols(s) ==
  {cols \in [DOMAIN s.gap -> DenseCols] :
     (\A j, k \in DOMAIN cols : j < k => cols[j] < cols[k]) /\ InverseOn(s, cols) # <<>>}

\* binary dense part: solve for the chosen columns, leave the others
DenseBinary(s) ==
  LET cols == CHOOSE c \in GapCols(s) : TRUE
      inverse == InverseOn(s, cols)
  IN  [j \in DenseCols |->
         IF j \notin Range(cols) THEN Zero
         ELSE LET i == CHOOSE k \in DOMAIN cols : cols[k] = j
              IN  AddAll({k \in DOMAIN s.gap : inverse[i].right[k] = 1}, LAMBDA k : X2Prime(s, k))]

\* dense part over the field, for a gap of one row
DenseGf128(s) ==
  [j \in DenseCols |->
     IF j = 0 THEN MultAdd(Zero, X2Prime(s, 1), Inv(EPrime(s, 1, 0))) ELSE Zero]

\* MatrixGf128Inv makes room for one entry per row of the gap, not per pair of
\* them, and writes beyond it when there are two or more
InverseOutside(s) == Fast /\ Len(s.gap) \in 2 .. task.dense

Solvable(s) ==
  \/ s.gap = <<>>
  \/ Fast /\ Len(s.gap) = 1 /\ task.dense >= 1 /\ EPrime(s, 1, 0) # 0
  \/ ~Fast /\ Len(s.gap) <= task.gap /\ GapCols(s) # {}

\* the diagonal from its end: what is not on it stays zero
RECURSIVE BackSubstitute(_, _, _)
BackSubstitute(s, P, k) ==
  IF k = 0 THEN P
  ELSE LET i == s.main[k][1]
           y == Add(Value(s.keys[i]), Decode1(P, s.bin, Row(s.keys, i), Dense(s.keys, i)))
       IN  BackSubstitute(s, [P EXCEPT ![<<s.bin, s.main[k][2]>>] = y], k - 1)

Backfill(s, P) ==
  LET dense == CASE s.gap = <<>> -> [j \in DenseCols |-> Zero]
                 [] s.gap # <<>> /\ Fast -> DenseGf128(s)
                 [] OTHER -> DenseBinary(s)
      start == [cell \in Cells |->
                  IF cell[1] = s.bin /\ cell[2] >= task.sparse THEN dense[cell[2] - task.sparse]
                  ELSE P[cell]]
  IN  BackSubstitute(s, start, Len(s.main))

-----------------------------------------------------------------------------
(* The protocol.                                                             *)

Goto(p, place) == pc' = [pc EXCEPT ![p] = place]
Send(p, m) == net' = [net EXCEPT ![p] = Append(@, m)]
Arrived(p) == net[Peer(p)] # <<>>

Init ==
  /\ task \in Tasks
  /\ pc = [rcv |-> "init", snd |-> "init"]
  /\ net = [p \in Party |-> <<>>]
  /\ mem = [thread |-> [t \in Threads |-> "hash"],
            solve |-> [t \in Threads |-> SetInput(t, <<>>)],
            bins |-> [t \in Threads |-> [b \in 0 .. (task.bins - 1) |-> <<>>]],
            P |-> [c \in Cells |-> Zero], b |-> <<>>, out |-> [p \in Party |-> <<>>]]

\* Rr22OprfReceiver::Init sends the seed of the hash, then both run the VOLE
ReceiverInit ==
  /\ pc.rcv = "init"
  /\ Send("rcv", [seed |-> TRUE]) /\ Goto("rcv", "vole") /\ UNCHANGED <<task, mem>>

SenderInit ==
  /\ pc.snd = "init" /\ Arrived("snd")
  /\ net' = [net EXCEPT !.rcv = Tail(@)] /\ Goto("snd", "vole") /\ UNCHANGED <<task, mem>>

\* b = delta * a + c, the receiver has a and c
Vole ==
  /\ pc.rcv = "vole" /\ pc.snd = "vole"
  /\ mem' = [mem EXCEPT !.b = [c \in Cells |-> Add(TimesDelta(Term("a", c)), Term("c", c))]]
  /\ pc' = [rcv |-> IF task.malicious THEN "ws_hash" ELSE "solve",
            snd |-> IF task.malicious THEN "ws" ELSE "recv"]
  /\ UNCHANGED <<task, net>>

\* SendFast commits to its half of w before it sees the other half
SendWsHash ==
  /\ pc.snd = "ws"
  /\ Send("snd", [ws_hash |-> "ws"]) /\ Goto("snd", "wr") /\ UNCHANGED <<task, mem>>

RecvWsHash ==
  /\ pc.rcv = "ws_hash" /\ Arrived("rcv")
  /\ net' = [net EXCEPT !.snd = Tail(@)] /\ Goto("rcv", "solve") /\ UNCHANGED <<task, mem>>

\* the positions in keys that find no room left in their bin
Crowded(keys) ==
  {i \in DOMAIN keys : task.bins > 1
     /\ Cardinality({j \in 1 .. i : BinOf(keys[j]) = BinOf(keys[i])}) > task.perThread}

\* A thread of ImplParSolve puts its share of the inputs into its own bins.  The
\* room is enforced for the inputs after the last full block only; in a block
\* the write goes into the part of another thread, or out of the buffer.  An
\* exception in a thread ends the process.
HashInputs(t) ==
  LET mine == Share(task.items.rcv, t)
      crowded == Crowded(mine)
  IN
  /\ pc.rcv = "solve" /\ mem.thread[t] = "hash"
  /\ \/ /\ \A i \in crowded : InBlock(i, Len(mine))
        /\ mem' = [mem EXCEPT !.thread[t] = "bin",
                               !.bins[t] = [b \in DOMAIN @ |-> SelectSeq(mine, LAMBDA k : BinOf(k) = b)]]
        /\ UNCHANGED pc
     \/ /\ \E i \in crowded : ~InBlock(i, Len(mine))
        /\ Goto("rcv", "threw") /\ UNCHANGED mem
     \/ /\ \E i \in crowded : InBlock(i, Len(mine))
        /\ Goto("rcv", "undefined") /\ UNCHANGED mem
  /\ UNCHANGED <<task, net>>

Merge(bin) == FoldLeft(LAMBDA acc, t : acc \o mem.bins[t - 1][bin], <<>>, [t \in 1 .. task.threads |-> t])

\* the first bin is taken without waiting for the threads still hashing
AllHashedNoWait(t) == TRUE

\* num_done and the shared future
AllHashed(t) == \A u \in Threads : mem.thread[u] # "hash"

\* the enforces on the size of a bin and of the parts it is joined from
BinFits(bin) ==
  \/ task.bins = 1
  \/ /\ Len(Merge(bin)) <= task.perBin
     /\ \A u \in Threads : Len(mem.bins[u][bin]) <= task.perThread

\* Once all have hashed, thread t joins the parts of its bins and solves them
StartBin(t) ==
  LET bin == mem.solve[t].bin
  IN
  /\ pc.rcv = "solve" /\ mem.thread[t] = "bin" /\ AllHashed(t)
  /\ \/ /\ bin < task.bins /\ BinFits(bin)
        /\ mem' = [mem EXCEPT !.thread[t] = "solve", !.solve[t] = SetInput(bin, Merge(bin))]
        /\ UNCHANGED pc
     \/ /\ bin < task.bins /\ ~BinFits(bin)
        /\ Goto("rcv", "threw") /\ UNCHANGED mem
     \/ /\ bin >= task.bins
        /\ mem' = [mem EXCEPT !.thread[t] = "done"]
        /\ UNCHANGED pc
  /\ UNCHANGED <<task, net>>

Triangulate(t) ==
  /\ pc.rcv = "solve" /\ mem.thread[t] = "solve"
  /\ \E col \in MinWeightNodes(mem.solve[t]) :
       LET s == FixColumn(mem.solve[t], col)
       IN  /\ mem' = [mem EXCEPT !.solve[t] = s]
           /\ IF Duplicate(s) THEN Goto("rcv", "threw") ELSE UNCHANGED pc
  /\ UNCHANGED <<task, net>>

\* Backfill, or the enforce that the gap can be solved
Encode(t) ==
  /\ pc.rcv = "solve" /\ mem.thread[t] = "solve" /\ MinWeightNodes(mem.solve[t]) = {}
  /\ LET s == mem.solve[t]
     IN  \/ /\ Solvable(s)
            /\ mem' = [mem EXCEPT !.P = Backfill(s, @), !.thread[t] = "bin",
                                   !.solve[t] = SetInput(s.bin + task.threads, <<>>)]
            /\ UNCHANGED pc
         \/ /\ InverseOutside(s)
            /\ Goto("rcv", "undefined") /\ UNCHANGED mem
         \/ /\ ~Solvable(s) /\ ~InverseOutside(s)
            /\ Goto("rcv", "threw") /\ UNCHANGED mem
  /\ UNCHANGED <<task, net>>

Solved == pc.rcv = "solve" /\ \A t \in Threads : mem.thread[t] = "done"

SendWr ==
  /\ task.malicious /\ Solved
  /\ Send("rcv", [wr |-> "wr"]) /\ Goto("rcv", "recv_ws") /\ UNCHANGED <<task, mem>>

RecvWrSendWs ==
  /\ pc.snd = "wr" /\ Arrived("snd")
  /\ net' = [snd |-> Append(net.snd, [ws |-> "ws"]), rcv |-> Tail(net.rcv)]
  /\ Goto("snd", "recv") /\ UNCHANGED <<task, mem>>

RecvWs ==
  /\ pc.rcv = "recv_ws" /\ Arrived("rcv")
  /\ net' = [net EXCEPT !.snd = Tail(@)] /\ Goto("rcv", "send") /\ UNCHANGED <<task, mem>>

\* the value of w that both have by then, and the final hash: Davis-Meyer
\* takes the item as well
Finish(words, keys) ==
  [i \in DOMAIN words |->
     IF task.malicious THEN <<Add(words[i], Term("w", 0)), keys[i]>> ELSE <<words[i], 0>>]

\* RecvFast and RecvLowComm: decode c for the own outputs, send P xor a
SendSolve ==
  /\ IF task.malicious THEN pc.rcv = "send" ELSE Solved
  /\ mem' = [mem EXCEPT !.out.rcv =
               Finish(Decode([c \in Cells |-> Term("c", c)], task.items.rcv), task.items.rcv)]
  /\ Send("rcv", [c \in Cells |-> Add(mem.P[c], Term("a", c))])
  /\ Goto("rcv", "done") /\ UNCHANGED task

\* SendFast and SendLowComm fold what arrives into b, Eval decodes it
RecvSolve ==
  /\ pc.snd = "recv" /\ Arrived("snd")
  /\ LET got == Head(net.rcv)
         b == [c \in Cells |-> Add(mem.b[c], TimesDelta(got[c]))]
         keys == task.items.snd
         words == Decode(b, keys)
     IN  mem' = [mem EXCEPT !.b = b,
                            !.out.snd = Finish([i \in DOMAIN keys |->
                                                  Add(words[i], TimesDelta(Value(keys[i])))], keys)]
  /\ net' = [net EXCEPT !.rcv = Tail(@)] /\ Goto("snd", "done") /\ UNCHANGED task

Terminated == (pc.rcv \in {"threw", "undefined"} \/ (pc.rcv = "done" /\ pc.snd = "done")) /\ UNCHANGED vars

Next ==
  \/ ReceiverInit \/ SenderInit \/ Vole \/ SendWsHash \/ RecvWsHash
  \/ \E t \in Threads : HashInputs(t) \/ StartBin(t) \/ Triangulate(t) \/ Encode(t)
  \/ SendWr \/ RecvWrSendWs \/ RecvWs \/ SendSolve \/ RecvSolve
  \/ Terminated

Spec == Init /\ [][Next]_vars

-----------------------------------------------------------------------------

\* some rows of the bin cancel on the diagonal and on the dense columns in use
Dependent(s) ==
  \E rows \in SUBSET DOMAIN s.keys \ {{}} :
    /\ \A k \in DOMAIN s.main :
         Cardinality({i \in rows : s.main[k][2] \in Columns(s.keys, i)}) % 2 = 0
    /\ \A j \in IF Fast THEN 0 .. (Len(s.gap) - 1) ELSE DenseCols :
         FoldSet(LAMBDA i, acc : GfAdd(acc, DenseCoef(Dense(s.keys, i), j)), 0, rows) = 0

\* a bin that got more items than SimpleIndex gave it room for, and the items of
\* full blocks that did not fit
TooFull(b) ==
  LET In(keys) == {i \in DOMAIN keys : BinOf(keys[i]) = b}
  IN  \/ Cardinality(In(task.items.rcv)) > task.perBin
      \/ \E t \in Threads : Cardinality(In(Share(task.items.rcv, t))) > task.perThread

BlockTooFull ==
  \E t \in Threads : LET mine == Share(task.items.rcv, t)
                     IN  \E i \in Crowded(mine) : InBlock(i, Len(mine))

\* The two parties' OPRF values are equal exactly for a common item, whatever
\* the threads, bins and positions in a block were.  Paxos gives up on a bin
\* only if its rows really are dependent, its gap is too large or a bin too
\* full.  It is undefined what happens only in FastMode, with a gap of two or
\* more rows (paxos.cc:33-36 writes beyond inv) or a bin that overflows inside
\* a block of inputs (baxos.cc:302-317 does not check); in LowCommMode gaps of
\* any size up to the limit are solved (rr22_oprf.cc Send and Recv,
\* okvs/baxos.cc Solve and Decode, okvs/paxos.cc Encode and Decode).
Rr22Exact ==
  /\ pc.rcv = "done" /\ pc.snd = "done" =>
       \A i \in DOMAIN task.items.snd, j \in DOMAIN task.items.rcv :
         (mem.out.snd[i] = mem.out.rcv[j]) <=> (task.items.snd[i] = task.items.rcv[j])
  /\ pc.rcv = "threw" =>
       \/ task.bins > 1 /\ \E b \in 0 .. (task.bins - 1) : TooFull(b)
       \/ \E t \in Threads : \/ Dependent(mem.solve[t])
                             \/ Len(mem.solve[t].gap) > IF Fast THEN task.dense ELSE task.gap
  /\ pc.rcv = "undefined" =>
       Fast /\ (BlockTooFull \/ \E t \in Threads : Len(mem.solve[t].gap) > 1)
=============================================================================
