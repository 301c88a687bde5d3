------------------------------- MODULE JoinPsi -------------------------------
(* From table to result file: the key info a party derives from its CSV file   *)
(* (utils/table_utils.cc), the digest check of AbstractPsiParty::Init, and the *)
(* join that Finalize writes (utils/join_processor.cc), for both parties of a  *)
(* task. The protocol in between is external here: it hands each party the     *)
(* positions of the common keys with the peer's duplicate counts.              *)
(* A cell is the sequence of its characters, ordered as LC_ALL=C sort does;    *)
(* a row is a sequence of cells and NA stands for a row of csv_null_rep.       *)
EXTENDS Integers, Sequences, FiniteSets, SequencesExt, TLC

CONSTANTS Tasks,   \* the tasks: tables, keys_unique, key column, join type...
          Batch    \* kBatchSize of table_utils.h

VARIABLES task, pc, net, mem
vars == <<task, pc, net, mem>>

Party == {"rcv", "snd"}
Peer(p) == CHOOSE q \in Party : q # p
NA == <<"n/a">>   \* a row of csv_null_rep

-----------------------------------------------------------------------------
(* Cells, keys and sorting *)

RECURSIVE Before(_, _)
Before(a, b) ==   \* LC_ALL=C order of two cells
  /\ b # <<>>
  /\ \/ a = <<>>
     \/ a # <<>> /\ (a[1] < b[1] \/ (a[1] = b[1] /\ Before(Tail(a), Tail(b))))

RECURSIVE RowBefore(_, _, _)
RowBefore(r, s, cols) ==   \* sort --key=c,c for each column in turn
  /\ cols # <<>>
  /\ LET c == Head(cols)
     IN  Before(r[c], s[c]) \/ (r[c] = s[c] /\ RowBefore(r, s, Tail(cols)))

MultiKeySort(rows, cols) ==   \* --stable
  LET order == SetToSortSeq(DOMAIN rows, LAMBDA i, j :
                 RowBefore(rows[i], rows[j], cols)
                   \/ (i < j /\ ~RowBefore(rows[j], rows[i], cols)))
  IN  [i \in DOMAIN rows |-> rows[order[i]]]

KeyOf(p, row) == row[task.keyCol[p]]
Hash(info) == FlattenSeq([i \in DOMAIN info |-> info[i].key])   \* hash.Update per key
DupKeys(info) == {i \in DOMAIN info : info[i].dup # 0}

-----------------------------------------------------------------------------
Fresh(file, meta) ==
  [file |-> file, meta |-> meta, table |-> <<>>, info |-> <<>>, pending |-> <<>>,
   read |-> 0, cur |-> <<>>, start |-> 0, dup |-> 0,
   index |-> <<>>, line |-> 0, peerCnt |-> 0, inter |-> <<>>, except |-> <<>>, out |-> <<>>]

Begin(p) == IF task.unique[p] THEN "unique" ELSE "sort"

Init ==
  /\ task \in Tasks
  /\ pc = [p \in Party |-> Begin(p)] @@ [round |-> 1]
  /\ net = [p \in Party |-> <<>>]
  /\ mem = [p \in Party |-> Fresh(task.rows[p], <<>>)]

Set(p, rec) == mem' = [mem EXCEPT ![p] = rec @@ @]
Goto(p, place) == pc' = [pc EXCEPT ![p] = place]

(* SortedTable::Make and, for keys_unique, UniqueKeyTable with the metadata    *)
(* file left beside the input by an earlier task.                              *)
Sort(p) ==
  /\ pc[p] = "sort"
  /\ Set(p, [table |-> MultiKeySort(mem[p].file, <<task.keyCol[p]>>)])
  /\ Goto(p, "scan")
  /\ UNCHANGED <<task, net>>

MetaFits(meta, file) == meta # <<>> /\ meta[1].size = Len(file)

UniqueInfo(p, file) ==
  [i \in DOMAIN file |-> [key |-> KeyOf(p, file[i]), start |-> i - 1, dup |-> 0]]

UniqueKeysInfo(p) ==
  /\ pc[p] = "unique"
  /\ LET file == mem[p].file
         info == UniqueInfo(p, file)
         meta == IF MetaFits(mem[p].meta, file) THEN mem[p].meta
                 ELSE <<[size |-> Len(file), hash |-> Hash(info), dups |-> 0, keys |-> Len(info)]>>
     IN  Set(p, [table |-> file, info |-> info, meta |-> meta])
  /\ Goto(p, "digest")
  /\ UNCHANGED <<task, net>>

(* KeyInfo::Make reads the sorted table batch by batch; the closed groups of a *)
(* batch are written by write_future while the next batch is scanned.          *)
RECURSIVE Group(_, _, _)
Group(g, p, rows) ==   \* the scan of one batch: g = [cur, start, dup, read, closed]
  IF rows = <<>> THEN g
  ELSE LET key == KeyOf(p, Head(rows))
           next == IF g.read = 0 THEN [g EXCEPT !.cur = key]
                   ELSE IF g.cur = key THEN [g EXCEPT !.dup = @ + 1]
                   ELSE [g EXCEPT !.cur = key, !.start = g.read, !.dup = 0,
                                  !.closed = Append(@, [key |-> g.cur, start |-> g.start, dup |-> g.dup])]
       IN  Group([next EXCEPT !.read = @ + 1], p, Tail(rows))

NextBatch(p) == SubSeq(mem[p].table, mem[p].read + 1, Min({mem[p].read + Batch, Len(mem[p].table)}))

WriteDoneAlways(p) == TRUE
WriteDone(p) == mem[p].pending = <<>>   \* write_future.get()

ScanBatch(p) ==
  /\ pc[p] = "scan" /\ NextBatch(p) # <<>> /\ WriteDone(p)
  /\ LET m == mem[p]
         g == Group([cur |-> m.cur, start |-> m.start, dup |-> m.dup, read |-> m.read,
                     closed |-> <<>>], p, NextBatch(p))
     IN  Set(p, [cur |-> g.cur, start |-> g.start, dup |-> g.dup, read |-> g.read,
                 pending |-> g.closed])
  /\ UNCHANGED <<task, pc, net>>

WriteToCsv(p) ==
  /\ mem[p].pending # <<>>
  /\ Set(p, [info |-> mem[p].info \o mem[p].pending, pending |-> <<>>])
  /\ UNCHANGED <<task, pc, net>>

WriteLastKey(p) ==   \* also for a table without rows
  /\ pc[p] = "scan" /\ NextBatch(p) = <<>> /\ WriteDone(p)
  /\ LET m == mem[p]
         info == Append(m.info, [key |-> m.cur, start |-> m.start, dup |-> m.dup])
     IN  Set(p, [info |-> info,
                 meta |-> <<[size |-> Len(m.table), hash |-> Hash(info),
                             dups |-> Cardinality(DupKeys(info)), keys |-> Len(info)]>>])
  /\ Goto(p, "digest")
  /\ UNCHANGED <<task, net>>

-----------------------------------------------------------------------------
(* Init: digest check and protocol *)

Send(p, msg) == net' = [net EXCEPT ![Peer(p)] = Append(@, msg)]
Receive(p) == net' = [net EXCEPT ![p] = Tail(@)]

SyncDigest(p) ==
  /\ pc[p] = "digest"
  /\ Send(p, mem[p].meta[1])
  /\ Goto(p, "gather")
  /\ UNCHANGED <<task, mem>>

DigestEqual(self, peer) ==
  /\ task.check
  /\ self.dups = 0 /\ peer.dups = 0
  /\ self.hash = peer.hash

GetsResult(p) == p = "rcv" \/ task.broadcast

\* What the protocol and the numeric sort of its index file give: the join of
\* FinalizeAndComputeIndices, which EcdhPsi models step by step
Common(p) ==
  LET self == mem[p].info
      peer == mem[Peer(p)].info
      hits == {<<i, j>> \in (DOMAIN self) \X (DOMAIN peer) : self[i].key = peer[j].key}
  IN  SetToSortSeq({[idx |-> h[1], cnt |-> peer[h[2]].dup] : h \in hits},
                   LAMBDA a, b : a.idx < b.idx)

RunPsi(p) ==
  /\ pc[p] = "gather" /\ net[p] # <<>>
  /\ Set(p, [index |-> IF DigestEqual(mem[p].meta[1], Head(net[p]))
                       THEN [i \in 1..mem[p].meta[1].keys |-> [idx |-> i, cnt |-> 0]]
                       ELSE IF GetsResult(p) THEN Common(p) ELSE <<>>,
             read |-> 0])
  /\ Receive(p)
  /\ Goto(p, IF GetsResult(p) THEN "deal" ELSE "done")
  /\ UNCHANGED task

-----------------------------------------------------------------------------
(* Finalize: DealResultIndex and GenerateResult *)

Line(m, i) == IF i <= Len(m.table) THEN m.table[i] ELSE <<>>   \* std::getline at the end
Lines(m, a, b) == [k \in 1..(IF b < a THEN 0 ELSE b - a + 1) |-> Line(m, a + k - 1)]
Repeat(rows, n) == FlattenSeq([i \in DOMAIN rows |-> [k \in 1..n |-> rows[i]]])

RECURSIVE Apply(_, _)
Apply(m, last) ==   \* GetBatchInfo on key infos up to last, and the loop of ApplyPeerDupCnt
  IF m.index = <<>> \/ Head(m.index).idx > last THEN m
  ELSE LET hit == Head(m.index)
           info == m.info[hit.idx]
           end == info.start + info.dup + 1
       IN  Apply([m EXCEPT !.index = Tail(@),
                           !.except = @ \o Lines(m, m.line + 1, info.start),
                           !.inter = @ \o Repeat(Lines(m, info.start + 1, end), hit.cnt + 1),
                           !.line = end,
                           !.peerCnt = @ + hit.cnt + 1], last)

DealBatch(p) ==
  /\ pc[p] = "deal" /\ mem[p].index # <<>>
  /\ LET last == mem[p].read + Batch
     IN  Set(p, [Apply(mem[p], last) EXCEPT !.read = last])
  /\ UNCHANGED <<task, pc, net>>

KeepsInter == task.type # "difference"
KeepsExcept(p) ==
  \/ task.type \in {"difference", "full"}
  \/ task.type = "left" /\ task.left = p
  \/ task.type = "right" /\ task.left # p

Columns(p) == [c \in DOMAIN task.rows[p][1] |-> c]

DealEnd(p) ==
  /\ pc[p] = "deal" /\ mem[p].index = <<>>
  /\ LET m == mem[p]
         rest == Lines(m, m.line + 1, Len(m.table))
         aligned == IF task.unique[p] /\ task.align /\ m.inter # <<>>
                    THEN MultiKeySort(m.inter, Columns(p)) ELSE m.inter
         lines == m.line + Len(rest)
     IN  /\ Set(p, [inter |-> IF KeepsInter THEN aligned ELSE <<>>,
                    except |-> IF KeepsExcept(p) THEN m.except \o rest ELSE <<>>,
                    line |-> lines])
         /\ IF task.broadcast THEN Send(p, lines) ELSE UNCHANGED net
  /\ Goto(p, "generate")
  /\ UNCHANGED task

NaRows(p, n, first) ==   \* write_na before (first) or after the party's own except rows
  IF \/ first /\ p # task.left /\ task.type \in {"left", "difference", "full"}
     \/ ~first /\ p = task.left /\ task.type \in {"right", "difference", "full"}
  THEN [k \in 1..n |-> NA] ELSE <<>>

GenerateResult(p) ==
  /\ pc[p] = "generate" /\ (task.broadcast => net[p] # <<>>)
  /\ LET m == mem[p]
         peerExcept == IF task.broadcast THEN Head(net[p]) - m.peerCnt ELSE 0
     IN  Set(p, [out |-> m.inter \o NaRows(p, peerExcept, TRUE) \o m.except
                           \o NaRows(p, peerExcept, FALSE)])
  /\ IF task.broadcast THEN Receive(p) ELSE UNCHANGED net
  /\ Goto(p, "done")
  /\ UNCHANGED task

(* The input files are edited and the task is run again. *)
RunAgain ==
  /\ \A p \in Party : pc[p] = "done"
  /\ pc.round = 1 /\ task.edit # <<>>
  /\ mem' = [p \in Party |-> Fresh(task.edit[1][p], IF task.unique[p] THEN mem[p].meta ELSE <<>>)]
  /\ pc' = [p \in Party |-> Begin(p)] @@ [round |-> 2]
  /\ UNCHANGED <<task, net>>

Terminated ==
  /\ \A p \in Party : pc[p] = "done"
  /\ pc.round = 2 \/ task.edit = <<>>
  /\ UNCHANGED vars

Next ==
  \/ \E p \in Party :
       \/ Sort(p) \/ UniqueKeysInfo(p) \/ ScanBatch(p) \/ WriteToCsv(p) \/ WriteLastKey(p)
       \/ SyncDigest(p) \/ RunPsi(p) \/ DealBatch(p) \/ DealEnd(p) \/ GenerateResult(p)
  \/ RunAgain
  \/ Terminated

Spec == Init /\ [][Next]_vars

-----------------------------------------------------------------------------
(* Properties *)

Done == \A p \in Party : pc[p] = "done"
Rows(p) == mem[p].file
Same(p, i, j) == KeyOf(p, Rows(p)[i]) = KeyOf(Peer(p), Rows(Peer(p))[j])
Matched(p, i) == \E j \in DOMAIN Rows(Peer(p)) : Same(p, i, j)
MatchesOf(p, i) == {j \in DOMAIN Rows(Peer(p)) : Same(p, i, j)}
Copies(p, row) == Cardinality({k \in DOMAIN mem[p].out : mem[p].out[k] = row})

(* How often a row must be in the result file of p. *)
Times(p, i) ==
  LET n == Cardinality(MatchesOf(p, i))
      equal == {k \in DOMAIN Rows(p) : Rows(p)[k] = Rows(p)[i]}
  IN  Cardinality(equal) *
        (IF n > 0 THEN IF KeepsInter THEN n ELSE 0 ELSE IF KeepsExcept(p) THEN 1 ELSE 0)

(* A party's row is in its result file as often as the join type asks for: once *)
(* per row of the peer with the same key, or once when it is unmatched          *)
(* (DealResultIndex and GenerateResult, join_processor.cc:270-341). The two      *)
(* files have as many lines, and line by line the two parties have the same key,*)
(* or one of them has an unmatched row and the other the null row.              *)
JoinExact ==
  Done =>
    /\ \A p \in Party : GetsResult(p) =>
         /\ \A i \in DOMAIN Rows(p) : Copies(p, Rows(p)[i]) = Times(p, i)
         /\ \A k \in DOMAIN mem[p].out : mem[p].out[k] \in Range(Rows(p)) \cup {NA}
    /\ task.broadcast =>
         /\ Len(mem["rcv"].out) = Len(mem["snd"].out)
         /\ \A k \in DOMAIN mem["rcv"].out :
              LET r == mem["rcv"].out[k]
                  s == mem["snd"].out[k]
              IN  IF r = NA \/ s = NA THEN r # s
                  ELSE task.align => KeyOf("rcv", r) = KeyOf("snd", s)

(* Read side by side, the two result files of an inner join are the join of SQL: *)
(* every pair of rows with equal keys, once (table_utils.cc:478 and 516-538,     *)
(* which repeat each row as often as the peer has its key).                      *)
JoinIsSql ==
  (Done /\ task.broadcast /\ task.type = "inner" /\ task.align) =>
    \A i \in DOMAIN Rows("rcv"), j \in DOMAIN Rows("snd") :
      Cardinality({k \in DOMAIN mem["rcv"].out :
                     mem["rcv"].out[k] = Rows("rcv")[i] /\ mem["snd"].out[k] = Rows("snd")[j]})
        = IF Same("rcv", i, j) THEN 1 ELSE 0

=============================================================================
