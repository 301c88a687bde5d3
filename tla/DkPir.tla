-------------------------------- MODULE DkPir -------------------------------
(* Duplicate-key PIR, algorithm/dkpir: the sender merges the rows of a key   *)
(* into one label and builds an APSI database of the labels and, to check    *)
(* what the receiver takes, one of encrypted row counts.  Online the same    *)
(* query runs against both, over OPRF responses the sender has shuffled; it  *)
(* gives the shuffle away only for a row count that fits the encrypted sum.  *)
(* The sender may be killed while it writes the three files of a generation. *)
(* APSI and ElGamal are external: a hashed item is the item with its OPRF    *)
(* key, and p(x) = a x + b under encryption is its coefficients of a and b.  *)
EXTENDS Integers, Sequences, FiniteSets, SequencesExt

CONSTANTS
  Tasks   \* [proto |-> "dkpir", gens: Seq([rows: Seq([key, label]), skip]),
          \*  query: Seq(key), skip, fits, crashes]

VARIABLES task, pc, net, mem, disk

vars == <<task, pc, net, mem, disk>>

NoFile == [gen |-> 0, whole |-> FALSE]
Random == -1
Keys(rows) == {rows[i].key : i \in DOMAIN rows}
Elements(q) == {q[i] : i \in DOMAIN q}

Init ==
  /\ task \in Tasks
  /\ pc = [snd |-> "start", rcv |-> "start"]
  /\ net = [snd |-> <<>>, rcv |-> <<>>]
  /\ mem = [gen |-> 0, crashes |-> 0, oprf |-> Random, order |-> <<>>, asked |-> 0, query |-> <<>>,
            sum |-> <<>>, charged |-> -1, data |-> <<>>, out |-> <<>>]
  /\ disk = [value |-> NoFile, key |-> NoFile, count |-> NoFile]

At(p, place) == pc[p] = place /\ net[p] # <<>>
Go(p, place) == pc' = [pc EXCEPT ![p] = place]
Took(p) == net' = [net EXCEPT ![p] = Tail(@)]
To(p, m) == net' = [net EXCEPT ![p] = Append(@, m)]
Answers(p, q, m) == net' = [net EXCEPT ![p] = Tail(@), ![q] = Append(@, m)]

-----------------------------------------------------------------------------
(* SenderOffline.                                                            *)

\* PreProcessData: MergeColumnAndRow keeps the rows of a key in their order
RowsOf(rows, k) == SelectSeq(rows, LAMBDA r : r.key = k)
MergeColumnAndRow(rows) == [k \in Keys(rows) |-> RowsOf(rows, k)]

\* the converter refuses a source with no row
PreProcessData ==
  /\ pc.snd = "start" /\ mem.gen < Len(task.gens)
  /\ mem' = [mem EXCEPT !.gen = @ + 1]
  /\ Go("snd", IF task.gens[mem.gen + 1].rows = <<>> THEN "start" ELSE "value")
  /\ UNCHANGED <<task, net, disk>>

\* the files of a generation in the order GenerateDB writes them; EncryptCount
\* saves the secret key before the count database exists
AfterSave(f) == CASE f = "value" /\ ~task.gens[mem.gen].skip -> "key"
                  [] f = "key" -> "count"
                  [] OTHER -> "start"

OpenFile(f) ==
  /\ pc.snd = f /\ disk[f] # [gen |-> mem.gen, whole |-> FALSE]
  /\ disk' = [disk EXCEPT ![f] = [gen |-> mem.gen, whole |-> FALSE]]
  /\ UNCHANGED <<task, pc, net, mem>>

GenerateDB(f) ==
  /\ pc.snd = f /\ disk[f] = [gen |-> mem.gen, whole |-> FALSE]
  /\ disk' = [disk EXCEPT ![f].whole = TRUE]
  /\ Go("snd", AfterSave(f)) /\ UNCHANGED <<task, net, mem>>

CrashOffline ==
  /\ pc.snd \in {"value", "key", "count"} /\ mem.crashes < task.crashes
  /\ mem' = [mem EXCEPT !.crashes = @ + 1]
  /\ Go("snd", "start") /\ UNCHANGED <<task, net, disk>>

-----------------------------------------------------------------------------
(* SenderOnline and ReceiverOnline.                                          *)

\* TryLoadSenderDB: a torn file is refused, or lacks only its OPRF key, and
\* then the key passed in stays
LoadKey(f, key) == IF disk[f].gen = 0 THEN {}
                   ELSE IF disk[f].whole THEN {disk[f].gen} ELSE {key}

\* LoadDB reads the key twice; a failure of LoadSecretKey is only logged
LoadDB ==
  /\ pc.snd = "start"
  /\ LET values == LoadKey("value", Random)
         keys == IF task.skip THEN values ELSE UNION {LoadKey("count", k) : k \in values}
         refused == \E f \in {"value"} \cup (IF task.skip THEN {} ELSE {"count"}) : ~disk[f].whole
     IN  \/ \E k \in keys : mem' = [mem EXCEPT !.oprf = k] /\ Go("snd", "oprf")
         \/ refused /\ Go("snd", "failed") /\ UNCHANGED mem
  /\ UNCHANGED <<task, net, disk>>

\* ExtractQueryTo copies the key column; ApsiCsvReader refuses a repeated key
Readable == Cardinality(Elements(task.query)) = Len(task.query)

ExtractItems ==
  /\ pc.rcv = "start" /\ pc.snd \in {"oprf", "failed"}
  /\ \/ /\ pc.snd = "failed" \/ ~Readable
        /\ Go("rcv", "failed") /\ UNCHANGED net
     \/ /\ pc.snd = "oprf" /\ Readable
        /\ To("snd", Len(task.query)) /\ Go("rcv", "oprf")
  /\ UNCHANGED <<task, mem, disk>>

\* ProcessQueries puts the answer to query i at order[i]
ProcessQueries(order) ==
  [i \in DOMAIN order |-> <<mem.oprf, CHOOSE j \in DOMAIN order : order[j] = i>>]

RunOPRF ==
  /\ At("snd", "oprf")
  /\ LET n == Head(net.snd)
         orders == IF task.skip THEN {[i \in 1 .. n |-> i]} ELSE SetToSeqs(1 .. n)
     IN  \E order \in orders :
           /\ Answers("snd", "rcv", ProcessQueries(order))
           /\ mem' = [mem EXCEPT !.order = order, !.asked = n]
  /\ Go("snd", IF task.skip THEN "data" ELSE "counts") /\ UNCHANGED <<task, disk>>

\* process_responses: one scalar masks all items, so an answer is unmasked
\* wherever it was put
ProcessResponses(r) == [i \in DOMAIN r |-> <<r[i][1], task.query[r[i][2]]>>]

RequestQuery ==
  /\ At("rcv", "oprf")
  /\ Answers("rcv", "snd", ProcessResponses(Head(net.rcv)))
  /\ Go("rcv", IF task.skip THEN "data" ELSE "counts") /\ UNCHANGED <<task, mem, disk>>

\* EncryptCount: p(count) under the key of generation g
EncryptCount(g, rows) == [gen |-> g, a |-> Len(rows), b |-> 1]

\* RunQuery: the label of a hashed item of the query, if file f holds the item
\* under the same OPRF key
RunQuery(f, query) ==
  LET g == disk[f].gen
      db == MergeColumnAndRow(task.gens[g].rows)
      label(k) == IF f = "value" THEN db[k] ELSE EncryptCount(g, db[k])
  IN  [i \in DOMAIN query |-> IF query[i][1] = g /\ query[i][2] \in DOMAIN db
                               THEN <<label(query[i][2])>> ELSE <<>>]

RunCountQuery ==
  /\ At("snd", "counts") /\ Answers("snd", "rcv", RunQuery("count", Head(net.snd)))
  /\ mem' = [mem EXCEPT !.query = Head(net.snd)]
  /\ Go("snd", "data") /\ UNCHANGED <<task, disk>>

Found(mrs) == SelectSeq(mrs, LAMBDA m : m # <<>>)
Sum(mrs, x) == FoldSeq(LAMBDA m, n : m[1][x] + n, 0, Found(mrs))

\* ComputeRowCountCt: without a match there is no ciphertext to serialize
ComputeRowCountCt ==
  /\ At("rcv", "counts")
  /\ LET mrs == Head(net.rcv)
     IN  \/ /\ Found(mrs) = <<>> /\ Took("rcv") /\ Go("rcv", "failed")
         \/ /\ Found(mrs) # <<>> /\ Go("rcv", "data")
            /\ Answers("rcv", "snd", [gen |-> Found(mrs)[1][1].gen, a |-> Sum(mrs, "a"), b |-> Sum(mrs, "b")])
  /\ UNCHANGED <<task, mem, disk>>

\* the query, again, against the labels; with the count check, once the sum of
\* the encrypted counts has come in
RunDataQuery ==
  /\ At("snd", "data")
  /\ IF task.skip
     THEN /\ Answers("snd", "rcv", RunQuery("value", Head(net.snd)))
          /\ Go("snd", "done") /\ UNCHANGED mem
     ELSE /\ Answers("snd", "rcv", RunQuery("value", mem.query))
          /\ mem' = [mem EXCEPT !.sum = <<Head(net.snd)>>, !.query = <<>>]
          /\ Go("snd", "check")
  /\ UNCHANGED <<task, disk>>

\* SaveResult: the rows of query i are in the record at the place its answer
\* was shuffled to
WriteUnshuffled(order, mrs) == FlattenSeq([i \in DOMAIN mrs |-> IF mrs[i] = <<>> THEN <<>> ELSE mrs[i][1]])
WriteIntersectionResults(order, mrs) ==
  FlattenSeq([i \in DOMAIN mrs |-> IF mrs[order[i]] = <<>> THEN <<>> ELSE mrs[order[i]][1]])

\* ExtractResult splits the labels; the converter refuses a file without a row, and a row that
\* does not split into the receiver's labels
Extractable(rows) == rows # <<>> /\ task.fits
SaveResult(order, mrs) ==
  LET rows == WriteIntersectionResults(order, mrs)
  IN  IF Extractable(rows)
      THEN mem' = [mem EXCEPT !.out = rows, !.data = <<>>] /\ Go("rcv", "done")
      ELSE mem' = [mem EXCEPT !.data = <<>>] /\ Go("rcv", "failed")

RowCount(mrs) == FoldSeq(LAMBDA m, n : Len(m[1]) + n, 0, Found(mrs))
ComputeRowCount ==
  /\ At("rcv", "data")
  /\ LET mrs == Head(net.rcv)
     IN  IF task.skip
         THEN Took("rcv") /\ SaveResult([i \in DOMAIN mrs |-> i], mrs)
         ELSE /\ Answers("rcv", "snd", RowCount(mrs)) /\ Go("rcv", "seed")
              /\ mem' = [mem EXCEPT !.data = mrs]
  /\ UNCHANGED <<task, disk>>

\* CheckRowCount: a row_count + b query_count against the decrypted sum
CountFits(ct, rows) == /\ disk.key.whole /\ ct.gen = disk.key.gen
                       /\ ct.a = rows /\ ct.b = mem.asked

\* SaveRowCount, then the shuffle is sent
CheckRowCount ==
  /\ At("snd", "check")
  /\ IF CountFits(mem.sum[1], Head(net.snd))
     THEN /\ Answers("snd", "rcv", mem.order) /\ Go("snd", "done")
          /\ mem' = [mem EXCEPT !.charged = Head(net.snd), !.sum = <<>>]
     ELSE Took("snd") /\ Go("snd", "failed") /\ UNCHANGED mem
  /\ UNCHANGED <<task, disk>>

ReceiveShuffleSeed ==
  /\ At("rcv", "seed") /\ Took("rcv") /\ SaveResult(Head(net.rcv), mem.data)
  /\ UNCHANGED <<task, disk>>

\* a wait on a peer that is gone ends in the link's timeout
TimesOut(p, q) ==
  /\ pc[q] \in {"failed", "done"} /\ net[p] = <<>>
  /\ pc[p] \in {"oprf", "counts", "data", "check", "seed"}
  /\ Go(p, "failed") /\ UNCHANGED <<task, net, mem, disk>>

Terminated == (\A p \in DOMAIN pc : pc[p] \in {"done", "failed"}) /\ UNCHANGED vars

Next ==
  \/ PreProcessData \/ CrashOffline
  \/ \E f \in {"value", "key", "count"} : OpenFile(f) \/ GenerateDB(f)
  \/ LoadDB \/ ExtractItems \/ RunOPRF \/ RequestQuery \/ RunCountQuery \/ ComputeRowCountCt
  \/ RunDataQuery \/ ComputeRowCount \/ CheckRowCount \/ ReceiveShuffleSeed
  \/ TimesOut("snd", "rcv") \/ TimesOut("rcv", "snd") \/ Terminated

Spec == Init /\ [][Next]_vars

-----------------------------------------------------------------------------
\* The rows of the queried keys in generation g, in the order of the query
Wanted(g) == FlattenSeq([i \in DOMAIN task.query |-> RowsOf(task.gens[g].rows, task.query[i])])

\* What a receiver writes (receiver.cc SaveResult) is every row of every key it
\* asked for, in the order of its query, from one generation of the database,
\* whatever order the sender shuffled the answers into and whichever of the
\* generation's files a killed sender left behind.  The row count the sender
\* writes down (entry.cc, after CheckRowCount) is the number of those rows, and
\* all queried keys are among them.  Without a crash, a mixed generation, an
\* absent key or labels that do not fit, nobody fails.
DkpirExact ==
  LET g == disk.value.gen
      all == Elements(task.query) \subseteq Keys(task.gens[g].rows)
      whole == \A f \in {"value", "key", "count"} : disk[f] = [gen |-> g, whole |-> TRUE]
  IN  /\ pc.rcv = "done" => mem.out = Wanted(g)
      /\ mem.charged >= 0 => all /\ mem.charged = Len(Wanted(g)) /\ disk.count.gen = g
      /\ (pc.rcv = "failed" /\ whole /\ all /\ task.fits) => ~Readable
=============================================================================
