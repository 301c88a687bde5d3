---------------------------- MODULE MCProtocols -----------------------------
(* The protocols that keep no state to recover from, or have their own way   *)
(* to, one task of one of them in each behaviour.  The modules share their   *)
(* variables; task.proto says which one a behaviour runs, and a module       *)
(* without files leaves disk alone.                                          *)
EXTENDS Integers, Sequences, FiniteSets, TLC

VARIABLES task, pc, net, mem, disk

vars == <<task, pc, net, mem, disk>>

-----------------------------------------------------------------------------
\* Unbalanced PSI: three rows each, two of them common, batches of two; two
\* launches, so that a stage can be cut and repeated.

Lines(ks, ds) == [i \in 1 .. Len(ks) |-> [key |-> ks[i], dup |-> ds[i]]]

UbTasks ==
  {[proto |-> "ub", srv |-> Lines(<<1, 2, 3>>, <<0, 2, 1>>),
    cli |-> Lines(<<4, 3, 2>>, <<0, 1, 2>>),
    srvGets |-> s, cliGets |-> c, keyFile |-> k, threshold |-> t] :
      s \in BOOLEAN, c \in BOOLEAN, k \in BOOLEAN, t \in {0, 1}}

UB == INSTANCE UbPsi WITH Tasks <- UbTasks, Batch <- 2, Window <- 1, MaxRuns <- 2

-----------------------------------------------------------------------------
\* Three-party ECDH-PSI: two batches each, and a party with none.

ThreePcTasks ==
  {[proto |-> "3pc", items |-> [a |-> <<1, 2, 3>>, b |-> <<3, 4, 2>>, c |-> <<5, 3, 2>>]],
   [proto |-> "3pc", items |-> [a |-> <<1>>, b |-> <<>>, c |-> <<1, 2>>]]}

TP == INSTANCE ThreePcPsi WITH Tasks <- ThreePcTasks, Batch <- 2, Window <- 1

-----------------------------------------------------------------------------
\* Server-aided multi-party PSI, with clients and for three parties.

NtyTasks ==
  {[proto |-> "nty", broadcast |-> b, items |-> i] : b \in BOOLEAN, i \in
     {[server |-> <<1, 2, 3, 4>>, helper |-> <<3, 4, 7>>, receiver |-> <<5, 3, 7>>,
       c1 |-> <<3, 5>>, c2 |-> <<2, 3, 6>>],
      [server |-> <<1, 2, 3, 6>>, helper |-> <<3, 4, 6>>, receiver |-> <<5, 3, 4, 2>>]}}

NT == INSTANCE NtyPsi WITH Tasks <- NtyTasks

-----------------------------------------------------------------------------
\* The tree of two-party runs: two to five parties, every size order.

NpartyTasks ==
  {[proto |-> "nparty", items |-> i, master |-> m] : m \in {0, 1},
     i \in UNION {[0 .. n - 1 -> {{1}, {1, 2}, {2, 3}, {}}] : n \in 2 .. 5}}

NP == INSTANCE NpartyPsi WITH Tasks <- NpartyTasks

-----------------------------------------------------------------------------
\* Zero sharing: three and four parties, an empty one among them, more parties
\* than items; a hash table that cannot be built.

Kmprt(i, l, f) == [proto |-> "kmprt", leader |-> l, items |-> i, fails |-> f]

KmprtTasks ==
  {Kmprt(i, l, f) : l \in {0, 1}, f \in {0, 1}, i \in
     {(0 :> <<1, 2, 3>> @@ 1 :> <<3, 4, 2>> @@ 2 :> <<5, 3>>),
      (0 :> <<1, 2>> @@ 1 :> <<3, 1>> @@ 2 :> <<1>>)}} \cup
  {Kmprt(i, l, 0) : l \in {0, 1}, i \in
     {(0 :> <<1, 2, 3, 4>> @@ 1 :> <<3, 4, 2>> @@ 2 :> <<5, 3>> @@ 3 :> <<2, 4, 3, 7>>),
      (0 :> <<1, 2, 3, 4>> @@ 1 :> <<3, 4, 2>> @@ 2 :> <<>>)}}

KM == INSTANCE KmprtPsi WITH Tasks <- KmprtTasks

-----------------------------------------------------------------------------
\* The threshold below, at and above the size of the intersection.

Threshold(r, s, t, b, c) ==
  [proto |-> "threshold", rcv |-> r, snd |-> s, threshold |-> t, broadcast |-> b,
   digest |-> FALSE, recovery |-> c > 0, crashes |-> c]

ThresholdTasks ==
  {Threshold(Lines(<<1, 2, 3>>, <<0, 2, 1>>), Lines(<<4, 3, 2, 1>>, <<0, 1, 2, 0>>), t, b, 0) :
     t \in {1, 2, 4}, b \in BOOLEAN} \cup
  {Threshold(Lines(<<1, 2, 3>>, <<0, 2, 0>>), Lines(<<3, 2>>, <<1, 0>>), t, b, 1) :
     t \in {1, 2}, b \in BOOLEAN} \cup
  {[Threshold(Lines(<<1, 2>>, <<0, 0>>), Lines(<<2, 1>>, <<0, 0>>), 1, b, 0) EXCEPT !.digest = d] :
     b \in BOOLEAN, d \in BOOLEAN}

TH == INSTANCE ThresholdPsi WITH Tasks <- ThresholdTasks, Batch <- 2, Window <- 1

-----------------------------------------------------------------------------
\* Joins: a table is a sequence of rows, a row of cells, a cell of characters.

Join(r, s, ur, us, kr, ks, ty, bc, al, ck, ed) ==
  [proto |-> "join", rows |-> [rcv |-> r, snd |-> s], unique |-> [rcv |-> ur, snd |-> us],
   keyCol |-> [rcv |-> kr, snd |-> ks], type |-> ty, left |-> "snd", broadcast |-> bc,
   align |-> al, check |-> ck, edit |-> ed]
Row2(a, b) == << <<a>>, <<b>> >>

Dups1 == <<Row2(1, 3), Row2(2, 1), Row2(1, 5), Row2(3, 1)>>
Dups2 == <<Row2(7, 2), Row2(6, 1), Row2(5, 4), Row2(5, 2), Row2(4, 1)>>
Keys1 == <<Row2(2, 9), Row2(1, 8), Row2(4, 7)>>
Keys2 == <<Row2(5, 9), Row2(2, 8)>>

JoinTasks ==
  {Join(Dups1, Dups2, FALSE, FALSE, 1, 2, ty, bc, TRUE, TRUE, <<>>) :
     ty \in {"inner", "left", "right", "full", "difference"}, bc \in BOOLEAN} \cup
  {Join(Keys1, Dups2, TRUE, FALSE, 1, 2, ty, TRUE, TRUE, TRUE, <<>>) : ty \in {"inner", "full"}} \cup
  {Join(Keys1, x, TRUE, TRUE, 1, 1, ty, TRUE, al, ck, <<[rcv |-> Keys2, snd |-> Keys1]>>) :
     al \in BOOLEAN, x \in {Keys1, Keys2}, ty \in {"inner", "full"}, ck \in BOOLEAN} \cup
  {Join(Dups1, <<>>, FALSE, FALSE, 1, 1, ty, TRUE, TRUE, TRUE, <<>>) : ty \in {"inner", "full"}}

JN == INSTANCE JoinPsi WITH Tasks <- JoinTasks, Batch <- 2

-----------------------------------------------------------------------------
\* The OPRF of RR22: what an item hashes to is given with the task.  In
\* low_comm_mode every item is in the tail of its block at both parties, or in
\* a whole block whose rows leave no gap.  One bin has a gap of two or more
\* rows in FastMode; bins with too little room, per thread and in all.

Fast(b, w, d) == [bin |-> b, words |-> w, dense |-> d]
Low(b, w, lo, hi) == [bin |-> b, words |-> w, dense |-> [lo |-> lo, hi |-> hi]]
FastHash == <<Fast(0, <<0, 1, 1>>, 1), Fast(1, <<4, 3, 2>>, 2), Fast(0, <<6, 5, 0>>, 3),
              Fast(2, <<2, 2, 2>>, 2), Fast(1, <<0, 0, 0>>, 3)>>
LowHash == <<Low(0, <<0, 1, 1>>, {0}, {1}), Low(1, <<4, 3, 2>>, {1}, {0}),
             Low(0, <<6, 5, 0>>, {}, {0, 1}), Low(2, <<2, 2, 2>>, {0, 1}, {})>>
Oprf(mode, mal, r, s, h, b, t, sp, d, g) ==
  [proto |-> "rr22", mode |-> mode, malicious |-> mal, items |-> [rcv |-> r, snd |-> s],
   hash |-> h, bins |-> b, threads |-> t, sparse |-> sp, dense |-> d, gap |-> g,
   perThread |-> 5, perBin |-> 5]
Tight(o, pt, pb) == [o EXCEPT !.perThread = pt, !.perBin = pb]

Rr22Tasks ==
  {Oprf("fast", m, <<1, 2, 3, 4, 5>>, <<5, 3, 1>>, FastHash, 2, 2, sp, 1, 1) :
     m \in BOOLEAN, sp \in {4, 5}} \cup
  {Oprf("fast", FALSE, <<2, 1, 5>>, <<1, 3, 2, 4>>, FastHash, 1, 1, sp, 2, 2) : sp \in {4, 5}} \cup
  {Oprf("lowcomm", FALSE, <<2, 1>>, s, LowHash, 1, 1, sp, 2, 2) :
     sp \in {3, 4, 5}, s \in {<<1, 3>>, <<3, 2>>}} \cup
  {Oprf("lowcomm", FALSE, <<4, 2>>, <<1, 2>>, LowHash, 1, 1, 3, 1, 1),
   Oprf("lowcomm", FALSE, <<2, 1, 3>>, <<1, 3, 4>>, LowHash, 1, 1, 5, 2, 2),
   Oprf("fast", FALSE, <<1, 2, 1>>, <<2>>, FastHash, 1, 1, 5, 1, 1),
   Oprf("fast", FALSE, <<1, 2, 3>>, <<2>>, FastHash, 1, 1, 3, 2, 2)} \cup
  {Tight(Oprf("fast", FALSE, i, <<2>>, FastHash, 2, 1, 5, 1, 1), b[1], b[2]) :
     i \in {<<1, 3>>, <<1, 3, 4>>}, b \in {<<1, 3>>, <<3, 1>>, <<2, 2>>}}

RR == INSTANCE Rr22Oprf WITH Tasks <- Rr22Tasks, Block <- 3

-----------------------------------------------------------------------------
\* Keyword PIR (APSI): three buckets in two groups, a bundle of two per bin;
\* a crash of the sender, both ways to stream, the library interface, repeated
\* keys on both sides and a query that fills the cuckoo table.

Labelled(ks) == [i \in DOMAIN ks |-> [key |-> ks[i], label |-> ks[i] + 10]]
Grouped ==
  [proto |-> "apsi", source |-> Labelled(<<1, 2, 3, 4>>), query |-> <<2, 3, 5>>,
   bucketized |-> TRUE, buckets |-> 3, groups |-> 2, procs |-> 2,
   bucketOf |-> [k \in 1 .. 6 |-> k % 3], locs |-> [k \in 1 .. 6 |-> {k % 4, (k + 1) % 4}],
   slots |-> 4, perBundle |-> 2, maxPerBin |-> 1, sndStream |-> TRUE, rcvStream |-> TRUE,
   workers |-> 2, api |-> FALSE, hasParams |-> FALSE, crashes |-> 1]
Calm == [Grouped EXCEPT !.crashes = 0]
Single == [Calm EXCEPT !.procs = 1]
Whole == [Grouped EXCEPT !.bucketized = FALSE, !.buckets = 1, !.groups = 1, !.procs = 1,
                         !.bucketOf = [k \in 1 .. 6 |-> 0]]
Api == [Single EXCEPT !.api = TRUE]
Crowded == [k \in 1 .. 6 |-> {0}]

\* one child for three groups, which gives up at the second: the third group is
\* left to the process that serves it
GivesUp(t) == [t EXCEPT !.groups = 3, !.source = Labelled(<<3, 1, 1, 2>>), !.query = <<2, 3>>]

ApsiTasks ==
  {Grouped,
   [Single EXCEPT !.sndStream = FALSE],
   [Calm EXCEPT !.rcvStream = FALSE, !.hasParams = TRUE],
   [Calm EXCEPT !.source = Labelled(<<1, 2, 2>>)],
   GivesUp(Single), GivesUp([Api EXCEPT !.crashes = 1]),
   [Grouped EXCEPT !.groups = 3, !.procs = 1, !.source = Labelled(<<1, 2>>), !.query = <<2>>],
   [Single EXCEPT !.query = <<2, 2>>],
   [Single EXCEPT !.locs = Crowded, !.query = <<1, 2, 5>>],
   Whole,
   [Whole EXCEPT !.source = Labelled(<<1, 1>>)],
   [Whole EXCEPT !.sndStream = FALSE, !.rcvStream = FALSE, !.maxPerBin = 2, !.crashes = 0],
   [Api EXCEPT !.query = <<1, 2, 4>>],
   [Api EXCEPT !.source = Labelled(<<1, 3>>)],
   [Api EXCEPT !.source = <<>>],
   [Whole EXCEPT !.bucketized = TRUE, !.api = TRUE, !.query = <<2>>],
   [Api EXCEPT !.source = Labelled(<<2, 2, 1, 3>>)],
   [Api EXCEPT !.source = Labelled(<<1, 1, 2>>)],
   [Api EXCEPT !.locs = Crowded, !.query = <<1, 2, 5>>]}

AP == INSTANCE ApsiPsi WITH Tasks <- ApsiTasks

-----------------------------------------------------------------------------
\* Keyword PIR with duplicate keys: one or two generations of the database.

Pair(k, l) == [key |-> k, label |-> l]
Old == <<Pair(1, 11), Pair(2, 21), Pair(1, 12), Pair(3, 31)>>
New == <<Pair(2, 22), Pair(1, 13), Pair(4, 41), Pair(2, 23)>>
Gen(r, s) == [rows |-> r, skip |-> s]
Dk(g, q, s, f, c) ==
  [proto |-> "dkpir", gens |-> g, query |-> q, skip |-> s, fits |-> f, crashes |-> c]

DkTasks ==
  {Dk(<<Gen(Old, FALSE), Gen(New, s)>>, <<2, 1>>, FALSE, TRUE, 1) : s \in BOOLEAN} \cup
  {Dk(<<Gen(Old, FALSE)>>, q, FALSE, TRUE, 0) : q \in {<<3, 1, 2>>, <<2, 4>>, <<4>>, <<2, 2>>}} \cup
  {Dk(<<Gen(Old, FALSE)>>, <<2>>, FALSE, FALSE, 0),
   Dk(<<Gen(<<>>, TRUE), Gen(Old, TRUE)>>, <<4, 3, 1>>, TRUE, TRUE, 1),
   Dk(<<Gen(Old, TRUE)>>, <<4>>, TRUE, TRUE, 0)}

DK == INSTANCE DkPir WITH Tasks <- DkTasks

-----------------------------------------------------------------------------
\* SealPIR: several rows to a plaintext, one, and a row over two plaintexts;
\* one to three dimensions, each index; 64 plaintexts in three dimensions.

Seal(rows, size, dim, table, dump, i) ==
  [proto |-> "sealpir", N |-> 4, t |-> 41, logt |-> 5, ratio |-> 3,
   options |-> [rows |-> IF table THEN 1 ELSE rows, size |-> size, dim |-> dim],
   table |-> table, rows |-> rows, size |-> size, index |-> i, dump |-> dump]

SealTasks ==
  UNION {{Seal(r[1], r[2], r[3], r[4], r[5], i) : i \in 0 .. r[1] - 1} :
    r \in {<<1, 1, 2, FALSE, FALSE>>, <<5, 1, 1, FALSE, TRUE>>, <<5, 2, 2, FALSE, FALSE>>,
           <<9, 3, 2, FALSE, TRUE>>, <<16, 2, 2, TRUE, FALSE>>, <<9, 5, 1, FALSE, FALSE>>,
           <<27, 4, 3, FALSE, FALSE>>, <<30, 2, 2, FALSE, TRUE>>}} \cup
  {Seal(64, 2, 3, FALSE, FALSE, 63), Seal(65, 2, 3, FALSE, TRUE, 64)}

SE == INSTANCE SealPir WITH Tasks <- SealTasks

-----------------------------------------------------------------------------
\* Spiral: 1, 2, 4, 6, 11 and 20 plaintexts, one row over two plaintexts,
\* several to one; refused sizes; plaintext moduli 2^8 and 2^4, of which a
\* server that stores plaintexts refuses the second.  The
\* polynomials of length 16 are there for a query whose two halves stop
\* expanding at different rounds.

Spir(mode, p, q2, fresh, rows, size, i) ==
  [proto |-> "spiral", len |-> 8, moduli |-> <<113, 401>>, p |-> p, q2 |-> q2,
   t_conv |-> 2, t_exp_left |-> 2, t_exp_right |-> 3, t_gsw |-> 2, mode |-> mode,
   options |-> IF fresh THEN [rows |-> 1, size |-> 1] ELSE [rows |-> rows, size |-> size],
   rows |-> rows, size |-> size, index |-> i]
Long(t) == [t EXCEPT !.len = 16, !.moduli = <<193, 353>>]

SpiralTasks ==
  {Spir("reorient", 256, 16417, FALSE, 3, 32, i) : i \in {0, 2}} \cup
  {Spir("raw", 256, 16417, FALSE, 7, 40, i) : i \in {4, 6}} \cup
  {Spir("table", 256, 16417, TRUE, 11, 10, i) : i \in {0, 7}} \cup
  {Spir("reorient", 256, 16417, FALSE, 11, 32, i) : i \in {5, 10}} \cup
  {Spir("reorient", 16, 12289, FALSE, 13, 7, i) : i \in {5, 12}} \cup
  {Spir("table", 256, 16417, TRUE, 27, 10, 0), Spir("table", 256, 16417, FALSE, 5, 20, 3),
   Spir("raw", 256, 16417, FALSE, 17, 32, 3),
   Spir("raw", 16, 12289, FALSE, 13, 7, 5), Spir("table", 16, 12289, FALSE, 13, 7, 5),
   Long(Spir("reorient", 256, 16417, FALSE, 20, 64, 17)),
   Long(Spir("table", 256, 16417, TRUE, 6, 70, 4))}

SP == INSTANCE Spiral WITH Tasks <- SpiralTasks

-----------------------------------------------------------------------------
\* The experimental PIR schemes.  PIANO: two and three chunks, with padding and
\* without, enough backups and one per chunk, an index in no set.

Piano(e, tot, b, t, s, asks) ==
  [proto |-> "piano", entries |-> e, total |-> tot, backups |-> b, threads |-> t, seed |-> s,
   asks |-> asks, queries |-> 4]
PianoTasks ==
  {Piano(e, 5, 2, t, s, {0, 1, 2, 5, 8, e - 1}) : e \in {13, 16}, t \in {1, 3}, s \in {2, 5}} \cup
  {Piano(33, 12, 1, 1, s, {4, 5, 6, 20, 28, 32}) : s \in {3, 4}}

PI == INSTANCE PianoPir WITH Tasks <- PianoTasks

\* PPS: the values of the leaves of each key; one key without enough of them.

Leaves(keys) == [k \in DOMAIN keys |-> [p \in 0 .. Len(keys[k]) - 1 |-> keys[k][p + 1]]]
Leaf6 == Leaves(<< <<0, 2, 5>>, <<3, 3, 1>>, <<4, 1, 0>>, <<2, 3, 4>>, <<5, 0, 1>>, <<1, 2, 3>>,
                   <<0, 4, 2>> >>)
Leaf8 == Leaves(<< <<0, 2, 5, 7>>, <<1, 1, 3, 4>>, <<6, 3, 1, 0>>, <<2, 7, 4, 5>>, <<1, 0, 6, 3>>,
                   <<5, 4, 2, 7>> >>)
Pps(multi, n, s, m, leaf, asks, q) ==
  [proto |-> "pps", multi |-> multi, n |-> n, s |-> s, m |-> m, leaf |-> leaf, asks |-> asks,
   queries |-> q]
PpsTasks ==
  {Pps(TRUE, 6, 3, 2, Leaf6, {0, 1, 3}, 3), Pps(TRUE, 8, 4, 2, Leaf8, {2, 5}, 2),
   Pps(FALSE, 6, 3, 2, Leaf6, {1, 4}, 2), Pps(FALSE, 8, 4, 1, Leaf8, {1, 4}, 2)}

PP == INSTANCE PpsPir WITH Tasks <- PpsTasks

\* SimplePIR: p that divides q and p that does not, errors of either sign.

Grid(a, b, c, d) == 0 :> (0 :> a @@ 1 :> b) @@ 1 :> (0 :> c @@ 1 :> d)
Secret(a, b) == 0 :> a @@ 1 :> b
Simple(p, db) ==
  [proto |-> "simplepir", q |-> 256, p |-> p, rows |-> 2, dimension |-> 2,
   rand |-> <<517, 90, 243, 61>>, db |-> db,
   secrets |-> {Secret(3, 250), Secret(200, 17), Secret(0, 0)}, errors |-> {-1, 0, 1}, queries |-> 2]
SimpleTasks ==
  {Simple(5, Grid(0, 4, 3, 4)), Simple(6, Grid(4, 0, 3, 4)), Simple(4, Grid(0, 1, 2, 3))}

SI == INSTANCE SimplePir WITH Tasks <- SimpleTasks, Word <- 65536

-----------------------------------------------------------------------------

NoDisk == disk = << >>

Init ==
  \/ UB!Init
  \/ AP!Init
  \/ DK!Init
  \/ TH!Init
  \/ NoDisk /\ (\/ TP!Init \/ NT!Init \/ NP!Init \/ KM!Init
                \/ JN!Init \/ RR!Init \/ SE!Init \/ SP!Init
                \/ PI!Init \/ PP!Init \/ SI!Init)

Runs(proto) == task.proto = proto

Next ==
  \/ Runs("ub") /\ UB!Next
  \/ Runs("apsi") /\ AP!Next
  \/ Runs("dkpir") /\ DK!Next
  \/ Runs("3pc") /\ TP!Next /\ UNCHANGED disk
  \/ Runs("nty") /\ NT!Next /\ UNCHANGED disk
  \/ Runs("nparty") /\ NP!Next /\ UNCHANGED disk
  \/ Runs("kmprt") /\ KM!Next /\ UNCHANGED disk
  \/ Runs("threshold") /\ TH!Next
  \/ Runs("join") /\ JN!Next /\ UNCHANGED disk
  \/ Runs("rr22") /\ RR!Next /\ UNCHANGED disk
  \/ Runs("sealpir") /\ SE!Next /\ UNCHANGED disk
  \/ Runs("spiral") /\ SP!Next /\ UNCHANGED disk
  \/ Runs("piano") /\ PI!Next /\ UNCHANGED disk
  \/ Runs("pps") /\ PP!Next /\ UNCHANGED disk
  \/ Runs("simplepir") /\ SI!Next /\ UNCHANGED disk

Spec == Init /\ [][Next]_vars

-----------------------------------------------------------------------------
\* Unbalanced PSI: with a whole copy of a whole cache, the online stage gives
\* each party that gets a result exactly its rows of the intersection, or as
\* many as the threshold allows (server.cc:116-203, ecdh_oprf_psi.cc:194-346).
OnlineExact == Runs("ub") => UB!OnlineExact

\* Unbalanced PSI: a cache file that the server accepts holds every row once,
\* under one key, whatever cut an earlier generation short
\* (ub_psi_cache.cc:44-63, 123-160).
CacheWhole == Runs("ub") => UB!CacheWhole

\* Three-party ECDH-PSI: the master finds exactly its items both partners have
\* (ecdh_3pc_psi.cc:235-349).
ThreePcExact == Runs("3pc") => TP!ThreePcExact

\* Server-aided multi-party PSI: everyone entitled to the result has exactly
\* the common items (nty_mp_psi.cc:86-388).
NtyExact == Runs("nty") => NT!NtyExact

\* The tree of two-party runs leaves the common items with the master alone
\* (nparty_psi.cc:60-246).
NpartyExact == Runs("nparty") => NP!NpartyExact

\* Zero sharing: shares cancel for the common items and no others, wherever
\* there are no more parties than items (kmprt17_mp_psi.cc:46-161).
KmprtExact == Runs("kmprt") => KM!KmprtExact

\* Threshold ECDH-PSI: the receiver has as many rows of the intersection as
\* allowed, each with the sender's count (threshold_ecdh_psi.cc:52-336).
ThresholdExact == Runs("threshold") => TH!ThresholdExact

\* Joins: every row is in its owner's file as often as the join type asks, and
\* the files agree line by line (join_processor.cc:270-341).
JoinExact == Runs("join") => JN!JoinExact

\* RR22: the OPRF values agree exactly for the common items, and an encoding
\* is given up only when its rows are dependent (rr22_oprf.cc:124-591,
\* paxos.cc:237-2284, baxos.cc:130-679).
Rr22Exact == Runs("rr22") => RR!Rr22Exact

\* APSI: the receiver's file has every queried key of the sender with its
\* label and nothing else, and it fails only for the reasons listed there
\* (receiver.cc:234-666, sender.cc:138-475, group_db.cc:184-567).
ApsiExact == Runs("apsi") => AP!ApsiExact

\* DKPIR: the receiver's file has every row of every queried key, in the order
\* of the query, and the count the sender saves is their number
\* (dkpir/entry.cc:60-340).
DkpirExact == Runs("dkpir") => DK!DkpirExact

\* SealPIR: the client decodes the row it asked for, from any database that
\* GetDimensions has room for (seal_pir.cc:613-1470).
SealPirExact == Runs("sealpir") => SE!SealPirExact

\* Spiral: the client decodes the row it asked for, or the parameters were
\* refused (spiral_server.cc:337-1065, spiral_client.cc:105-577).
SpiralExact == Runs("spiral") => SP!SpiralExact

\* The experimental schemes, whose clients keep hints that each query changes:
\* after any sequence of queries an answer is the entry at the index, and none
\* is given only where the hints cannot give it (piano/client.cc:201-314,
\* pps/client.cc:59-178, simplepir/client.cc:57-90).
HintPirExact ==
  /\ Runs("piano") => PI!PianoExact
  /\ Runs("pps") => PP!PpsExact
  /\ Runs("simplepir") => SI!SimplePirExact
=============================================================================
