------------------------------- MODULE UbPsi --------------------------------
(* Unbalanced PSI: the server masks its items once and keeps them in a cache *)
(* file (OFFLINE_GEN_CACHE), sends them to the client, who keeps a copy      *)
(* (OFFLINE_TRANSFER_CACHE), and evaluates the client's blinded items later  *)
(* (ONLINE); algorithm/ecdh/ub_psi/{server,client,ecdh_oprf_psi,             *)
(* ub_psi_cache}.cc and the stores of utils/ec_point_store.cc.  A key x under *)
(* the server's private key s is the pair [key |-> x, mask |-> s].           *)
EXTENDS Integers, Sequences, FiniteSets

CONSTANTS
  Tasks,    \* [proto |-> "ub", srv, cli: Seq([key, dup]), srvGets, cliGets, keyFile;
            \*  threshold: intersection_threshold, 0 for none]
  Batch,    \* EcdhOprfPsiOptions.batch_size
  Window,   \* throttle window: messages on a link that are not received yet
  MaxRuns   \* bound: launches in a behaviour

VARIABLES
  task,   \* inputs and configuration
  pc,     \* pc[t]: thread t is srv, cli (the client's main thread) or snd
  net,    \* net[c]: messages of the steps xfer, blind, eval, index
  mem,    \* memory of the processes, and bookkeeping of the launches
  disk    \* the server's cache file and its meta, the client's copy and its meta

vars == <<task, pc, net, mem, disk>>

Modes == {"GEN", "TRANSFER", "OFFLINE", "ONLINE", "FULL"}
None == [none |-> TRUE]

Other(p) == IF p = "srv" THEN "cli" ELSE "srv"
Take(s, n) == SubSeq(s, 1, IF n < Len(s) THEN n ELSE Len(s))
Drop(s, n) == SubSeq(s, n + 1, Len(s))
Perms(n) == {f \in [1 .. n -> 1 .. n] : \A i, j \in 1 .. n : f[i] = f[j] => i = j}
Shuffled(s, f) == [i \in 1 .. Len(s) |-> s[f[i]]]

Goto(t, place) == pc' = [pc EXCEPT ![t] = place]

\* SendAsyncThrottled and Recv
CanSend(c) == Len(net[c]) < Window
Send(c, m) == net' = [net EXCEPT ![c] = Append(@, m)]
Arrived(c) == net[c] # <<>>
Recv(c) == net' = [net EXCEPT ![c] = Tail(@)]

Fresh == [mode |-> "GEN", key |-> 0, todo |-> <<>>, got |-> <<>>, dup |-> <<>>, uniq |-> 0,
          total |-> 0, self |-> <<>>, perm |-> <<>>, found |-> {}, real |-> 0, fin |-> [srv |-> 0, cli |-> 0],
          out |-> [srv |-> None, cli |-> None],
          runs |-> 0, keys |-> 0, crashed |-> FALSE, whole |-> FALSE, copied |-> FALSE]

Init ==
  /\ task \in Tasks
  /\ pc = [srv |-> "idle", cli |-> "idle", snd |-> "idle"]
  /\ net = [c \in {"xfer", "blind", "eval", "index"} |-> <<>>]
  /\ mem = Fresh
  /\ disk = [data |-> <<>>, meta |-> None, items |-> <<>>, cnt |-> 0, peer |-> 0]

\* AbstractUbPsiParty::Run; a client has nothing to generate
Launch(mode) ==
  /\ pc.srv = "idle" /\ pc.cli = "idle" /\ mem.runs < MaxRuns
  /\ mem' = [Fresh EXCEPT !.mode = mode, !.runs = mem.runs + 1, !.keys = mem.keys,
                          !.crashed = mem.crashed, !.whole = mem.whole, !.copied = mem.copied]
  /\ net' = [c \in DOMAIN net |-> <<>>]
  /\ pc' = CASE mode = "GEN"      -> [pc EXCEPT !.srv = "gen"]
             [] mode = "TRANSFER" -> [pc EXCEPT !.srv = "cache", !.cli = "store"]
             [] mode = "ONLINE"   -> [pc EXCEPT !.srv = "key", !.cli = "open"]
             [] mode \in {"OFFLINE", "FULL"} -> [pc EXCEPT !.srv = "gen", !.cli = "store"]
  /\ UNCHANGED <<task, disk>>

-----------------------------------------------------------------------------
(* The server's cache.                                                       *)

\* OfflineGenCache: the key is read from the file or drawn; UbPsiCache opens
\* the data file anew; SimpleShuffledBatchProvider shuffles the rows
GenStart ==
  /\ pc.srv = "gen"
  /\ \E f \in Perms(Len(task.srv)) :
       mem' = [mem EXCEPT !.key = IF task.keyFile THEN 0 ELSE mem.keys + 1,
                          !.keys = @ + 1,
                          !.whole = FALSE, !.copied = FALSE,
                          !.todo = Shuffled([i \in 1 .. Len(task.srv) |-> i - 1], f)]
  /\ disk' = [disk EXCEPT !.data = <<>>]
  /\ Goto("srv", "evaluate") /\ UNCHANGED <<task, net>>

\* FullEvaluate masks a batch, and SaveData writes it to the stream
FullEvaluate ==
  /\ pc.srv = "evaluate" /\ mem.todo # <<>>
  /\ disk' = [disk EXCEPT !.data = @ \o [i \in 1 .. Len(Take(mem.todo, Batch)) |->
                LET row == mem.todo[i] IN
                [key |-> task.srv[row + 1].key, mask |-> mem.key,
                 row |-> row, dup |-> task.srv[row + 1].dup]]]
  /\ mem' = [mem EXCEPT !.todo = Drop(@, Batch)]
  /\ UNCHANGED <<task, pc, net>>

\* UbPsiCache::Flush writes the meta file first
FlushMeta ==
  /\ pc.srv = "evaluate" /\ mem.todo = <<>>
  /\ disk' = [disk EXCEPT !.meta = [cnt |-> Len(disk.data), key |-> mem.key]]
  /\ Goto("srv", "flush") /\ UNCHANGED <<task, net, mem>>

FlushData ==
  /\ pc.srv = "flush"
  /\ mem' = [mem EXCEPT !.whole = TRUE]
  /\ Goto("srv", IF mem.mode = "GEN" THEN "idle" ELSE "cache")
  /\ UNCHANGED <<task, net, disk>>

\* any file with a meta file will do
CacheAcceptedUnchecked == disk.meta # None

\* UbPsiCacheProvider: both files exist and their counts agree
CacheAccepted == disk.meta # None /\ disk.meta.cnt = Len(disk.data)

-----------------------------------------------------------------------------
(* The transfer.                                                             *)

OpenCache ==
  /\ pc.srv = "cache"
  /\ mem' = [mem EXCEPT !.todo = disk.data]
  /\ Goto("srv", IF CacheAccepted THEN "transfer" ELSE "failed")
  /\ UNCHANGED <<task, net, disk>>

\* the closing batch carries no items
SendFinalEvaluatedItems ==
  /\ pc.srv = "transfer" /\ CanSend("xfer")
  /\ Send("xfer", Take(mem.todo, Batch))
  /\ mem' = [mem EXCEPT !.todo = Drop(@, Batch),
                        !.fin.srv = IF mem.todo = <<>> THEN @ + 1 ELSE @]
  /\ Goto("srv", IF mem.todo = <<>> THEN "barrier" ELSE "transfer")
  /\ UNCHANGED <<task, disk>>

\* The client removes an old cache; UbPsiClientCacheFileStore starts a new one
OpenStore ==
  /\ pc.cli = "store"
  /\ disk' = [disk EXCEPT !.items = <<>>, !.cnt = 0, !.peer = 0]
  /\ mem' = [mem EXCEPT !.copied = FALSE]
  /\ Goto("cli", "receive") /\ UNCHANGED <<task, net>>

PeerCount(items) == LET f[i \in 0 .. Len(items)] == IF i = 0 THEN 0 ELSE f[i - 1] + items[i].dup + 1
                    IN  f[Len(items)]

\* UbPsiClientCacheFileStore::Flush, DumpMeta
FlushStore == disk' = [disk EXCEPT !.cnt = Len(disk.items), !.peer = PeerCount(disk.items)]

RecvFinalEvaluatedItems ==
  LET batch == Head(net.xfer) IN
  /\ pc.cli = "receive" /\ Arrived("xfer")
  /\ Recv("xfer")
  /\ IF batch # <<>>
     THEN /\ disk' = [disk EXCEPT !.items = @ \o [i \in 1 .. Len(batch) |->
                        [key |-> batch[i].key, mask |-> batch[i].mask, dup |-> batch[i].dup]]]
          /\ UNCHANGED <<pc, mem>>
     ELSE /\ FlushStore
          /\ mem' = [mem EXCEPT !.fin.cli = @ + 1, !.copied = mem.whole]
          /\ Goto("cli", "barrier")
  /\ UNCHANGED task

\* The barrier, and the end of SyncWait
Barrier(p) ==
  /\ pc[p] = "barrier" /\ mem.fin[Other(p)] >= mem.fin[p]
  /\ Goto(p, IF mem.mode = "FULL" /\ mem.fin[p] = 1
             THEN IF p = "srv" THEN "key" ELSE "open"
             ELSE "idle")
  /\ UNCHANGED <<task, net, mem, disk>>

-----------------------------------------------------------------------------
(* The online stage.                                                         *)

\* Online at the server: the key of the file, or the cache's
OnlineKey ==
  /\ pc.srv = "key"
  /\ IF task.keyFile \/ CacheAccepted
     THEN /\ mem' = [mem EXCEPT !.key = IF task.keyFile THEN 0 ELSE disk.meta.key]
          /\ Goto("srv", "evalBlind")
     ELSE Goto("srv", "failed") /\ UNCHANGED mem
  /\ UNCHANGED <<task, net, disk>>

\* Online at the client opens its copy of the cache, which has to have as many
\* items as its meta says (and is made, empty, if it is missing), and starts
\* the thread of SendBlindedItems
OnlineOpen ==
  /\ pc.cli = "open"
  /\ IF Len(disk.items) = disk.cnt
     THEN pc' = [pc EXCEPT !.cli = "evaluated", !.snd = "blind"]
     ELSE Goto("cli", "failed")
  /\ mem' = [mem EXCEPT !.got = task.cli]
  /\ UNCHANGED <<task, net, disk>>

\* a batch that is empty is the last; counts go along if the server needs them
SendBlindedItems ==
  /\ pc.snd = "blind" /\ CanSend("blind")
  /\ Send("blind", [i \in 1 .. Len(Take(mem.got, Batch)) |->
                      [key |-> mem.got[i].key, dup |-> IF task.srvGets THEN mem.got[i].dup ELSE 0]])
  /\ mem' = [mem EXCEPT !.got = Drop(@, Batch)]
  /\ Goto("snd", IF mem.got = <<>> THEN "idle" ELSE "blind")
  /\ UNCHANGED <<task, disk>>

Evaluate(batch) == [i \in 1 .. Len(batch) |-> [key |-> batch[i].key, mask |-> mem.key]]

\* PeerCntInfo: counts by the item's position among all blinded items
CountPeer(m, batch) ==
  [m EXCEPT !.dup = [i \in 0 .. m.uniq + Len(batch) - 1 |->
                       IF i < m.uniq THEN m.dup[i] ELSE batch[i - m.uniq + 1].dup],
            !.total = @ + PeerCount(batch), !.uniq = @ + Len(batch)]

AfterRestore == IF task.srvGets THEN "indexes" ELSE "finish"

AfterEvaluate == IF task.threshold > 0 /\ task.cliGets THEN "restore" ELSE AfterRestore

\* The evaluated items are shuffled if the client may not learn which of its
\* items match, and in ThresholdEcdhUbPsiServer
Shuffles == ~task.cliGets \/ task.threshold > 0

\* RecvBlindAndSendEvaluate: a batch comes in and goes out
RecvBlindAndSendEvaluate ==
  LET batch == Head(net.blind) IN
  /\ pc.srv = "evalBlind" /\ ~Shuffles
  /\ Arrived("blind") /\ CanSend("eval")
  /\ net' = [net EXCEPT !.blind = Tail(@), !.eval = Append(@, Evaluate(batch))]
  /\ mem' = CountPeer(mem, batch)
  /\ Goto("srv", IF batch = <<>> THEN AfterEvaluate ELSE "evalBlind")
  /\ UNCHANGED <<task, disk>>

\* RecvBlindAndShuffleSendEvaluate: all batches come in first, are shuffled
\* with their counts, and go out
RecvBlindAndShuffle ==
  LET batch == Head(net.blind) IN
  /\ pc.srv = "evalBlind" /\ Shuffles
  /\ Arrived("blind") /\ Recv("blind")
  /\ IF batch # <<>>
     THEN /\ mem' = [CountPeer(mem, batch) EXCEPT !.todo = (IF mem.uniq = 0 THEN <<>> ELSE @) \o Evaluate(batch)]
          /\ UNCHANGED pc
     ELSE /\ \E f \in Perms(mem.uniq) :
               mem' = [mem EXCEPT !.todo = IF mem.uniq = 0 THEN <<>> ELSE Shuffled(@, f),
                                  !.perm = f,
                                  !.dup = [i \in 0 .. mem.uniq - 1 |-> @[f[i + 1] - 1]]]
          /\ Goto("srv", "sendEval")
  /\ UNCHANGED <<task, disk>>

SendEvaluate ==
  /\ pc.srv = "sendEval" /\ CanSend("eval")
  /\ Send("eval", Take(mem.todo, Batch))
  /\ mem' = [mem EXCEPT !.todo = Drop(@, Batch)]
  /\ Goto("srv", IF mem.todo = <<>> THEN AfterEvaluate ELSE "sendEval")
  /\ UNCHANGED <<task, disk>>

\* RecvEvaluatedItems: unblinded items go to UbPsiClientCacheMemoryStore
RecvEvaluatedItems ==
  LET batch == Head(net.eval) IN
  /\ pc.cli = "evaluated" /\ Arrived("eval") /\ Recv("eval")
  /\ mem' = [mem EXCEPT !.self = @ \o batch]
  /\ Goto("cli", IF batch = <<>> THEN "compute" ELSE "evaluated")
  /\ UNCHANGED <<task, disk>>

\* Matches of the client's memory store with its copy of the cache, as
\* positions in both
Matches == {x \in (1 .. Len(mem.self)) \X (1 .. Len(disk.items)) :
              /\ mem.self[x[1]].key = disk.items[x[2]].key
              /\ mem.self[x[1]].mask = disk.items[x[2]].mask}

SumDups(S) == LET f[T \in SUBSET S] == IF T = {} THEN 0
                                       ELSE LET x == CHOOSE y \in T : TRUE IN f[T \ {x}] + x.dup + 1
              IN  f[S]

\* DealResultIndex and GenerateResult: rows with the peer's extra copies, and
\* how many of the peer's rows are left over
Result(rows, peerTotal) == [rows |-> rows, left |-> peerTotal - SumDups(rows)]

\* ComputeIndicesWithDupCnt, after the sending thread has ended;
\* SendServerCacheIndexes; the client's own result
ComputeIndices ==
  /\ pc.cli = "compute" /\ pc.snd = "idle" /\ task.threshold = 0
  /\ IF task.srvGets THEN Send("index", {[cache |-> x[2] - 1, client |-> x[1] - 1] : x \in Matches})
                     ELSE UNCHANGED net
  /\ mem' = [mem EXCEPT
       !.out.cli = IF task.cliGets
                   THEN Result({[row |-> x[1] - 1, dup |-> disk.items[x[2]].dup] : x \in Matches},
                               disk.peer)
                   ELSE None,
       !.fin.cli = @ + 1]
  /\ Goto("cli", "barrier") /\ UNCHANGED <<task, disk>>

\* the position in the cache is taken for the row
CacheRowsAsIs(indexes) ==
  {[row |-> x.cache, dup |-> mem.dup[x.client]] : x \in indexes}

\* TransCacheIndexesToRowIndexs: from positions in the cache to rows
CacheRows(indexes) ==
  {[row |-> disk.data[x.cache + 1].row, dup |-> mem.dup[x.client]] :
     x \in {y \in indexes : y.cache < Len(disk.data)}}

\* The rest of Online at the server
RecvCacheIndexes ==
  /\ pc.srv = "indexes" /\ task.threshold = 0 /\ Arrived("index")
  /\ Recv("index")
  /\ IF CacheAccepted
     THEN /\ mem' = [mem EXCEPT !.out.srv = Result(CacheRows(Head(net.index)), mem.total),
                                !.fin.srv = @ + 1]
          /\ Goto("srv", "barrier")
     ELSE Goto("srv", "failed") /\ UNCHANGED mem
  /\ UNCHANGED <<task, disk>>

-----------------------------------------------------------------------------
(* With a threshold, experiment/psi/threshold_ub_psi: the client cuts off    *)
(* the list of matches, whose positions are those of shuffled items, and the *)
(* server tells it the positions before the shuffle.                         *)

CutOff(n) == IF n < task.threshold THEN n ELSE task.threshold

\* ResizeIntersection keeps some of the matches, in an order of no meaning;
\* SendShuffledIndexes.  A list of indexes is a function on the matches kept.
ThresholdIndices ==
  /\ pc.cli = "compute" /\ pc.snd = "idle" /\ task.threshold > 0
  /\ \E S \in SUBSET Matches :
       /\ Cardinality(S) = CutOff(Cardinality(Matches))
       /\ mem' = [mem EXCEPT !.found = S, !.real = Cardinality(Matches)]
       /\ IF task.cliGets THEN Send("index", [x \in S |-> x[1] - 1]) ELSE UNCHANGED net
  /\ Goto("cli", IF task.cliGets THEN "restored" ELSE "sendIndexes")
  /\ UNCHANGED <<task, disk>>

\* the indexes go back as they came
RestoreNone(i) == i

\* shuffle_indexes of the same seed
Restore(i) == mem.perm[i + 1] - 1

RecvAndRestoreIndexes ==
  LET idx == Head(net.index) IN
  /\ pc.srv = "restore" /\ Arrived("index")
  /\ net' = [net EXCEPT !.index = Tail(@), !.eval = Append(@, [x \in DOMAIN idx |-> Restore(idx[x])])]
  /\ Goto("srv", AfterRestore) /\ UNCHANGED <<task, mem, disk>>

\* RecvRestoredIndexes, and the client's result
RecvRestoredIndexes ==
  LET idx == Head(net.eval) IN
  /\ pc.cli = "restored" /\ Arrived("eval") /\ Recv("eval")
  /\ mem' = [mem EXCEPT !.out.cli =
       Result({[row |-> idx[x], dup |-> disk.items[x[2]].dup] : x \in mem.found}, disk.peer)]
  /\ Goto("cli", "sendIndexes") /\ UNCHANGED <<task, disk>>

\* SendServerCacheIndexes and SendIntersectionUniqueKeyCount
SendIndexes ==
  /\ pc.cli = "sendIndexes"
  /\ net' = IF task.srvGets
            THEN [net EXCEPT !.index = @ \o
                    <<{[cache |-> x[2] - 1, client |-> x[1] - 1] : x \in mem.found}, mem.real>>]
            ELSE net
  /\ mem' = [mem EXCEPT !.fin.cli = @ + 1]
  /\ Goto("cli", "barrier") /\ UNCHANGED <<task, disk>>

\* The rest of ThresholdEcdhUbPsiServer::Online
RecvThresholdIndexes ==
  LET idx == net.index[1] IN
  /\ pc.srv = "indexes" /\ task.threshold > 0 /\ Len(net.index) = 2
  /\ net' = [net EXCEPT !.index = <<>>]
  /\ IF CacheAccepted /\ Cardinality(idx) = CutOff(net.index[2])
     THEN /\ mem' = [mem EXCEPT !.out.srv = Result(CacheRows(idx), mem.total), !.fin.srv = @ + 1]
          /\ Goto("srv", "barrier")
     ELSE Goto("srv", "failed") /\ UNCHANGED mem
  /\ UNCHANGED <<task, disk>>

-----------------------------------------------------------------------------
OnlineFinish ==
  /\ pc.srv = "finish"
  /\ mem' = [mem EXCEPT !.fin.srv = @ + 1]
  /\ Goto("srv", "barrier") /\ UNCHANGED <<task, net, disk>>

-----------------------------------------------------------------------------
(* Failures.                                                                 *)

\* The server dies; of what it wrote and did not flush, a part is on disk
CrashServer ==
  /\ pc.srv # "idle" /\ ~mem.crashed
  /\ \E n \in 0 .. Len(disk.data) :
       /\ n < Len(disk.data) => pc.srv \in {"evaluate", "flush"}
       /\ disk' = [disk EXCEPT !.data = SubSeq(@, 1, n)]
  /\ mem' = [mem EXCEPT !.crashed = TRUE]
  /\ Goto("srv", "failed") /\ UNCHANGED <<task, net>>

CrashClient ==
  /\ pc.cli # "idle" /\ ~mem.crashed
  /\ \E n \in 0 .. Len(disk.items) :
       /\ n < Len(disk.items) => pc.cli = "receive"
       /\ disk' = [disk EXCEPT !.items = SubSeq(@, 1, n)]
  /\ mem' = [mem EXCEPT !.crashed = TRUE]
  /\ pc' = [pc EXCEPT !.cli = "failed", !.snd = "idle"]
  /\ UNCHANGED <<task, net>>

\* A receive, a throttled send or a barrier of p times out on a failed peer.
\* The client's store is flushed by its destructor.
Waits(p) ==
  IF p = "srv"
  THEN \/ pc.srv = "transfer" /\ ~CanSend("xfer")
       \/ pc.srv = "sendEval" /\ ~CanSend("eval")
       \/ pc.srv = "evalBlind" /\ (Arrived("blind") => ~Shuffles /\ ~CanSend("eval"))
       \/ pc.srv \in {"indexes", "restore"} /\ ~Arrived("index")
       \/ pc.srv = "barrier" /\ mem.fin.cli < mem.fin.srv
  ELSE \/ pc.cli = "receive" /\ ~Arrived("xfer")
       \/ pc.cli \in {"evaluated", "restored"} /\ ~Arrived("eval")
       \/ pc.snd = "blind" /\ ~CanSend("blind")
       \/ pc.cli = "barrier" /\ mem.fin.srv < mem.fin.cli

TimesOut(p) ==
  /\ pc[Other(p)] = "failed" /\ Waits(p)
  /\ IF p = "cli" /\ pc.cli = "receive" THEN FlushStore ELSE UNCHANGED disk
  /\ pc' = IF p = "cli" THEN [pc EXCEPT !.cli = "failed", !.snd = "idle"]
                        ELSE [pc EXCEPT !.srv = "failed"]
  /\ UNCHANGED <<task, net, mem>>

\* Both processes are gone; the next launch may follow
Reset ==
  /\ \A p \in {"srv", "cli"} : pc[p] \in {"idle", "failed"}
  /\ \E p \in {"srv", "cli"} : pc[p] = "failed"
  /\ pc' = [t \in DOMAIN pc |-> "idle"]
  /\ UNCHANGED <<task, net, mem, disk>>

Terminated == mem.runs = MaxRuns /\ pc.srv = "idle" /\ pc.cli = "idle" /\ UNCHANGED vars

Server == GenStart \/ FullEvaluate \/ FlushMeta \/ FlushData \/ OpenCache
          \/ SendFinalEvaluatedItems \/ OnlineKey \/ RecvBlindAndSendEvaluate
          \/ RecvBlindAndShuffle \/ SendEvaluate \/ RecvCacheIndexes \/ OnlineFinish
          \/ RecvAndRestoreIndexes \/ RecvThresholdIndexes

Client == OpenStore \/ RecvFinalEvaluatedItems \/ OnlineOpen \/ SendBlindedItems
          \/ RecvEvaluatedItems \/ ComputeIndices
          \/ ThresholdIndices \/ RecvRestoredIndexes \/ SendIndexes

Next ==
  \/ \E mode \in Modes : Launch(mode)
  \/ Server \/ Client \/ \E p \in {"srv", "cli"} : Barrier(p) \/ TimesOut(p)
  \/ CrashServer \/ CrashClient \/ Reset \/ Terminated

Spec == Init /\ [][Next]_vars

-----------------------------------------------------------------------------
(* Properties.                                                               *)

\* What a party has to find: rows of its input whose key the peer has, with
\* the peer's extra copies, and the number of the peer's other rows
Expected(own, peer) ==
  Result({[row |-> x[1] - 1, dup |-> peer[x[2]].dup] : x \in
            {y \in (1 .. Len(own)) \X (1 .. Len(peer)) : own[y[1]].key = peer[y[2]].key}},
         PeerCount(peer))

\* The same, cut off at the threshold
Meets(out, own, peer) ==
  LET all == Expected(own, peer).rows IN
  IF task.threshold = 0 THEN out = Expected(own, peer)
  ELSE /\ out = Result(out.rows, PeerCount(peer)) /\ out.rows \subseteq all
       /\ Cardinality(out.rows) = CutOff(Cardinality(all))

\* With a copy of a completely generated cache that was received to its end,
\* the online stage gives each party that gets a result exactly its rows of
\* the intersection, or as many of them as the threshold allows: positions
\* survive the shuffles of the cache and of the evaluated items, and counts
\* their batches (server.cc:116-203, ecdh_oprf_psi.cc:194-346,
\* ec_point_store.cc:133-222, threshold_ecdh_oprf_psi.cc:24-46).
OnlineExact ==
  mem.copied => /\ mem.out.srv # None => Meets(mem.out.srv, task.srv, task.cli)
                /\ mem.out.cli # None => Meets(mem.out.cli, task.cli, task.srv)

\* A cache that UbPsiCacheProvider accepts holds every row once, under one
\* key, whatever crash cut an earlier generation short (ub_psi_cache.cc:44-63).
CacheWhole ==
  CacheAccepted /\ pc.srv \notin {"evaluate", "flush"} =>
    /\ {disk.data[i].row : i \in DOMAIN disk.data} = 0 .. Len(task.srv) - 1
    /\ Len(disk.data) = Len(task.srv)
    /\ \A i, j \in DOMAIN disk.data : disk.data[i].mask = disk.data[j].mask
=============================================================================
