---------------------------- MODULE ThresholdPsi ----------------------------
(* ECDH-PSI with a bound on the size of the result,                          *)
(* experiment/psi/threshold_ecdh_psi.  The sender shuffles the receiver's    *)
(* doubly masked items batch by batch and keeps the permutation in a cache;  *)
(* the receiver learns which of the shuffled items match, cuts the list off  *)
(* at the threshold, and asks the sender for their places.  With recovery, a *)
(* task that lost a party is started again on the files of the last run.     *)
(* The masks are left out: EcdhPsi shows that a restart uses the same keys,  *)
(* and how the checkpoint file is written; here a checkpoint is saved in one *)
(* step.                                                                     *)
EXTENDS Integers, Sequences, FiniteSets, TLC

CONSTANTS
  Tasks,    \* [proto |-> "threshold", rcv, snd: Seq([key, dup]), threshold, broadcast,
            \*  digest, recovery, crashes]
  Batch,    \* batch_size
  Window    \* throttle window of a link

VARIABLES task, pc, net, mem, disk

vars == <<task, pc, net, mem, disk>>

Least(a, b) == IF a < b THEN a ELSE b

\* std::shuffle of n indices
Perms(n) == {f \in [0 .. n - 1 -> 0 .. n - 1] : \A i, j \in 0 .. n - 1 : f[i] = f[j] => i = j}

Goto(t, place) == pc' = [pc EXCEPT ![t] = place]
CanSend(l) == Len(net[l]) < Window
Arrived(l) == net[l] # <<>>
Send(l, m) == net' = [net EXCEPT ![l] = Append(@, m)]
Recv(l) == net' = [net EXCEPT ![l] = Tail(@)]

\* Init compares digests if it is asked to, which recovery implies, and no
\* party has a key twice
DigestEqual ==
  /\ task.digest \/ task.recovery
  /\ \A s \in {task.rcv, task.snd} : \A i \in DOMAIN s : s[i].dup = 0
  /\ {task.rcv[i].key : i \in DOMAIN task.rcv} = {task.snd[i].key : i \in DOMAIN task.snd}

\* Equal digests put every line into the index file; Online and PostProcess
\* then return at once
AllRows(s) == [i \in DOMAIN s |-> [row |-> i - 1, dup |-> 0]]

\* Threads: rMask, sMask run MaskSelf; sPeer MaskAndShufflePeer; rPeer
\* RecvAndMaskPeer; rDual RecvDualMaskedSelf; rcv and snd the main threads.
Threads == {"rMask", "sMask", "sPeer", "rPeer", "rDual"}
Places == [t \in Threads |-> "idle"] @@ [t \in {"rcv", "snd"} |-> IF DigestEqual THEN "finalize" ELSE "start"]
Quiet == [l \in {"rs", "sr", "dual", "rIndex", "sIndex"} |-> <<>>]

\* A run's memory: positions in the batch providers, items stored by this run,
\* the cache before it is flushed, matches, and the index files, which Init
\* truncates
Memory == [rMask |-> 0, sMask |-> 0, self |-> 0, peer |-> 0, cache |-> <<>>, found |-> <<>>,
           rcv |-> IF DigestEqual THEN AllRows(task.rcv) ELSE <<>>,
           snd |-> IF DigestEqual THEN AllRows(task.snd) ELSE <<>>]

STAGE_ONLINE_START == 1
STAGE_ONLINE_END == 2
STAGE_POST_PROCESS_END == 3

NoCheckpoint == [stage |-> 0, self |-> 0, peer |-> 0]

\* `resumed' is a history variable: Online ran on items that an earlier run stored
Init ==
  /\ task \in Tasks /\ pc = Places /\ net = Quiet /\ mem = Memory
  /\ disk = [rcv |-> NoCheckpoint, snd |-> NoCheckpoint, self |-> <<>>, peer |-> <<>>, cache |-> <<>>,
             crashes |-> 0, resumed |-> FALSE]

\* A party dies, the other one fails on the link, and both are started again
\* on the files in their recovery folders
Crash ==
  /\ task.recovery /\ disk.crashes < task.crashes
  /\ pc.rcv \notin {"done", "failed"}
  /\ pc' = Places /\ net' = Quiet /\ mem' = Memory
  /\ disk' = [disk EXCEPT !.crashes = @ + 1]
  /\ UNCHANGED task

Peer(p) == IF p = "rcv" THEN "snd" ELSE "rcv"

\* The checkpoint of p moves on to a later stage
Reach(p, stage) == [disk EXCEPT ![p].stage = IF @ < stage THEN stage ELSE @]

-----------------------------------------------------------------------------
(* Online.                                                                   *)

\* GetProcessedItemCnt.  The sender counts nothing, so that a broadcast result
\* starts both parties from the first item again.
Processed(p) == CASE task.broadcast -> Least(disk[Peer(p)].peer, disk[p].self)
                  [] ~task.broadcast /\ p = "rcv" -> disk[p].self
                  [] ~task.broadcast /\ p = "snd" -> disk[Peer(p)].peer

\* MarkOnlineStart exchanges the checkpoints.  Unless both parties were through
\* with the stage, RunSender opens its cache, which empties the file, and the
\* threads start.
OnlineStart ==
  LET finished == \A p \in {"rcv", "snd"} : disk[p].stage >= STAGE_ONLINE_END
      marked == IF task.recovery
                THEN [disk EXCEPT !.rcv = Reach("rcv", STAGE_ONLINE_START).rcv,
                                  !.snd = Reach("snd", STAGE_ONLINE_START).snd]
                ELSE disk
  IN
  /\ pc.rcv = "start" /\ pc.snd = "start"
  /\ IF finished
     THEN /\ pc' = [pc EXCEPT !.rcv = "online", !.snd = "online"]
          /\ UNCHANGED <<mem, disk>>
     ELSE /\ pc' = [t \in Threads |-> "run"] @@ [t \in {"rcv", "snd"} |-> "join"]
          /\ mem' = [mem EXCEPT !.rMask = Processed("rcv"), !.sMask = Processed("snd")]
          /\ disk' = [marked EXCEPT !.cache = <<>>, !.resumed = @ \/ disk.self \o disk.peer # <<>>]
  /\ UNCHANGED <<task, net>>

\* The rest of the provider's batch that item number n of s is in.  The counts
\* of a batch of which only the rest is sent are those of its first items.
BatchFrom(s, n) ==
  LET start == n - (n % Batch) IN
  [i \in 1 .. Least(Len(s), start + Batch) - n |-> [key |-> s[n + i].key, dup |-> s[start + i].dup]]

\* MaskSelf; the counts go along if the peer gets a result
MaskSelf(t, own, l, counts) ==
  LET batch == BatchFrom(own, mem[t]) IN
  /\ pc[t] = "run" /\ CanSend(l)
  /\ Send(l, [i \in DOMAIN batch |-> [batch[i] EXCEPT !.dup = IF counts THEN @ ELSE 0]])
  /\ mem' = [mem EXCEPT ![t] = @ + Len(batch)]
  /\ Goto(t, IF batch = <<>> THEN "done" ELSE "run")
  /\ UNCHANGED <<task, disk>>

\* the place before the shuffle is forgotten
CacheItemUnshuffled(base, batch, f, i) ==
  [index |-> base + i, shuffled |-> base + i, dup |-> batch[i + 1].dup]

\* What the cache keeps of the i-th item of a shuffled batch that starts at
\* `base': its place after and before the shuffle, and the count of the item
\* whose place before the shuffle was i
CacheItem(base, batch, f, i) ==
  [index |-> base + i, shuffled |-> base + f[i], dup |-> batch[i + 1].dup]

MaskAndShufflePeer ==
  LET batch == Head(net.rs) IN
  /\ pc.sPeer = "run" /\ Arrived("rs")
  /\ \E f \in Perms(Len(batch)) :
       /\ net' = [net EXCEPT !.rs = Tail(@),
                             !.dual = Append(@, [i \in 1 .. Len(batch) |-> [batch[f[i - 1] + 1] EXCEPT !.dup = 0]])]
       /\ mem' = [mem EXCEPT !.cache = @ \o
                    [i \in 1 .. Len(batch) |-> CacheItem(Len(mem.cache), batch, f, i - 1)]]
  /\ Goto("sPeer", IF batch = <<>> THEN "done" ELSE "run")
  /\ UNCHANGED <<task, disk>>

\* A batch is appended to a point store, whose item index starts from 0 in
\* every run, and the files are flushed
Save(store, batch) ==
  /\ disk' = [disk EXCEPT ![store] = @ \o
                [i \in DOMAIN batch |-> [index |-> mem[store] + i - 1, key |-> batch[i].key, dup |-> batch[i].dup]]]
  /\ mem' = [mem EXCEPT ![store] = @ + Len(batch)]

\* RecvAndMaskPeer of rPeer and RecvDualMaskedSelf of rDual: an empty batch is the last
RecvAndSave(t, l, store) ==
  LET batch == Head(net[l]) IN
  /\ pc[t] = "run" /\ Arrived(l) /\ Recv(l) /\ Save(store, batch)
  /\ Goto(t, CASE batch = <<>> -> "done" [] batch # <<>> /\ task.recovery -> "count" [] OTHER -> "run")
  /\ UNCHANGED task

\* UpdateEcdhDualMaskedItemSelfCount and ...PeerCount
UpdateCount(t, store) ==
  /\ pc[t] = "count"
  /\ disk' = [disk EXCEPT !.rcv.stage = STAGE_ONLINE_START, !.rcv[store] = mem[store]]
  /\ Goto(t, "run") /\ UNCHANGED <<task, net, mem>>

\* RunSender and RunReceiver join their threads; SyncWait waits for the other
\* party; ThresholdEcdhPsiCache is flushed as RunSender returns
OnlineJoin ==
  /\ pc.rcv = "join" /\ pc.snd = "join"
  /\ \A t \in Threads : pc[t] = "done"
  /\ pc' = [pc EXCEPT !.rcv = "online", !.snd = "online"]
  /\ disk' = [disk EXCEPT !.cache = mem.cache]
  /\ UNCHANGED <<task, net, mem>>

MarkOnlineEnd(p) ==
  /\ pc[p] = "online" /\ Goto(p, "post")
  /\ disk' = IF task.recovery THEN Reach(p, STAGE_ONLINE_END) ELSE disk
  /\ UNCHANGED <<task, net, mem>>

-----------------------------------------------------------------------------
(* PostProcess.                                                              *)

\* one match too many is kept
CutOffLate(n) == Least(n, task.threshold + 1)

CutOff(n) == Least(n, task.threshold)

\* The line of the peer store that equals line i of the own one: the first
FirstEqual(i) ==
  LET equal == {j \in DOMAIN disk.peer : disk.peer[j].key = disk.self[i].key} IN
  disk.peer[CHOOSE j \in equal : \A k \in equal : j <= k]

\* ComputeAndStoreIndex: matches in the order of the buckets, which is that of
\* hashes, and within a bucket of the lines; those below the threshold are sent
\* with the number of all
ComputeIndex ==
  LET matches == {i \in DOMAIN disk.self : \E j \in DOMAIN disk.peer : disk.peer[j].key = disk.self[i].key}
      n == Cardinality(matches)
  IN
  /\ pc.rcv = "post"
  /\ \E s \in [1 .. CutOff(n) -> matches] :
       /\ \A i, j \in DOMAIN s : s[i] = s[j] => i = j
       /\ \A i \in DOMAIN s : \A m \in matches :
            m < s[i] /\ disk.self[m].key = disk.self[s[i]].key => \E j \in 1 .. i - 1 : s[j] = m
       /\ mem' = [mem EXCEPT !.found = [i \in DOMAIN s |-> FirstEqual(s[i]).dup]]
       /\ net' = [net EXCEPT !.rIndex = <<[i \in DOMAIN s |-> disk.self[s[i]].index], n>> \o
                    (IF task.broadcast THEN <<[i \in DOMAIN s |-> FirstEqual(s[i]).index]>> ELSE <<>>)]
  /\ Goto("rcv", "restored") /\ UNCHANGED <<task, disk>>

\* RestoreAndSendIndex: the number is checked, the cached places of the indices
\* are looked up and sent, and the sender writes its own result.  Of equal
\* indices the last one is restored; the others, and those the cache does not
\* have, stay 0.
RestoreAndSendIndex ==
  LET idx == net.rIndex[1]
      cached(i) == {c \in DOMAIN disk.cache : disk.cache[c].index = idx[i] /\ \A k \in DOMAIN idx : k > i => idx[k] # idx[i]}
      restored(i) == IF cached(i) = {} THEN [shuffled |-> 0, dup |-> 0] ELSE disk.cache[CHOOSE c \in cached(i) : TRUE]
  IN
  /\ pc.snd = "post" /\ Len(net.rIndex) = (IF task.broadcast THEN 3 ELSE 2)
  /\ IF Len(idx) = CutOff(net.rIndex[2])
     THEN /\ net' = [net EXCEPT !.rIndex = <<>>, !.sIndex = <<[i \in DOMAIN idx |-> restored(i).shuffled]>>]
          /\ mem' = [mem EXCEPT !.snd = IF task.broadcast
                       THEN [i \in DOMAIN idx |-> [row |-> net.rIndex[3][i], dup |-> restored(i).dup]]
                       ELSE @]
          /\ Goto("snd", "posted")
     ELSE Goto("snd", "failed") /\ UNCHANGED <<net, mem>>
  /\ UNCHANGED <<task, disk>>

RecvRestoredIndex ==
  /\ pc.rcv = "restored" /\ Arrived("sIndex") /\ Recv("sIndex")
  /\ mem' = [mem EXCEPT !.rcv = [i \in DOMAIN mem.found |-> [row |-> Head(net.sIndex)[i], dup |-> mem.found[i]]]]
  /\ Goto("rcv", IF Len(Head(net.sIndex)) = Len(mem.found) THEN "posted" ELSE "failed")
  /\ UNCHANGED <<task, disk>>

\* SyncWait, then MarkPostProcessEnd
PostProcessEnd(p) ==
  /\ pc[p] = "posted" /\ pc[Peer(p)] \in {"posted", "finalize"} /\ Goto(p, "finalize")
  /\ disk' = IF task.recovery THEN Reach(p, STAGE_POST_PROCESS_END) ELSE disk
  /\ UNCHANGED <<task, net, mem>>

\* DealResultIndex reads the sorted index files along the keys and throws on an
\* index that occurs again; SyncWait makes the other party fail as well
Finalize ==
  LET repeats(s) == \E i, j \in DOMAIN s : i # j /\ s[i].row = s[j].row
      throws == repeats(mem.rcv) \/ (task.broadcast /\ repeats(mem.snd))
  IN
  /\ pc.rcv = "finalize" /\ pc.snd = "finalize"
  /\ pc' = [pc EXCEPT !.rcv = IF throws THEN "failed" ELSE "done", !.snd = IF throws THEN "failed" ELSE "done"]
  /\ UNCHANGED <<task, net, mem, disk>>

Terminated == pc.rcv \in {"done", "failed"} /\ UNCHANGED vars

Next ==
  \/ OnlineStart \/ OnlineJoin \/ Crash
  \/ MaskSelf("rMask", task.rcv, "rs", task.broadcast) \/ MaskSelf("sMask", task.snd, "sr", TRUE)
  \/ MaskAndShufflePeer \/ RecvAndSave("rPeer", "sr", "peer") \/ RecvAndSave("rDual", "dual", "self")
  \/ UpdateCount("rPeer", "peer") \/ UpdateCount("rDual", "self")
  \/ ComputeIndex \/ RestoreAndSendIndex \/ RecvRestoredIndex
  \/ \E p \in {"rcv", "snd"} : MarkOnlineEnd(p) \/ PostProcessEnd(p)
  \/ Finalize \/ Terminated

Spec == Init /\ [][Next]_vars

-----------------------------------------------------------------------------
\* Rows of `own' whose key `peer' has, with the peer's count
Common(own, peer) ==
  {[row |-> i - 1, dup |-> peer[j].dup] : <<i, j>> \in
     {x \in (DOMAIN own) \X (DOMAIN peer) : own[x[1]].key = peer[x[2]].key}}

Rows(s) == {s[i] : i \in DOMAIN s}
Keys(s, rows) == {s[r.row + 1].key : r \in rows}

\* The lines are rows of the intersection with the peer's counts, as many as
\* the threshold allows
Promised(lines, own, peer) ==
  /\ Rows(lines) \subseteq Common(own, peer)
  /\ Len(lines) = Least(Cardinality(Common(own, peer)), task.threshold)

\* Unless the digests are equal, a task that ends has no more rows than the
\* threshold allows, restarted or not.  If no restart went through Online with
\* items of an earlier run, the receiver has exactly as many rows of the
\* intersection as are allowed, each with the sender's count: the places that
\* the sender restores are those before its shuffles, whatever the batches; and
\* a broadcast result shows the sender the rows of the same keys
\* (threshold_ecdh_psi.cc:52-151, sender.cc:81-157, receiver.cc:76-147).  What
\* the three exclusions hide is the subject of ThresholdResult: equal digests,
\* resumed runs, and the counts in the sender's rows.
ThresholdExact ==
  pc.rcv = "done" /\ ~DigestEqual =>
    /\ Len(mem.rcv) <= task.threshold
    /\ ~disk.resumed =>
         /\ Promised(mem.rcv, task.rcv, task.snd)
         /\ task.broadcast => /\ Keys(task.snd, Rows(mem.snd)) = Keys(task.rcv, Rows(mem.rcv))
                              /\ Len(mem.snd) = Len(mem.rcv)

\* What intersection_threshold, the recovery of a task and the counts of the
\* sender's result promise (psi_v2.proto:387-389, faq.rst:90, sender.cc:144-145):
\* a task that ends, equal inputs and restarted ones included, has given each
\* party that gets a result as many rows as the threshold allows, with the
\* other party's counts.
ThresholdResult ==
  pc.rcv = "done" => /\ Promised(mem.rcv, task.rcv, task.snd)
                     /\ task.broadcast => Promised(mem.snd, task.snd, task.rcv)
=============================================================================
