------------------------------ MODULE EcdhPsi -------------------------------
(* Two-party ECDH-PSI with recovery: the receiver's and the sender's run     *)
(* (interface.h, algorithm/ecdh/{receiver,sender}.cc), the three threads of  *)
(* RunEcdhPsi at each of them (ecdh_psi.cc), the stores of doubly masked     *)
(* items on disk (utils/ec_point_store, utils/hash_bucket_cache) and the     *)
(* checkpoint file (checkpoint/recovery.cc), under crashes of a party and a  *)
(* restart of the task.                                                      *)
(*                                                                           *)
(* An item is its position in its owner's list of unique keys; a cipher is   *)
(* an item with the generations of the two private keys it is masked with.   *)
(* A key generation is the number of the run that drew the key.              *)
EXTENDS Integers, Sequences, FiniteSets

CONSTANTS
  N,          \* N[p]: number of unique keys of party p
  Key,        \* Key[p][i]: the key at position i of party p
  Dup,        \* Dup[p][i]: how many further rows of p have that key
  Targets,    \* the parties that may touch the result (target_rank)
  BatchSize,  \* items per batch of the batch provider
  Window,     \* throttle window of the link (external, yacl)
  Recovery,   \* recovery_config.enabled
  MaxCrash    \* bound: crashes in a behaviour

Party == {0, 1}
Other(p) == 1 - p

ASSUME ConstAssumption ==
  /\ N \in [Party -> Nat]
  /\ \A p \in Party : \A i \in 0 .. N[p] - 1 : Dup[p][i] \in Nat
  /\ Targets \subseteq Party
  /\ BatchSize \in Nat \ {0}
  /\ Window \in Nat
  /\ Recovery \in BOOLEAN
  /\ MaxCrash \in Nat

\* The batch provider reads the file of unique keys (interface.cc:86,
\* JoinProcessor::GetUniqueKeysInfo).
ASSUME UniqueKeys ==
  \A p \in Party : \A i, j \in 0 .. N[p] - 1 : Key[p][i] = Key[p][j] => i = j

\* RecoveryCheckpoint.Stage
UNSPECIFIED      == 0
INIT_END         == 1
PRE_PROCESS_END  == 2
ONLINE_START     == 3
ONLINE_END       == 4
POST_PROCESS_END == 5

NoCheckpoint == [stage |-> UNSPECIFIED, self |-> 0, peer |-> 0]

VARIABLES
  run,        \* number of the current run of the task
  crashes,    \* crashes so far
  pc,         \* pc[p]: where the main thread of p is
  ckpt,       \* ckpt[p]: RecoveryManager::checkpoint_
  file,       \* file[p]: checkpoint.json, "none", "torn" (opened, not yet
              \*   written) or "ok" with a checkpoint
  saving,     \* saving[p][t]: where thread t is in SaveCheckpointFile
  image,      \* image[p]: the JSON text the holder of the mutex is writing
  key,        \* key[p]: generation of the private key in memory
  keyFile,    \* keyFile[p]: generation in the private_key file, 0 if none
  record,     \* record[p]: what p gave to MarkOnlineStart's AllGather
  start,      \* start[p]: processed_item_cnt
  th,         \* th[p][t]: where the threads of RunEcdhPsi are
  pos,        \* pos[p]: position of the next item MaskSelf reads
  main,       \* main[p]: batches sent by p on the main link, in this run
  dual,       \* dual[p]: batches sent by p on the dual-mask link
  mainRecv,   \* mainRecv[p]: batches p has received on the main link
  dualRecv,   \* dualRecv[p]: batches p has received on the dual-mask link
  hold,       \* hold[p][t]: send number whose ack thread t waits for
  self,       \* self[p]: lines in the files of the store of own items
  peer,       \* peer[p]: lines in the files of the store of peer items
  selfBuf,    \* selfBuf[p]: lines written to the store, not flushed
  peerBuf,    \* peerBuf[p]: lines written to the store, not flushed
  selfIdx,    \* selfIdx[p]: HashBucketCache::item_index_ of the self store
  peerIdx,    \* peerIdx[p]: HashBucketCache::item_index_ of the peer store
  out         \* out[p]: lines of the intersection index file

taskVars  == <<run, crashes>>
ckptVars  == <<ckpt, file, saving, image>>
keyVars   == <<key, keyFile>>
linkVars  == <<pos, main, dual, mainRecv, dualRecv, hold>>
storeVars == <<self, peer, selfBuf, peerBuf, selfIdx, peerIdx>>
vars == <<run, crashes, pc, ckpt, file, saving, image, key, keyFile, record,
          start, th, pos, main, dual, mainRecv, dualRecv, hold,
          self, peer, selfBuf, peerBuf, selfIdx, peerIdx, out>>

Idle == [self |-> "idle", peer |-> "idle", recv |-> "idle"]
Savers == {"main", "peer", "recv"}
NotSaving == [t \in Savers |-> "no"]

Init ==
  /\ run = 1
  /\ crashes = 0
  /\ pc = [p \in Party |-> "Init"]
  /\ ckpt = [p \in Party |-> NoCheckpoint]
  /\ file = [p \in Party |-> [st |-> "none", ck |-> NoCheckpoint]]
  /\ saving = [p \in Party |-> NotSaving]
  /\ image = [p \in Party |-> NoCheckpoint]
  /\ key = [p \in Party |-> 0]
  /\ keyFile = [p \in Party |-> 0]
  /\ record = [p \in Party |-> [stage |-> UNSPECIFIED, cnt |-> 0]]
  /\ start = [p \in Party |-> 0]
  /\ th = [p \in Party |-> Idle]
  /\ pos = [p \in Party |-> 0]
  /\ main = [p \in Party |-> <<>>]
  /\ dual = [p \in Party |-> <<>>]
  /\ mainRecv = [p \in Party |-> 0]
  /\ dualRecv = [p \in Party |-> 0]
  /\ hold = [p \in Party |-> [self |-> 0, peer |-> 0]]
  /\ self = [p \in Party |-> {}]
  /\ peer = [p \in Party |-> {}]
  /\ selfBuf = [p \in Party |-> {}]
  /\ peerBuf = [p \in Party |-> {}]
  /\ selfIdx = [p \in Party |-> 0]
  /\ peerIdx = [p \in Party |-> 0]
  /\ out = [p \in Party |-> {}]

-----------------------------------------------------------------------------
(* Checkpoints.  A thread changes checkpoint_ in memory and then saves it;   *)
(* saving serialises under the mutex, truncates the file and writes it.      *)

\* Thread t sets the checkpoint and enters SaveCheckpointFile
Mark(p, t, ck) ==
  /\ ckpt' = [ckpt EXCEPT ![p] = ck]
  /\ saving' = [saving EXCEPT ![p][t] = "save"]
  /\ UNCHANGED <<file, image>>

\* "if (checkpoint_.stage() < s) { set_stage(s); save }", where recovery is on
MarkStage(p, s) ==
  IF Recovery /\ ckpt[p].stage < s
  THEN Mark(p, "main", [ckpt[p] EXCEPT !.stage = s])
  ELSE UNCHANGED ckptVars

\* lock, serialise, open (which truncates)
SaveOpen(p, t) ==
  /\ pc[p] # "down"
  /\ saving[p][t] = "save"
  /\ \A u \in Savers : saving[p][u] # "write"
  /\ saving' = [saving EXCEPT ![p][t] = "write"]
  /\ image' = [image EXCEPT ![p] = ckpt[p]]
  /\ file' = [file EXCEPT ![p].st = "torn"]
  /\ UNCHANGED <<taskVars, pc, ckpt, keyVars, record, start, th, linkVars,
                 storeVars, out>>

\* write, close, unlock
SaveWrite(p, t) ==
  /\ pc[p] # "down"
  /\ saving[p][t] = "write"
  /\ saving' = [saving EXCEPT ![p][t] = "no"]
  /\ file' = [file EXCEPT ![p] = [st |-> "ok", ck |-> image[p]]]
  /\ UNCHANGED <<taskVars, pc, ckpt, image, keyVars, record, start, th,
                 linkVars, storeVars, out>>

-----------------------------------------------------------------------------
(* The main thread.                                                          *)

At(p, place) == pc[p] = place /\ saving[p].main = "no"

Goto(p, place) == pc' = [pc EXCEPT ![p] = place]

\* Places of a run after the ones where the parties wait for each other
PastFinalizeSync == {"done"}
PastPostEnd      == {"Finalize", "FinalizeSync"} \cup PastFinalizeSync
PastOnlineSync   == {"PostProcess", "PostEnd"} \cup PastPostEnd
PastOnlineGather == {"RunEcdhPsi", "OnlineSync", "OnlineEnd"} \cup PastOnlineSync
PastOnlineStart  == {"OnlineGather"} \cup PastOnlineGather

\* Party q waits at the given place or is past it
Reached(q, place, past) == At(q, place) \/ pc[q] \in past

\* Init: the writer truncates the index file (trunc_intersection_indices_);
\* MarkInitEnd.  With a checkpoint of an earlier run the configuration and
\* the input are compared with it; a restart uses the same ones.
InitEnd(p) ==
  /\ At(p, "Init")
  /\ out' = [out EXCEPT ![p] = {}]
  /\ MarkStage(p, INIT_END)
  /\ Goto(p, "PreProcess")
  /\ UNCHANGED <<taskVars, keyVars, record, start, th, linkVars, storeVars>>

\* the stored key is not read back
PreProcessFreshKey(p) ==
  /\ At(p, "PreProcess")
  /\ key' = [key EXCEPT ![p] = run]
  /\ keyFile' = [keyFile EXCEPT ![p] =
                   IF Recovery /\ ckpt[p].stage < PRE_PROCESS_END THEN run ELSE @]
  /\ MarkStage(p, PRE_PROCESS_END)
  /\ Goto(p, "OnlineStart")
  /\ UNCHANGED <<taskVars, record, start, th, linkVars, storeVars, out>>

\* PreProcess: a fresh cryptor draws a key; MarkPreProcessEnd writes it to
\* the key file, or replaces it by the key of an earlier run.
PreProcess(p) ==
  /\ At(p, "PreProcess")
  /\ LET first == ckpt[p].stage < PRE_PROCESS_END IN
     /\ key' = [key EXCEPT ![p] = IF Recovery /\ ~first THEN keyFile[p] ELSE run]
     /\ keyFile' = [keyFile EXCEPT ![p] = IF Recovery /\ first THEN run ELSE @]
  /\ MarkStage(p, PRE_PROCESS_END)
  /\ Goto(p, "OnlineStart")
  /\ UNCHANGED <<taskVars, record, start, th, linkVars, storeVars, out>>

\* The threads of RunEcdhPsi; RecvDualMaskedSelf returns at once for a party
\* that may not touch the result.
Threads(p) == [self |-> "send", peer |-> "recv",
               recv |-> IF p \in Targets THEN "recv" ELSE "done"]

\* After the barrier "psi_pre_process": Online.  With recovery, p sends its
\* record; otherwise the threads start.
OnlineStart(p) ==
  /\ At(p, "OnlineStart")
  /\ Reached(Other(p), "OnlineStart", PastOnlineStart)
  /\ IF Recovery
     THEN /\ record' = [record EXCEPT ![p] = [stage |-> ckpt[p].stage,
                                               cnt |-> ckpt[p].peer]]
          /\ Goto(p, "OnlineGather")
          /\ UNCHANGED th
     ELSE /\ th' = [th EXCEPT ![p] = Threads(p)]
          /\ Goto(p, "RunEcdhPsi")
          /\ UNCHANGED record
  /\ UNCHANGED <<taskVars, ckptVars, keyVars, start, linkVars, storeVars, out>>

Smaller(a, b) == IF a <= b THEN a ELSE b

\* the last batch is done again, also when there was none
ProcessedRedoBatch(p) ==
  (IF p \in Targets THEN ckpt[p].self ELSE record[Other(p)].cnt) - BatchSize

\* processed_item_cnt of RunEcdhPsi
Processed(p) ==
  LET fromPeer == record[Other(p)].cnt
      own == ckpt[p].self
  IN  IF p \in Targets /\ Other(p) \in Targets THEN Smaller(fromPeer, own)
      ELSE IF p \in Targets THEN own
      ELSE fromPeer

\* only the own record is looked at
OnlineFinishedSelf(p) == record[p].stage >= ONLINE_END

\* online_stage_finished
OnlineFinished(p) == \A q \in Party : record[q].stage >= ONLINE_END

\* MarkOnlineStart has both records: Online is skipped, or the threads start.
OnlineGather(p) ==
  /\ At(p, "OnlineGather")
  /\ Reached(Other(p), "OnlineGather", PastOnlineGather)
  /\ MarkStage(p, ONLINE_START)
  /\ IF OnlineFinished(p)
     THEN /\ Goto(p, "OnlineEnd")
          /\ UNCHANGED <<start, th, pos>>
     ELSE /\ start' = [start EXCEPT ![p] = Processed(p)]
          /\ pos' = [pos EXCEPT ![p] = Processed(p)]
          /\ th' = [th EXCEPT ![p] = Threads(p)]
          /\ Goto(p, "RunEcdhPsi")
  /\ UNCHANGED <<taskVars, keyVars, record, main, dual, mainRecv, dualRecv,
                 hold, storeVars, out>>

\* Sends by p that its peer has consumed
Acked(p) == mainRecv[Other(p)] + dualRecv[Other(p)]

\* SendAsyncThrottled of thread t returns
Released(p, t) == hold[p][t] <= Acked(p) + Window

\* the future of RecvDualMaskedSelf is not waited for
JoinTwo(p) ==
  /\ At(p, "RunEcdhPsi")
  /\ \A t \in {"self", "peer"} : th[p][t] = "done"
  /\ Released(p, "self") /\ Released(p, "peer")
  /\ Goto(p, "OnlineSync")
  /\ UNCHANGED <<taskVars, ckptVars, keyVars, record, start, th, linkVars,
                 storeVars, out>>

\* The three threads have returned; p goes on to SyncWait's last round.
Join(p) ==
  /\ At(p, "RunEcdhPsi")
  /\ \A t \in {"self", "peer", "recv"} : th[p][t] = "done"
  /\ Released(p, "self") /\ Released(p, "peer")
  /\ Goto(p, "OnlineSync")
  /\ UNCHANGED <<taskVars, ckptVars, keyVars, record, start, th, linkVars,
                 storeVars, out>>

\* SyncWait around RunEcdhPsi returns (or Online was skipped); MarkOnlineEnd
OnlineEnd(p) ==
  /\ \/ At(p, "OnlineEnd")
     \/ At(p, "OnlineSync") /\ Reached(Other(p), "OnlineSync", PastOnlineSync)
  /\ MarkStage(p, ONLINE_END)
  /\ Goto(p, "PostProcess")
  /\ UNCHANGED <<taskVars, keyVars, record, start, th, linkVars, storeVars, out>>

Earlier(l, m) == l.run < m.run \/ (l.run = m.run /\ l.idx <= m.idx)

\* the later line of an equal cipher wins
KeptLast(S) == CHOOSE l \in S : \A m \in S : Earlier(m, l)

\* The line an unordered_set keeps of lines with the same cipher: the first
Kept(S) == CHOOSE l \in S : \A m \in S : Earlier(l, m)

\* Lines of the peer store with the cipher of line s of the self store of p
Matches(p, s, lines) ==
  {m \in lines : /\ Key[Other(p)][m.pos] = Key[p][s.pos]
                 /\ m.own = s.via /\ m.via = s.own}

\* FinalizeAndComputeIndices; bins are joined one by one, and equal ciphers
\* are in the same bin
Intersect(p, own, others) ==
  {[line |-> s, dup |-> Kept(Matches(p, s, others)).dup] :
     s \in {l \in own : Matches(p, l, others) # {}}}

PostProcess(p) ==
  /\ At(p, "PostProcess")
  /\ self' = [self EXCEPT ![p] = @ \cup selfBuf[p]]
  /\ peer' = [peer EXCEPT ![p] = @ \cup peerBuf[p]]
  /\ selfBuf' = [selfBuf EXCEPT ![p] = {}]
  /\ peerBuf' = [peerBuf EXCEPT ![p] = {}]
  /\ out' = [out EXCEPT ![p] = @ \cup Intersect(p, self'[p], peer'[p])]
  /\ Goto(p, "PostEnd")
  /\ UNCHANGED <<taskVars, ckptVars, keyVars, record, start, th, linkVars,
                 selfIdx, peerIdx>>

\* SyncWait around the above returns; MarkPostProcessEnd
PostEnd(p) ==
  /\ At(p, "PostEnd")
  /\ Reached(Other(p), "PostEnd", PastPostEnd)
  /\ MarkStage(p, POST_PROCESS_END)
  /\ Goto(p, "Finalize")
  /\ UNCHANGED <<taskVars, keyVars, record, start, th, linkVars, storeVars, out>>

\* Finalize, inside SyncWait: the result is written from the index file, in
\* which no index may occur twice (InterIndexProcessor).
DistinctIndices(p) == \A a, b \in out[p] : a.line.idx = b.line.idx => a = b

FinalizeWrite(p) ==
  /\ At(p, "Finalize")
  /\ DistinctIndices(p)
  /\ Goto(p, "FinalizeSync")
  /\ UNCHANGED <<taskVars, ckptVars, keyVars, record, start, th, linkVars,
                 storeVars, out>>

\* "duplicated read_cnt in result"
FinalizeThrows(p) ==
  /\ At(p, "Finalize")
  /\ ~DistinctIndices(p)
  /\ Goto(p, "down")
  /\ UNCHANGED <<taskVars, ckptVars, keyVars, record, start, th, linkVars,
                 storeVars, out>>

\* ... and SyncWait returns
Finalize(p) ==
  /\ At(p, "FinalizeSync")
  /\ Reached(Other(p), "FinalizeSync", PastFinalizeSync)
  /\ Goto(p, "done")
  /\ UNCHANGED <<taskVars, ckptVars, keyVars, record, start, th, linkVars,
                 storeVars, out>>

-----------------------------------------------------------------------------
(* The threads of RunEcdhPsi.                                                *)

Running(p) == pc[p] = "RunEcdhPsi" /\ saving[p].main = "no"

Sends(p) == Len(main[p]) + Len(dual[p])

\* The batch of items that the provider delivers from position i on: the rest
\* of the batch of BatchSize items that i falls into
BatchEnd(p, i) == Smaller(N[p], i + BatchSize - (i % BatchSize))

\* the batch that reaches the end of the list is the last one
MaskSelfNoEnd(p) ==
  LET b == [lo |-> pos[p], hi |-> BatchEnd(p, pos[p]),
            base |-> pos[p] - (pos[p] % BatchSize), own |-> key[p]]
  IN
  /\ Running(p) /\ th[p].self = "send" /\ Released(p, "self")
  /\ main' = [main EXCEPT ![p] = Append(@, b)]
  /\ hold' = [hold EXCEPT ![p].self = Sends(p) + 1]
  /\ pos' = [pos EXCEPT ![p] = b.hi]
  /\ th' = [th EXCEPT ![p].self = IF b.hi = N[p] THEN "done" ELSE "send"]
  /\ UNCHANGED <<taskVars, pc, ckptVars, keyVars, record, start, dual,
                 mainRecv, dualRecv, storeVars, out>>

\* MaskSelf sends its next batch, the empty one last.  base is where the
\* provider's batch starts: the counts of duplicates are sent by their place
\* in that batch, also when a resumed run sends only the rest of it.
MaskSelf(p) ==
  LET b == [lo |-> pos[p], hi |-> BatchEnd(p, pos[p]),
            base |-> pos[p] - (pos[p] % BatchSize), own |-> key[p]]
  IN
  /\ Running(p) /\ th[p].self = "send" /\ Released(p, "self")
  /\ main' = [main EXCEPT ![p] = Append(@, b)]
  /\ hold' = [hold EXCEPT ![p].self = Sends(p) + 1]
  /\ pos' = [pos EXCEPT ![p] = b.hi]
  /\ th' = [th EXCEPT ![p].self = IF b.lo = b.hi THEN "done" ELSE "send"]
  /\ UNCHANGED <<taskVars, pc, ckptVars, keyVars, record, start, dual,
                 mainRecv, dualRecv, storeVars, out>>

\* The lines MaskPeer writes for a batch of its peer's items
PeerLines(p, b) ==
  {[run |-> run, idx |-> peerIdx[p] + (i - b.lo), pos |-> i,
    dup |-> Dup[Other(p)][b.base + (i - b.lo)], own |-> b.own, via |-> key[p]] :
     i \in b.lo .. b.hi - 1}

\* MaskPeer receives a batch, masks it and writes it to the store
MaskPeerRecv(p) ==
  /\ Running(p) /\ th[p].peer = "recv" /\ Released(p, "peer")
  /\ mainRecv[p] < Len(main[Other(p)])
  /\ mainRecv' = [mainRecv EXCEPT ![p] = @ + 1]
  /\ LET b == main[Other(p)][mainRecv[p] + 1]
         keeps == p \in Targets /\ b.lo < b.hi
     IN
     /\ peerBuf' = [peerBuf EXCEPT ![p] = IF keeps THEN @ \cup PeerLines(p, b) ELSE @]
     /\ peerIdx' = [peerIdx EXCEPT ![p] = IF keeps THEN @ + (b.hi - b.lo) ELSE @]
     /\ th' = [th EXCEPT ![p].peer = IF keeps /\ Recovery THEN "flush" ELSE "dual"]
  /\ UNCHANGED <<taskVars, pc, ckptVars, keyVars, record, start, pos, main,
                 dual, dualRecv, hold, self, peer, selfBuf, selfIdx, out>>

\* the count is saved first, the lines are left in the buffer
MaskPeerCountFirst(p) ==
  /\ Running(p) /\ th[p].peer = "flush"
  /\ Mark(p, "peer", [stage |-> ONLINE_START, self |-> ckpt[p].self, peer |-> peerIdx[p]])
  /\ th' = [th EXCEPT ![p].peer = "dual"]
  /\ UNCHANGED <<taskVars, pc, keyVars, record, start, linkVars, storeVars, out>>

\* the count is added to the saved one
MaskPeerFlushAdds(p) ==
  /\ Running(p) /\ th[p].peer = "flush"
  /\ peer' = [peer EXCEPT ![p] = @ \cup peerBuf[p]]
  /\ peerBuf' = [peerBuf EXCEPT ![p] = {}]
  /\ Mark(p, "peer", [stage |-> ONLINE_START, self |-> ckpt[p].self,
                      peer |-> ckpt[p].peer + peerIdx[p]])
  /\ th' = [th EXCEPT ![p].peer = "dual"]
  /\ UNCHANGED <<taskVars, pc, keyVars, record, start, linkVars, self, selfBuf,
                 selfIdx, peerIdx, out>>

\* ... flushes the store and calls UpdateEcdhDualMaskedItemPeerCount
MaskPeerFlush(p) ==
  /\ Running(p) /\ th[p].peer = "flush"
  /\ peer' = [peer EXCEPT ![p] = @ \cup peerBuf[p]]
  /\ peerBuf' = [peerBuf EXCEPT ![p] = {}]
  /\ Mark(p, "peer", [stage |-> ONLINE_START, self |-> ckpt[p].self, peer |-> peerIdx[p]])
  /\ th' = [th EXCEPT ![p].peer = "dual"]
  /\ UNCHANGED <<taskVars, pc, keyVars, record, start, linkVars, self, selfBuf,
                 selfIdx, peerIdx, out>>

\* SendDualMaskedBatch instead of SendDualMaskedBatchNonBlock
MaskPeerDualThrottled(p) ==
  LET b == main[Other(p)][mainRecv[p]] IN
  /\ Running(p) /\ th[p].peer = "dual" /\ saving[p].peer = "no"
  /\ IF Other(p) \in Targets
     THEN /\ dual' = [dual EXCEPT ![p] = Append(@, [lo |-> b.lo, hi |-> b.hi,
                                                   own |-> b.own, via |-> key[p]])]
          /\ hold' = [hold EXCEPT ![p].peer = Sends(p) + 1]
     ELSE UNCHANGED <<dual, hold>>
  /\ th' = [th EXCEPT ![p].peer = IF b.lo = b.hi THEN "done" ELSE "recv"]
  /\ UNCHANGED <<taskVars, pc, ckptVars, keyVars, record, start, pos, main,
                 mainRecv, dualRecv, storeVars, out>>

\* ... and sends the doubly masked batch back, without throttling, if the
\* peer may touch the result
MaskPeerDual(p) ==
  LET b == main[Other(p)][mainRecv[p]] IN
  /\ Running(p) /\ th[p].peer = "dual" /\ saving[p].peer = "no"
  /\ IF Other(p) \in Targets
     THEN dual' = [dual EXCEPT ![p] = Append(@, [lo |-> b.lo, hi |-> b.hi,
                                                own |-> b.own, via |-> key[p]])]
     ELSE UNCHANGED dual
  /\ th' = [th EXCEPT ![p].peer = IF b.lo = b.hi THEN "done" ELSE "recv"]
  /\ UNCHANGED <<taskVars, pc, ckptVars, keyVars, record, start, pos, main,
                 mainRecv, dualRecv, hold, storeVars, out>>

\* the index starts again with every batch
SelfLinesPerBatch(p, b) ==
  {[run |-> run, idx |-> i - b.lo, pos |-> i, dup |-> 0,
    own |-> b.own, via |-> b.via] : i \in b.lo .. b.hi - 1}

SelfLines(p, b) ==
  {[run |-> run, idx |-> selfIdx[p] + (i - b.lo), pos |-> i, dup |-> 0,
    own |-> b.own, via |-> b.via] : i \in b.lo .. b.hi - 1}

\* RecvDualMaskedSelf receives its own items back and writes them
RecvDualMaskedSelf(p) ==
  /\ Running(p) /\ th[p].recv = "recv"
  /\ dualRecv[p] < Len(dual[Other(p)])
  /\ dualRecv' = [dualRecv EXCEPT ![p] = @ + 1]
  /\ LET b == dual[Other(p)][dualRecv[p] + 1] IN
     /\ selfBuf' = [selfBuf EXCEPT ![p] = @ \cup SelfLines(p, b)]
     /\ selfIdx' = [selfIdx EXCEPT ![p] = @ + (b.hi - b.lo)]
     /\ th' = [th EXCEPT ![p].recv = IF b.lo = b.hi THEN "done"
                                     ELSE IF Recovery THEN "flush" ELSE "recv"]
  /\ UNCHANGED <<taskVars, pc, ckptVars, keyVars, record, start, pos, main,
                 dual, mainRecv, hold, self, peer, peerBuf, peerIdx, out>>

\* ... flushes and calls UpdateEcdhDualMaskedItemSelfCount
RecvDualMaskedFlush(p) ==
  /\ Running(p) /\ th[p].recv = "flush"
  /\ self' = [self EXCEPT ![p] = @ \cup selfBuf[p]]
  /\ selfBuf' = [selfBuf EXCEPT ![p] = {}]
  /\ Mark(p, "recv", [stage |-> ONLINE_START, self |-> selfIdx[p], peer |-> ckpt[p].peer])
  /\ th' = [th EXCEPT ![p].recv = "saved"]
  /\ UNCHANGED <<taskVars, pc, keyVars, record, start, linkVars, peer, peerBuf,
                 selfIdx, peerIdx, out>>

\* ... and turns to the next batch once the checkpoint is saved
RecvDualMaskedNext(p) ==
  /\ Running(p) /\ th[p].recv = "saved" /\ saving[p].recv = "no"
  /\ th' = [th EXCEPT ![p].recv = "recv"]
  /\ UNCHANGED <<taskVars, pc, ckptVars, keyVars, record, start, linkVars,
                 storeVars, out>>

-----------------------------------------------------------------------------
(* Failures.                                                                 *)

Stopped(p) == pc[p] \in {"down", "done"}

\* The process of p dies.  What the streams had not flushed reaches the files
\* in part: each bin has a buffer of its own.
Crash(p) ==
  /\ ~Stopped(p) /\ crashes < MaxCrash
  /\ crashes' = crashes + 1
  /\ \E s \in SUBSET selfBuf[p] : self' = [self EXCEPT ![p] = @ \cup s]
  /\ \E s \in SUBSET peerBuf[p] : peer' = [peer EXCEPT ![p] = @ \cup s]
  /\ selfBuf' = [selfBuf EXCEPT ![p] = {}]
  /\ peerBuf' = [peerBuf EXCEPT ![p] = {}]
  /\ Goto(p, "down")
  /\ UNCHANGED <<run, ckptVars, keyVars, record, start, th, linkVars, selfIdx,
                 peerIdx, out>>

\* The peer is down and p runs into a receive timeout.  Its threads end where
\* they wait for the link, and the destructors of the stores flush.
Abort(p) ==
  /\ ~Stopped(p) /\ pc[Other(p)] = "down"
  /\ saving[p] = NotSaving
  /\ th[p].peer # "flush" /\ th[p].recv # "flush"
  /\ self' = [self EXCEPT ![p] = @ \cup selfBuf[p]]
  /\ peer' = [peer EXCEPT ![p] = @ \cup peerBuf[p]]
  /\ selfBuf' = [selfBuf EXCEPT ![p] = {}]
  /\ peerBuf' = [peerBuf EXCEPT ![p] = {}]
  /\ Goto(p, "down")
  /\ UNCHANGED <<taskVars, ckptVars, keyVars, record, start, th, linkVars,
                 selfIdx, peerIdx, out>>

\* RecoveryManager's constructor finds a checkpoint.json it cannot parse
Unloadable(p) == Recovery /\ file[p].st = "torn"

\* The task is started again with the same configuration, at most once for
\* every crash.  Without recovery the stores are in fresh temporary directories.
Restart ==
  /\ \A p \in Party : Stopped(p) /\ ~Unloadable(p)
  /\ \E p \in Party : pc[p] = "down"
  /\ run <= MaxCrash
  /\ run' = run + 1
  /\ pc' = [p \in Party |-> "Init"]
  /\ ckpt' = [p \in Party |-> IF file[p].st = "ok" THEN file[p].ck ELSE NoCheckpoint]
  /\ saving' = [p \in Party |-> NotSaving]
  /\ image' = [p \in Party |-> NoCheckpoint]
  /\ key' = [p \in Party |-> 0]
  /\ record' = [p \in Party |-> [stage |-> UNSPECIFIED, cnt |-> 0]]
  /\ start' = [p \in Party |-> 0]
  /\ th' = [p \in Party |-> Idle]
  /\ pos' = [p \in Party |-> 0]
  /\ main' = [p \in Party |-> <<>>]
  /\ dual' = [p \in Party |-> <<>>]
  /\ mainRecv' = [p \in Party |-> 0]
  /\ dualRecv' = [p \in Party |-> 0]
  /\ hold' = [p \in Party |-> [self |-> 0, peer |-> 0]]
  /\ self' = IF Recovery THEN self ELSE [p \in Party |-> {}]
  /\ peer' = IF Recovery THEN peer ELSE [p \in Party |-> {}]
  /\ selfIdx' = [p \in Party |-> 0]
  /\ peerIdx' = [p \in Party |-> 0]
  /\ UNCHANGED <<crashes, file, keyFile, selfBuf, peerBuf, out>>

-----------------------------------------------------------------------------

MainStep(p) ==
  \/ InitEnd(p) \/ PreProcess(p) \/ OnlineStart(p) \/ OnlineGather(p)
  \/ Join(p) \/ OnlineEnd(p) \/ PostProcess(p) \/ PostEnd(p)
  \/ FinalizeWrite(p) \/ FinalizeThrows(p) \/ Finalize(p)

MaskPeer(p) == MaskPeerRecv(p) \/ MaskPeerFlush(p) \/ MaskPeerDual(p)

RecvSelf(p) ==
  RecvDualMaskedSelf(p) \/ RecvDualMaskedFlush(p) \/ RecvDualMaskedNext(p)

Save(p, t) == SaveOpen(p, t) \/ SaveWrite(p, t)

AllDone == \A p \in Party : pc[p] = "done"

\* No attempt is left, or a checkpoint file cannot be loaded
Stuck ==
  /\ \A p \in Party : Stopped(p)
  /\ ~AllDone
  /\ run > MaxCrash \/ \E p \in Party : Unloadable(p)

Terminated == (AllDone \/ Stuck) /\ UNCHANGED vars

Next ==
  \/ \E p \in Party : MainStep(p) \/ MaskSelf(p) \/ MaskPeer(p) \/ RecvSelf(p)
                      \/ Crash(p) \/ Abort(p)
  \/ \E p \in Party, t \in Savers : Save(p, t)
  \/ Restart
  \/ Terminated

Spec == Init /\ [][Next]_vars

\* Each thread of a running process is scheduled, the link delivers what was
\* sent, a party that lost its peer times out, and a failed task is restarted.
Fairness ==
  /\ \A p \in Party : /\ WF_vars(MainStep(p)) /\ WF_vars(MaskSelf(p))
                      /\ WF_vars(MaskPeer(p)) /\ WF_vars(RecvSelf(p))
                      /\ WF_vars(Abort(p))
                      /\ \A t \in Savers : WF_vars(Save(p, t))
  /\ WF_vars(Restart)

FairSpec == Spec /\ Fairness

-----------------------------------------------------------------------------
(* Properties.                                                               *)

Items(p) == 0 .. N[p] - 1

Checkpoints == [stage : 0 .. 5, self : Nat, peer : Nat]
Lines == [run : Nat, idx : Nat, pos : Nat, dup : Nat, own : Nat, via : Nat]
Batches == [lo : Nat, hi : Nat, base : Nat, own : Nat]
DualBatches == [lo : Nat, hi : Nat, own : Nat, via : Nat]

ControlTypes ==
  /\ run \in Nat /\ crashes \in Nat
  /\ pc \in [Party -> {"Init", "PreProcess", "OnlineStart", "OnlineGather",
                       "RunEcdhPsi", "OnlineSync", "OnlineEnd", "PostProcess",
                       "PostEnd", "Finalize", "FinalizeSync", "done", "down"}]
  /\ record \in [Party -> [stage : 0 .. 5, cnt : Nat]]
  /\ start \in [Party -> Nat]
  /\ th \in [Party -> [self : {"idle", "send", "done"},
                       peer : {"idle", "recv", "flush", "dual", "done"},
                       recv : {"idle", "recv", "flush", "saved", "done"}]]

CkptTypes ==
  /\ ckpt \in [Party -> Checkpoints]
  /\ file \in [Party -> [st : {"none", "torn", "ok"}, ck : Checkpoints]]
  /\ saving \in [Party -> [Savers -> {"no", "save", "write"}]]
  /\ image \in [Party -> Checkpoints]

KeyTypes == key \in [Party -> Nat] /\ keyFile \in [Party -> Nat]

LinkTypes ==
  /\ pos \in [Party -> Nat]
  /\ main \in [Party -> Seq(Batches)]
  /\ dual \in [Party -> Seq(DualBatches)]
  /\ mainRecv \in [Party -> Nat] /\ dualRecv \in [Party -> Nat]
  /\ hold \in [Party -> [self : Nat, peer : Nat]]

StoreTypes ==
  /\ self \in [Party -> SUBSET Lines] /\ peer \in [Party -> SUBSET Lines]
  /\ selfBuf \in [Party -> SUBSET Lines] /\ peerBuf \in [Party -> SUBSET Lines]
  /\ selfIdx \in [Party -> Nat] /\ peerIdx \in [Party -> Nat]

\* Type invariant: checkpoint stages, places of the threads, counts, store lines
\* and link positions keep their types; no count or position that RunEcdhPsi
\* computes from a checkpoint is negative (ecdh_psi.cc:77-91, 462-479).
TypeOK == ControlTypes /\ CkptTypes /\ KeyTypes /\ LinkTypes /\ StoreTypes

Has(lines, i) == \E l \in lines : l.pos = i

\* What every party that may touch the result needs on disk of the items of p
\* before position c: p its own items, the peer of p the items of its peer.
Stored(p, c) ==
  \A i \in Items(p) : i < c =>
    /\ p \in Targets => Has(self[p], i)
    /\ Other(p) \in Targets => Has(peer[Other(p)], i)

\* A resumed run leaves out only items that every store already has on disk:
\* processed_item_cnt (ecdh_psi.cc:462-476), computed from two counts that two
\* parties saved at different moments, never runs ahead of a store, and it is
\* never past the end of the list (the YACL_ENFORCE of ecdh_psi.cc:73-75).
ResumeSafe ==
  \A p \in Party : pc[p] = "RunEcdhPsi" =>
    start[p] <= N[p] /\ (Recovery => Stored(p, start[p]))

\* When a party computes the intersection, its stores hold every item of both
\* parties, over all the runs that filled them (FinalizeAndComputeIndices,
\* receiver.cc:127-130), also when Online was skipped (receiver.cc:102-110).
StoreComplete ==
  \A p \in Targets : pc[p] \in {"PostEnd"} \cup PastPostEnd =>
    /\ \A i \in Items(p) : Has(self[p], i)
    /\ \A i \in Items(Other(p)) : Has(peer[p], i)

\* Everything in the stores is masked with the two keys now in use, so a line
\* of an earlier run still matches one of this run (MarkPreProcessEnd,
\* recovery.cc:122-146, and the barrier of interface.h:52).
KeysConsistent ==
  \A p \in Party : Running(p) =>
    /\ \A l \in self[p] \cup selfBuf[p] : l.own = key[p] /\ l.via = key[Other(p)]
    /\ \A l \in peer[p] \cup peerBuf[p] : l.own = key[Other(p)] /\ l.via = key[p]

\* The line of an item that the join keeps carries the item's own count of
\* duplicates, although a run that resumes inside a batch sends the counts
\* shifted (ecdh_psi.cc:84-89): such a run only repeats items whose first line
\* is older.
KeptDupCorrect ==
  \A p \in Party : \A i \in Items(Other(p)) :
    LET lines == {l \in peer[p] \cup peerBuf[p] : l.pos = i}
    IN  lines # {} => Kept(lines).dup = Dup[Other(p)][i]

\* Both parties skip Online or both run it: a party that runs the protocol has
\* no peer that went past it (recovery.cc:148-199).
SameDecision ==
  \A p \in Party : pc[p] = "RunEcdhPsi" =>
    pc[Other(p)] \notin {"OnlineEnd"} \cup PastOnlineSync

\* The result a party has to see: the positions of the keys that both have,
\* with the peer's count of duplicates.
Expected(p) ==
  {<<m[1], Dup[Other(p)][m[2]]>> : m \in
     {ij \in Items(p) \X Items(Other(p)) : Key[p][ij[1]] = Key[Other(p)][ij[2]]}}

\* A finished task has written the intersection: each index once, with the
\* peer's count of duplicates (ec_point_store.cc:98-131), and nothing at a
\* party that may not touch the result.
ResultExact ==
  \A p \in Party : pc[p] = "done" =>
    LET want == IF p \in Targets THEN Expected(p) ELSE {} IN
    /\ {<<o.line.idx, o.dup>> : o \in out[p]} = want
    /\ Cardinality(out[p]) = Cardinality(want)

\* A party that failed can be started again: the constructor of
\* RecoveryManager (recovery.cc:77-80) can load its checkpoint file.
Resumable == \A p \in Party : pc[p] = "down" => ~Unloadable(p)

\* The task ends, whatever the order in which threads and messages are
\* scheduled: the unthrottled send of ecdh_psi.cc:204-205 keeps MaskPeer and
\* MaskSelf from blocking each other.
Completes == <>AllDone

-----------------------------------------------------------------------------
(* Why the stores are complete, as an inductive invariant in two layers.     *)

\* How far the first k batches of this run reach into the list of p
UpTo(p, k) == IF k = 0 THEN start[p] ELSE main[p][k].hi

\* The batches that MaskSelf sends follow each other without a gap from
\* processed_item_cnt on, and the empty one stands at the end of the list
\* (ecdh_psi.cc:94-143).
MainInOrder(p) ==
  /\ \A k \in 1 .. Len(main[p]) :
       /\ main[p][k].lo = UpTo(p, k - 1)
       /\ main[p][k].base <= main[p][k].lo
       /\ main[p][k].lo <= main[p][k].hi
       /\ main[p][k].hi <= N[p]
       /\ main[p][k].lo = main[p][k].hi => main[p][k].hi = N[p]
  /\ pos[p] = UpTo(p, Len(main[p]))

\* Batch k on the dual-mask link answers batch k on the main link
\* (ecdh_psi.cc:186-217).
DualInOrder(p) ==
  /\ mainRecv[p] <= Len(main[Other(p)])
  /\ dualRecv[p] <= Len(dual[Other(p)])
  /\ Len(dual[p]) = IF Other(p) \notin Targets THEN 0
                    ELSE IF th[p].peer \in {"flush", "dual"} THEN mainRecv[p] - 1
                    ELSE mainRecv[p]
  /\ \A k \in 1 .. Len(dual[p]) : /\ dual[p][k].lo = main[Other(p)][k].lo
                                   /\ dual[p][k].hi = main[Other(p)][k].hi

\* A thread that is done has seen the empty batch; before Online starts and
\* after it ended no thread runs.
ThreadsInStep(p) ==
  /\ th[p].peer \in {"flush", "dual"} => mainRecv[p] >= 1
  /\ th[p].peer = "done" => mainRecv[p] >= 1 /\ UpTo(Other(p), mainRecv[p]) = N[Other(p)]
  /\ th[p].recv = "done" /\ p \in Targets =>
       dualRecv[p] >= 1 /\ UpTo(p, dualRecv[p]) = N[p]
  /\ th[p].self = "idle" => main[p] = <<>> /\ start[p] = 0
  /\ pc[p] \in {"Init", "PreProcess", "OnlineStart", "OnlineGather"} => th[p] = Idle
  /\ th[p].peer = "flush" \/ th[p].recv \in {"flush", "saved"} => Recovery
  /\ pc[p] \notin {"RunEcdhPsi", "down"} =>
       th[p].peer \in {"idle", "done"} /\ th[p].recv \in {"idle", "done"}

\* A checkpoint of p counts no more than there is
Counts(p, ck) ==
  /\ ck.self <= N[p] /\ ck.peer <= N[Other(p)]
  /\ ~Recovery => ck = NoCheckpoint

\* No count, in memory, on disk or on its way, exceeds the list it counts.
CountsBounded(p) ==
  /\ Counts(p, ckpt[p]) /\ Counts(p, image[p]) /\ Counts(p, file[p].ck)
  /\ record[p].cnt <= N[Other(p)]
  /\ start[p] <= N[p]
  /\ ~Recovery => record[p] = [stage |-> UNSPECIFIED, cnt |-> 0] /\ start[p] = 0
  /\ selfIdx[p] <= UpTo(p, dualRecv[p])
  /\ peerIdx[p] <= UpTo(Other(p), mainRecv[p])

\* First layer: what is in flight between the threads, and the counts
\* (ecdh_psi.cc:60-281, recovery.cc:148-233).
LinkInv ==
  /\ TypeOK
  /\ \A p \in Party : /\ MainInOrder(p) /\ DualInOrder(p)
                      /\ ThreadsInStep(p) /\ CountsBounded(p)

Covered(lines, c) == \A i \in 0 .. c - 1 : Has(lines, i)

\* The files of p's two stores have every item of both parties.
Full(p) == Covered(self[p], N[p]) /\ Covered(peer[p], N[Other(p)])

\* The files of p's stores have what a checkpoint or a record of p counts; a
\* stage of ONLINE_END or later says that the files are complete.
Backed(p, ck) ==
  /\ Covered(self[p], ck.self) /\ Covered(peer[p], ck.peer)
  /\ ck.stage >= ONLINE_END => Full(p)

CkptsBacked(p) ==
  /\ Backed(p, ckpt[p]) /\ Backed(p, image[p]) /\ Backed(p, file[p].ck)
  /\ Covered(peer[p], record[p].cnt)
  /\ record[p].stage >= ONLINE_END => Full(p)
  /\ Covered(self[p], start[p]) /\ Covered(peer[p], start[Other(p)])

\* With recovery, a store has lines in memory only until its thread flushes.
BuffersInStep(p) ==
  Recovery => /\ selfBuf[p] # {} => th[p].recv = "flush" /\ pc[p] # "down"
              /\ peerBuf[p] # {} => th[p].peer = "flush" /\ pc[p] # "down"

\* The stores have what was received; after Online that is everything, and
\* FinalizeAndComputeIndices has flushed it.
StoresFilled(p) ==
  LET own == self[p] \cup selfBuf[p]
      others == peer[p] \cup peerBuf[p]
  IN
  /\ pc[p] # "down" => /\ Covered(own, UpTo(p, dualRecv[p]))
                       /\ Covered(others, UpTo(Other(p), mainRecv[p]))
  /\ pc[p] \in {"OnlineSync", "OnlineEnd"} \cup PastOnlineSync =>
       Covered(own, N[p]) /\ Covered(others, N[Other(p)])
  /\ pc[p] \in {"PostEnd"} \cup PastPostEnd => Full(p)

\* Second layer: every count that a checkpoint, its file or the record for the
\* peer has is covered by the files of the store it counts, and so are the
\* batches received since (recovery.cc:83-97, 210-257; ecdh_psi.cc:183-189,
\* 259-269).
StoreInv ==
  \A p \in Party : /\ BuffersInStep(p)
                   /\ p \in Targets => CkptsBacked(p) /\ StoresFilled(p)

-----------------------------------------------------------------------------
(* Why the parties decide alike, and why all lines are masked with one pair  *)
(* of keys.                                                                  *)

\* The records of a run are fixed once a party has both of them, and what a
\* party does then follows them (recovery.cc:148-199, receiver.cc:102-110).
DecisionInv ==
  \A p \in Party :
    /\ pc[p] \in {"RunEcdhPsi", "OnlineSync"} => ~OnlineFinished(p)
    /\ pc[p] = "OnlineEnd" => OnlineFinished(p)
    /\ pc[p] \in PastOnlineSync =>
         \/ OnlineFinished(p)
         \/ pc[Other(p)] \in {"OnlineSync", "down"} \cup PastOnlineSync
    /\ Recovery /\ pc[p] \in PastOnlineGather =>
         pc[Other(p)] \in PastOnlineStart \cup {"down"}

\* Every later run of p reads its key back: the stage in memory, in the file
\* and in a text being written is PRE_PROCESS_END or later.  A torn file
\* admits no later run.
Settled(p) ==
  /\ ckpt[p].stage >= PRE_PROCESS_END
  /\ file[p].st # "none"
  /\ file[p].st = "ok" => file[p].ck.stage >= PRE_PROCESS_END
  /\ \A t \in Savers : saving[p][t] = "write" => image[p].stage >= PRE_PROCESS_END

\* The key that what p masks now, and what it has left on disk, is masked with
MaskKey(p) == IF Recovery THEN keyFile[p] ELSE run

\* No batch is under way and no line is written, here or on disk
Untouched ==
  \A p \in Party : /\ main[p] = <<>> /\ dual[p] = <<>>
                    /\ self[p] = {} /\ selfBuf[p] = {}
                    /\ peer[p] = {} /\ peerBuf[p] = {}

\* What is under way and what is stored is masked with the keys of the owner
\* and of its peer.
MaskedAlike(p) ==
  /\ \A k \in 1 .. Len(main[p]) : main[p][k].own = MaskKey(p)
  /\ \A k \in 1 .. Len(dual[p]) : /\ dual[p][k].own = MaskKey(Other(p))
                                  /\ dual[p][k].via = MaskKey(p)
  /\ \A l \in self[p] \cup selfBuf[p] : l.own = MaskKey(p) /\ l.via = MaskKey(Other(p))
  /\ \A l \in peer[p] \cup peerBuf[p] : l.own = MaskKey(Other(p)) /\ l.via = MaskKey(p)

\* How far p is with its key: it is settled once MarkPreProcessEnd has saved
\* the checkpoint, and the barrier of interface.h:52 lets nobody pass before
\* that at both parties.
KeyInStep(p) ==
  /\ pc[p] \in {"Init", "PreProcess", "OnlineStart"} =>
       saving[p]["peer"] = "no" /\ saving[p]["recv"] = "no"
  /\ Recovery /\ pc[p] \in {"Init", "PreProcess"} /\ ckpt[p].stage >= PRE_PROCESS_END =>
       Settled(p)
  /\ pc[p] = "OnlineStart" =>
       /\ key[p] = MaskKey(p)
       /\ Recovery => /\ ckpt[p].stage >= PRE_PROCESS_END
                      /\ saving[p]["main"] = "no" => Settled(p)
                      /\ saving[p]["main"] = "write" => image[p].stage >= PRE_PROCESS_END
  /\ pc[p] \in PastOnlineStart =>
       /\ pc[Other(p)] \notin {"Init", "PreProcess"}
       /\ \A q \in Party : key[q] = MaskKey(q) /\ (Recovery => Settled(q))
  /\ pc[p] \in {"PostEnd", "down"} \cup PastPostEnd => selfBuf[p] = {} /\ peerBuf[p] = {}

\* Third layer: a key that anything is masked with is never drawn again
\* (recovery.cc:122-146).
KeyInv ==
  /\ \A p \in Party : KeyInStep(p) /\ MaskedAlike(p)
  /\ Recovery => Untouched \/ \A q \in Party : Settled(q)

-----------------------------------------------------------------------------
(* Why the line that the join keeps has the right count of duplicates,       *)
(* although a resumed run may start inside a batch.                          *)

\* The first item of the provider's batch that item i is in
BatchStart(i) == i - (i % BatchSize)

\* The lines have every item of a batch of q that starts before position c,
\* also those of its items that are past c.
RoundedUp(lines, q, c) == \A i \in Items(q) : BatchStart(i) < c => Has(lines, i)

\* Lines in the files that a run before this one wrote
OldLines(p) == {l \in peer[p] : l.run < run}

\* Every count of peer items ends a batch or falls short of the items stored:
\* a count is what one run wrote, and a run writes whole batches from its start
\* on (ecdh_psi.cc:84-89, 183-189).
CountsRounded(p) ==
  LET q == Other(p) IN
  /\ RoundedUp(peer[p], q, ckpt[p].peer) /\ RoundedUp(peer[p], q, image[p].peer)
  /\ RoundedUp(peer[p], q, file[p].ck.peer)
  /\ RoundedUp(OldLines(p), q, record[p].cnt) /\ RoundedUp(OldLines(p), q, start[q])

\* A batch on the main link is the rest of a batch of the provider.
BatchesAligned(p) ==
  \A k \in 1 .. Len(main[p]) : LET b == main[p][k] IN
    /\ b.base = BatchStart(b.lo)
    /\ b.hi = BatchEnd(p, b.lo)

\* A line with another item's count has a right one of the same item before it.
LinesRight(p) ==
  \A l \in peer[p] \cup peerBuf[p] :
    /\ l.pos \in Items(Other(p))
    /\ \/ l.dup = Dup[Other(p)][l.pos]
       \/ \E m \in peer[p] : m.pos = l.pos /\ m.run < l.run /\ m.dup = Dup[Other(p)][l.pos]

\* Lines of this run are there only once the party is past the barrier.
LinesDated(p) ==
  \A l \in peer[p] \cup peerBuf[p] :
    /\ l.run <= run
    /\ pc[p] \in {"Init", "PreProcess", "OnlineStart"} => l.run < run

\* Fourth layer: a run that starts inside a batch only repeats items that the
\* files of an older run have (ecdh_psi.cc:84-89).
DupInv ==
  \A p \in Party : /\ BatchesAligned(p) /\ LinesRight(p) /\ LinesDated(p)
                   /\ p \in Targets => CountsRounded(p)

-----------------------------------------------------------------------------
(* Why a task that never resumes writes the intersection.                    *)

\* Every run starts from nothing: recovery is off, or there is only one run.
Fresh == ~Recovery \/ MaxCrash = 0

\* The index of a line of an own item is its position, and there is one line
\* of each item that came back (ecdh_psi.cc:258, hash_bucket_cache.cc:49-60).
IndexedByPosition(p) ==
  /\ selfIdx[p] = UpTo(p, dualRecv[p])
  /\ \A l \in self[p] \cup selfBuf[p] :
       /\ l.run = run /\ l.dup = 0
       /\ l.idx = l.pos /\ l.pos < UpTo(p, dualRecv[p])

\* The index file is empty up to PostProcess and holds the join of the two
\* stores from there on (receiver.cc:127-130).
JoinWritten(p) ==
  /\ pc[p] \in {"PreProcess", "OnlineStart", "OnlineGather", "RunEcdhPsi", "OnlineSync",
               "OnlineEnd", "PostProcess"} => out[p] = {}
  /\ pc[p] \in {"PostEnd"} \cup PastPostEnd => out[p] = Intersect(p, self[p], peer[p])

\* Fifth layer, for such a task: every list is sent from its first item on, and
\* so the counter of a store counts positions (ecdh_psi.cc:462-476).
FreshInv ==
  /\ run >= 1 /\ DOMAIN out = Party
  /\ \A p \in Party :
       /\ start[p] = 0 /\ record[p].cnt = 0
       /\ pc[p] \in {"Init", "PreProcess", "OnlineStart", "OnlineGather"} =>
            ckpt[p].self = 0 /\ ckpt[p].peer = 0
       /\ IndexedByPosition(p) /\ JoinWritten(p)

=============================================================================
