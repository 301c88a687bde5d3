----------------------------- MODULE BucketPsi ------------------------------
(* The bucket protocols KKRT and RR22 with recovery: the two parties' runs   *)
(* (interface.cc, algorithm/{kkrt,rr22}/{receiver,sender}.cc), the bucket    *)
(* helpers (utils/bucket.cc, utils/sync.cc), the three threads and two       *)
(* queues of Rr22Runner::AsyncRun at each party (rr22_psi.{h,cc}), the index *)
(* files, which survive a restart, and the count of parsed buckets in the    *)
(* checkpoint, under crashes of a party and restarts of the task.            *)
(*                                                                           *)
(* Saving the checkpoint is one step here; what a crash inside               *)
(* SaveCheckpointFile does is a subject of EcdhPsi.                          *)
EXTENDS Integers, Sequences, FiniteSets

CONSTANTS
  Inputs,      \* lists of unique keys: [key |-> ..., dup |-> ...], by party
  Configs,     \* [protocol, broadcast, recovery]
  BucketSize,  \* kkrt_config.bucket_size, rr22_config.bucket_size
  IndexCache,  \* kIndexWriterCacheSize
  MaxCrash     \* bound: crashes in a behaviour

Party == {0, 1}
Receiver == 0
Other(p) == 1 - p

\* The keys of a list are distinct: GetUniqueKeysInfo counts the duplicates
ASSUME BucketAssumption ==
  /\ BucketSize \in Nat \ {0} /\ IndexCache \in Nat \ {0} /\ MaxCrash \in Nat
  /\ Configs \subseteq
       [protocol : {"KKRT", "RR22"}, broadcast : BOOLEAN, recovery : BOOLEAN]
  /\ \A l \in Inputs :
       /\ l.key \in [Party -> Seq(Nat)] /\ l.dup \in [Party -> Seq(Nat)]
       /\ \A p \in Party :
            /\ Len(l.dup[p]) = Len(l.key[p])
            /\ \A i, j \in 1 .. Len(l.key[p]) : l.key[p][i] = l.key[p][j] => i = j

\* RecoveryCheckpoint.Stage
UNSPECIFIED      == 0
INIT_END         == 1
ONLINE_START     == 3
ONLINE_END       == 4
POST_PROCESS_END == 5

Ctx == {"main", "read", "run", "inter"}
Thread == {"prep", "run", "inter"}

VARIABLES
  inp, cfg,   \* the input and the configuration of the task
  run,        \* number of the current run of the task
  crashes,    \* crashes so far
  pc,         \* pc[p]: where the main thread of p is
  ckpt,       \* ckpt[p]: stage and parsed_bucket_count, in memory and on disk
  lines,      \* lines[p]: lines of the intersection index file
  idx,        \* idx[p]: bucket_idx of the loop, or the start of AsyncRun
  res,        \* res[p]: what the KKRT exchange of this bucket yielded
  th,         \* th[p][t]: place and bucket runner of a thread of AsyncRun
  prepared,   \* prepared[p]: prepared_runner_queue
  oprf,       \* oprf[p]: oprf_runner_queue
  link,       \* link[p][c]: messages sent by p on context c, in this run
  got         \* got[p][c]: how many of the peer's messages p has received

diskVars == <<ckpt, lines>>
pipeVars == <<th, prepared, oprf>>
linkVars == <<link, got>>
taskVars == <<inp, cfg, run, crashes>>
vars == <<inp, cfg, run, crashes, pc, ckpt, lines, idx, res, th, prepared,
          oprf, link, got>>

-----------------------------------------------------------------------------
(* Input lists, buckets and messages.                                        *)

Items(p) == 0 .. Len(inp.key[p]) - 1
Key(p, i) == inp.key[p][i + 1]
Dup(p, i) == inp.dup[p][i + 1]

CeilDiv(a, b) == (a + b - 1) \div b
Larger(a, b) == IF a >= b THEN a ELSE b
Smaller(a, b) == IF a <= b THEN a ELSE b

\* Every party takes its own bucket size for both lists
NegotiateBucketNum(n, m) ==
  IF n = 0 \/ m = 0 THEN 0
  ELSE Larger(CeilDiv(n, BucketSize), CeilDiv(m, BucketSize))

BucketNum == NegotiateBucketNum(Len(inp.key[0]), Len(inp.key[1]))

\* LoadBucketItems: the bin of a key depends on the key and on BucketNum only
Bucket(p, b) == {i \in Items(p) : Key(p, i) % BucketNum = b}

Arrived(p, c) == got[p][c] < Len(link[Other(p)][c])
Msg(p, c) == link[Other(p)][c][got[p][c] + 1]

\* A message names the place where the peer receives it and the bucket it is
\* about.  No party looks at either: the code sends only what else is in it.
Note(place, b) == [at |-> place, b |-> b]

\* Party p receives on the contexts of T and sends m on those of S
Exchange(p, T, S, m) ==
  /\ \A c \in T : Arrived(p, c)
  /\ got' = [got EXCEPT ![p] = [c \in Ctx |-> IF c \in T THEN @[c] + 1 ELSE @[c]]]
  /\ link' = [link EXCEPT ![p] = [c \in Ctx |-> IF c \in S THEN Append(@[c], m) ELSE @[c]]]

RecvOn(p, c) == Exchange(p, {c}, {}, <<>>)
SendOn(p, c, m) == Exchange(p, {}, {c}, m)
RecvSend(p, c, m) == Exchange(p, {c}, {c}, m)

Goto(p, place) == pc' = [pc EXCEPT ![p] = place]

\* What p says of the items of a bucket: keys with counts of duplicates
Told(p, S) == {[key |-> Key(p, i), dup |-> Dup(p, i)] : i \in S}

\* the own count of duplicates is taken
HitsOwnDup(p, S, told) ==
  {[idx |-> i, dup |-> Dup(p, i)] :
     i \in {j \in S : \E t \in told : t.key = Key(p, j)}}

\* Positions of p among S with a key that was told, with the peer's count
Hits(p, S, told) ==
  {[idx |-> x[1], dup |-> x[2].dup] :
     x \in {y \in S \X told : y[2].key = Key(p, y[1])}}

-----------------------------------------------------------------------------
(* Checkpoint and index file.                                                *)

\* "if (checkpoint_.stage() < s) set_stage(s)" and save, where recovery is on
MarkStage(p, s) ==
  ckpt' = [ckpt EXCEPT ![p].stage =
             IF cfg.recovery THEN Larger(@, s) ELSE @]

\* the count is one ahead
UpdateParsedBucketCountNext(p, c) ==
  ckpt' = [ckpt EXCEPT ![p] = IF cfg.recovery
                              THEN [stage |-> ONLINE_START, cnt |-> c + 1] ELSE @]

UpdateParsedBucketCount(p, c) ==
  ckpt' = [ckpt EXCEPT ![p] = IF cfg.recovery
                              THEN [stage |-> ONLINE_START, cnt |-> c] ELSE @]

\* WriteCache of every hit, and Commit
WriteLines(p, hits) ==
  lines' = [lines EXCEPT ![p] =
              @ \cup {[run |-> run, idx |-> h.idx, dup |-> h.dup] : h \in hits}]

-----------------------------------------------------------------------------
(* The main thread up to Online.                                             *)

NoRunner == [b |-> -1, null |-> FALSE, hits |-> {}]
Idle == [t \in Thread |-> [at |-> "idle", r |-> NoRunner]]

\* What p tells in Init: whether its keys are unique, their digest and number
Hello(p) == [at |-> "Init", b |-> 0,
             unique |-> \A i \in Items(p) : Dup(p, i) = 0,
             digest |-> {Key(p, i) : i \in Items(p)},
             cnt |-> Len(inp.key[p])]

Start ==
  /\ pc' = [p \in Party |-> "Init"]
  /\ idx' = [p \in Party |-> 0]
  /\ res' = [p \in Party |-> {}]
  /\ th' = [p \in Party |-> Idle]
  /\ prepared' = [p \in Party |-> <<>>]
  /\ oprf' = [p \in Party |-> <<>>]
  /\ got' = [p \in Party |-> [c \in Ctx |-> 0]]
  /\ link' = [p \in Party |-> [c \in Ctx |-> IF c = "main" THEN <<Hello(p)>> ELSE <<>>]]

Init ==
  /\ inp \in Inputs /\ cfg \in Configs
  /\ run = 1 /\ crashes = 0
  /\ pc = [p \in Party |-> "Init"]
  /\ ckpt = [p \in Party |-> [stage |-> UNSPECIFIED, cnt |-> 0]]
  /\ lines = [p \in Party |-> {}]
  /\ idx = [p \in Party |-> 0]
  /\ res = [p \in Party |-> {}]
  /\ th = [p \in Party |-> Idle]
  /\ prepared = [p \in Party |-> <<>>]
  /\ oprf = [p \in Party |-> <<>>]
  /\ got = [p \in Party |-> [c \in Ctx |-> 0]]
  /\ link = [p \in Party |-> [c \in Ctx |-> IF c = "main" THEN <<Hello(p)>> ELSE <<>>]]

ListSize(p) == [at |-> "PreProcess", b |-> 0, cnt |-> Len(inp.key[p])]

\* check_hash_digest is forced on with recovery.  A digest stands for its set of
\* keys here; that the code's digest of the concatenated keys tells less is the
\* subject of JoinPsi.
DigestEqual(p, hello) ==
  /\ cfg.recovery
  /\ hello.unique /\ Hello(p).unique
  /\ hello.digest = Hello(p).digest

\* The lines for equal inputs: all, and those that Init itself commits, as it
\* does when the number of lines written reaches the size of the cache
EqualLines(p) == [idx : Items(p), dup : {0}]
CommittedInInit(p) == {l \in EqualLines(p) : l.idx < IndexCache /\ IndexCache <= Len(inp.key[p])}

\* Init.  The index file is not truncated (trunc_intersection_indices_); for
\* equal inputs every index is written to the writer's cache, in the block that
\* interface.cc:119 marks "FIXME(huocun): This is broken now.", and the protocol
\* is skipped.
InitEnd(p) ==
  LET same == DigestEqual(p, Msg(p, "main")) IN
  /\ pc[p] = "Init" /\ Arrived(p, "main")
  /\ IF same THEN RecvOn(p, "main") ELSE RecvSend(p, "main", ListSize(p))
  /\ WriteLines(p, IF same THEN CommittedInInit(p) ELSE {})
  /\ MarkStage(p, INIT_END)
  /\ Goto(p, IF same THEN "Close" ELSE "PreProcess")
  /\ UNCHANGED <<taskVars, idx, res, pipeVars>>

\* Finalize closes the index writer: what Init left in its cache is committed.
\* A run of the protocol leaves nothing there, as every bucket is committed.
Close(p) ==
  /\ pc[p] = "Close"
  /\ WriteLines(p, EqualLines(p))
  /\ Goto(p, "Finalize")
  /\ UNCHANGED <<taskVars, ckpt, idx, res, pipeVars, linkVars>>

\* NegotiateBucketNum, the input bucket store in a fresh directory, and the
\* barrier after PreProcess; MarkPreProcessEnd has no key to store
PreProcess(p) ==
  /\ pc[p] = "PreProcess"
  /\ RecvSend(p, "main", Note("OnlineStart", 0))
  /\ Goto(p, "OnlineStart")
  /\ UNCHANGED <<taskVars, diskVars, idx, res, pipeVars>>

\* Where the loop goes on with bucket b: the place and the message sent first
LoopPlace(b) ==
  CASE cfg.protocol = "RR22" -> "AsyncRun"
    [] cfg.protocol = "KKRT" /\ b < BucketNum -> "Size"
    [] OTHER -> "PostProcess"

Size(p, place, b) == [at |-> place, b |-> b, size |-> Cardinality(Bucket(p, b))]

\* The three threads of AsyncRun start at bucket b
ThreadsAt(b) ==
  IF cfg.protocol = "RR22"
  THEN [t \in Thread |->
          [at |-> IF b >= BucketNum THEN "done" ELSE IF t = "prep" THEN "load" ELSE "pop",
           r |-> [NoRunner EXCEPT !.b = b]]]
  ELSE Idle

\* p receives on the main context and enters the loop at bucket b
EnterLoop(p, b) ==
  /\ idx' = [idx EXCEPT ![p] = b]
  /\ th' = [th EXCEPT ![p] = ThreadsAt(b)]
  /\ Exchange(p, {"main"}, IF LoopPlace(b) = "Size" THEN {"main"} ELSE {},
              Size(p, "Size", b))
  /\ Goto(p, LoopPlace(b))

\* The checkpoint as it is told to the peer
Record(p) == [at |-> "OnlineGather", b |-> 0, stage |-> ckpt[p].stage, cnt |-> ckpt[p].cnt]

\* After the barrier: Online
OnlineStart(p) ==
  /\ pc[p] = "OnlineStart"
  /\ \/ /\ BucketNum = 0
        /\ RecvOn(p, "main")
        /\ Goto(p, "PostProcess")
        /\ UNCHANGED <<idx, th>>
     \/ /\ BucketNum > 0 /\ cfg.recovery
        /\ RecvSend(p, "main", Record(p))
        /\ Goto(p, "OnlineGather")
        /\ UNCHANGED <<idx, th>>
     \/ /\ BucketNum > 0 /\ ~cfg.recovery
        /\ EnterLoop(p, 0)
  /\ UNCHANGED <<taskVars, diskVars, res, prepared, oprf>>

\* only the own count is looked at
ResumeOwn(p, record) == ckpt[p].cnt

\* bucket_idx of both protocols
ResumeAt(p, record) == Smaller(record.cnt, ckpt[p].cnt)

\* MarkOnlineStart has both records
OnlineGather(p) ==
  LET record == Msg(p, "main")
      finished == record.stage >= ONLINE_END /\ ckpt[p].stage >= ONLINE_END
  IN
  /\ pc[p] = "OnlineGather" /\ Arrived(p, "main")
  /\ MarkStage(p, ONLINE_START)
  /\ IF finished
     THEN RecvOn(p, "main") /\ Goto(p, "PostProcess") /\ UNCHANGED <<idx, th>>
     ELSE EnterLoop(p, ResumeAt(p, record))
  /\ UNCHANGED <<taskVars, lines, res, prepared, oprf>>

-----------------------------------------------------------------------------
(* The bucket loop of KKRT.                                                  *)

\* PrepareBucketData has both sizes: an empty bucket is left out, without a
\* count; otherwise the OPRF starts, inside SyncWait, with ExchangeSetSize.
KkrtSize(p) ==
  /\ pc[p] = "Size" /\ Arrived(p, "main")
  /\ IF Msg(p, "main").size = 0 \/ Bucket(p, idx[p]) = {}
     THEN EnterLoop(p, idx[p] + 1)
     ELSE /\ RecvSend(p, "main", Size(p, "SetSize", idx[p]))
          /\ Goto(p, "SetSize")
          /\ UNCHANGED <<idx, th>>
  /\ UNCHANGED <<taskVars, diskVars, res, prepared, oprf>>

\* The receiver has filled its cuckoo table and sends the corrections
KkrtSetSize(p) ==
  /\ pc[p] = "SetSize"
  /\ IF p = Receiver THEN RecvSend(p, "main", Note("Kkrt", idx[p])) ELSE RecvOn(p, "main")
  /\ Goto(p, "Kkrt")
  /\ UNCHANGED <<taskVars, diskVars, idx, res, pipeVars>>

\* Keys and counts of the items of S, which are of bucket b
Telling(p, place, b, S) == [at |-> place, b |-> b, told |-> Told(p, S)]

\* KkrtPsiSend: with all corrections, the encoded items and their counts go out
KkrtPsiSend(p) ==
  /\ pc[p] = "Kkrt" /\ p # Receiver
  /\ RecvSend(p, "main", Telling(p, "Kkrt", idx[p], Bucket(p, idx[p])))
  /\ Goto(p, "Sync")
  /\ UNCHANGED <<taskVars, diskVars, idx, res, pipeVars>>

\* KkrtPsiRecv: the encodings that are also in the receiver's table.  SyncWait
\* ends; BroadcastResult starts with the number of results.
KkrtPsiRecv(p) ==
  LET hits == Hits(p, Bucket(p, idx[p]), Msg(p, "main").told) IN
  /\ pc[p] = "Kkrt" /\ p = Receiver /\ Arrived(p, "main")
  /\ RecvSend(p, "main", [at |-> "Sync", b |-> idx[p], size |-> Cardinality(hits)])
  /\ res' = [res EXCEPT ![p] = hits]
  /\ Goto(p, IF cfg.broadcast THEN "Broadcast" ELSE "Write")
  /\ UNCHANGED <<taskVars, diskVars, idx, pipeVars>>

\* The sender's SyncWait ends; an empty result is not broadcast
KkrtSync(p) ==
  /\ pc[p] = "Sync" /\ Arrived(p, "main")
  /\ Exchange(p, {"main"}, IF cfg.broadcast THEN {"main"} ELSE {},
              [at |-> "Broadcast", b |-> idx[p], size |-> 0])
  /\ Goto(p, IF cfg.broadcast /\ Msg(p, "main").size > 0 THEN "Broadcast" ELSE "Write")
  /\ UNCHANGED <<taskVars, diskVars, idx, res, pipeVars>>

\* What the sender makes of a broadcast result: all its items if the numbers
\* agree, otherwise those it finds
SenderHits(p, told) ==
  LET own == Bucket(p, idx[p])
      hits == Hits(p, own, told)
  IN  IF Cardinality(told) = Cardinality(own)
      THEN hits \cup [idx : own \ {h.idx : h \in hits}, dup : {0}]
      ELSE hits

\* BroadcastResult: only the receiver has results
BroadcastResult(p) ==
  /\ pc[p] = "Broadcast" /\ Arrived(p, "main")
  /\ IF p = Receiver
     THEN /\ Exchange(p, {"main"}, IF res[p] # {} THEN {"main"} ELSE {},
                      Telling(p, "Broadcast", idx[p], {h.idx : h \in res[p]}))
          /\ UNCHANGED res
     ELSE /\ RecvOn(p, "main")
          /\ res' = [res EXCEPT ![p] = SenderHits(p, Msg(p, "main").told)]
  /\ Goto(p, "Write")
  /\ UNCHANGED <<taskVars, diskVars, idx, pipeVars>>

\* HandleBucketResultByReceiver, HandleBucketResultBySender: lines are written
\* and committed, and the second SyncWait tells the peer
KkrtWrite(p) ==
  /\ pc[p] = "Write"
  /\ WriteLines(p, res[p])
  /\ SendOn(p, "main", Note("Handled", idx[p]))
  /\ Goto(p, "Handled")
  /\ UNCHANGED <<taskVars, ckpt, idx, res, pipeVars>>

\* SyncWait returns; the count is saved; the next bucket
KkrtNext(p) ==
  /\ pc[p] = "Handled"
  /\ UpdateParsedBucketCount(p, idx[p] + 1)
  /\ EnterLoop(p, idx[p] + 1)
  /\ res' = [res EXCEPT ![p] = {}]
  /\ UNCHANGED <<taskVars, lines, prepared, oprf>>

Kkrt(p) ==
  \/ KkrtSize(p) \/ KkrtSetSize(p) \/ KkrtPsiSend(p) \/ KkrtPsiRecv(p)
  \/ KkrtSync(p) \/ BroadcastResult(p) \/ KkrtWrite(p) \/ KkrtNext(p)

-----------------------------------------------------------------------------
(* Rr22Runner::AsyncRun: buckets go from the prepare thread through a queue  *)
(* of one to the run thread, and through an unbounded queue to the           *)
(* intersection thread.  The parties' threads meet on contexts of their own. *)

CacheSize == 1

InPipe(p, t, at) == pc[p] = "AsyncRun" /\ th[p][t].at = at
Runner(p, t) == th[p][t].r
Move(p, t, at, r) == th' = [th EXCEPT ![p][t] = [at |-> at, r |-> r]]

\* Thread t of p turns to its next bucket, at the given place, or is done
NextRunner(p, t, at) ==
  LET b == th[p][t].r.b + 1 IN
  Move(p, t, IF b >= BucketNum THEN "done" ELSE at, [NoRunner EXCEPT !.b = b])

PipeFrame(p) == UNCHANGED <<taskVars, pc, idx, res>>

\* Prepare: pre_f, and the size is given to AllGather
PrepLoad(p) ==
  /\ InPipe(p, "prep", "load")
  /\ SendOn(p, "read", Size(p, "size", Runner(p, "prep").b))
  /\ Move(p, "prep", "size", Runner(p, "prep"))
  /\ PipeFrame(p) /\ UNCHANGED <<diskVars, prepared, oprf>>

\* ... the peer's size decides on null_bucket_; otherwise the OPRF's Init
PrepSize(p) ==
  LET r == Runner(p, "prep")
      null == Msg(p, "read").size = 0 \/ Bucket(p, r.b) = {}
  IN
  /\ InPipe(p, "prep", "size") /\ Arrived(p, "read")
  /\ Exchange(p, {"read"}, IF null THEN {} ELSE {"read"}, Note("vole", r.b))
  /\ Move(p, "prep", IF null THEN "push" ELSE "vole", [r EXCEPT !.null = null])
  /\ PipeFrame(p) /\ UNCHANGED <<diskVars, prepared, oprf>>

\* ... seed and VOLE are exchanged
PrepVole(p) ==
  /\ InPipe(p, "prep", "vole")
  /\ RecvOn(p, "read")
  /\ Move(p, "prep", "push", Runner(p, "prep"))
  /\ PipeFrame(p) /\ UNCHANGED <<diskVars, prepared, oprf>>

\* prepare_cv: room in the queue
PrepPush(p) ==
  /\ InPipe(p, "prep", "push")
  /\ Len(prepared[p]) < CacheSize
  /\ prepared' = [prepared EXCEPT ![p] = Append(@, Runner(p, "prep"))]
  /\ NextRunner(p, "prep", "load")
  /\ PipeFrame(p) /\ UNCHANGED <<diskVars, oprf, linkVars>>

\* The run thread takes a bucket; RunOprf: the receiver sends the solved
\* system, the sender waits for it, and a null bucket does nothing.
RunPop(p) ==
  LET r == Head(prepared[p]) IN
  /\ InPipe(p, "run", "pop")
  /\ prepared[p] # <<>>
  /\ prepared' = [prepared EXCEPT ![p] = Tail(@)]
  /\ IF r.null \/ p # Receiver THEN UNCHANGED linkVars ELSE SendOn(p, "run", Note("recv", r.b))
  /\ Move(p, "run", IF r.null \/ p = Receiver THEN "push" ELSE "recv", r)
  /\ PipeFrame(p) /\ UNCHANGED <<diskVars, oprf>>

RunOprf(p) ==
  /\ InPipe(p, "run", "recv")
  /\ RecvOn(p, "run")
  /\ Move(p, "run", "push", Runner(p, "run"))
  /\ PipeFrame(p) /\ UNCHANGED <<diskVars, prepared, oprf>>

RunPush(p) ==
  /\ InPipe(p, "run", "push")
  /\ oprf' = [oprf EXCEPT ![p] = Append(@, Runner(p, "run"))]
  /\ NextRunner(p, "run", "pop")
  /\ PipeFrame(p) /\ UNCHANGED <<diskVars, prepared, linkVars>>

\* GetIntersection: the sender sends its masks and counts
InterPop(p) ==
  LET r == Head(oprf[p])
      sends == ~r.null /\ p # Receiver
  IN
  /\ InPipe(p, "inter", "pop")
  /\ oprf[p] # <<>>
  /\ oprf' = [oprf EXCEPT ![p] = Tail(@)]
  /\ Exchange(p, {}, IF sends THEN {"inter"} ELSE {},
              Telling(p, "recv", r.b, Bucket(p, r.b)))
  /\ Move(p, "inter",
          IF r.null \/ (p # Receiver /\ ~cfg.broadcast) THEN "post" ELSE "recv", r)
  /\ PipeFrame(p) /\ UNCHANGED <<diskVars, prepared>>

\* GetIntersectionReceiver has the masks, and broadcasts the peer's indices
\* with its own counts; GetIntersectionSender has that broadcast
InterRecv(p) ==
  LET r == Runner(p, "inter")
      hits == Hits(p, Bucket(p, r.b), Msg(p, "inter").told)
      sends == cfg.broadcast /\ p = Receiver
  IN
  /\ InPipe(p, "inter", "recv") /\ Arrived(p, "inter")
  /\ Exchange(p, {"inter"}, IF sends THEN {"inter"} ELSE {},
              Telling(p, "recv", r.b, {h.idx : h \in hits}))
  /\ Move(p, "inter", "post", [r EXCEPT !.hits = hits])
  /\ PipeFrame(p) /\ UNCHANGED <<diskVars, prepared, oprf>>

\* post_f writes and commits the lines
InterPost(p) ==
  /\ InPipe(p, "inter", "post")
  /\ WriteLines(p, Runner(p, "inter").hits)
  /\ Move(p, "inter", "count", Runner(p, "inter"))
  /\ PipeFrame(p) /\ UNCHANGED <<ckpt, prepared, oprf, linkVars>>

\* ... and saves the count
InterCount(p) ==
  /\ InPipe(p, "inter", "count")
  /\ UpdateParsedBucketCount(p, Runner(p, "inter").b + 1)
  /\ NextRunner(p, "inter", "pop")
  /\ PipeFrame(p) /\ UNCHANGED <<lines, prepared, oprf, linkVars>>

Prep(p)  == PrepLoad(p) \/ PrepSize(p) \/ PrepVole(p) \/ PrepPush(p)
RunTh(p) == RunPop(p) \/ RunOprf(p) \/ RunPush(p)
Inter(p) == InterPop(p) \/ InterRecv(p) \/ InterPost(p) \/ InterCount(p)

\* AsyncRun returns; SyncWait tells the peer
Join(p) ==
  /\ pc[p] = "AsyncRun"
  /\ \A t \in Thread : th[p][t].at = "done"
  /\ SendOn(p, "main", Note("OnlineSync", idx[p]))
  /\ Goto(p, "OnlineSync")
  /\ UNCHANGED <<taskVars, diskVars, idx, res, pipeVars>>

-----------------------------------------------------------------------------
(* The end of the main thread.                                               *)

OnlineSync(p) ==
  /\ pc[p] = "OnlineSync"
  /\ RecvOn(p, "main")
  /\ Goto(p, "PostProcess")
  /\ UNCHANGED <<taskVars, diskVars, idx, res, pipeVars>>

PostProcess(p) ==
  /\ pc[p] = "PostProcess"
  /\ MarkStage(p, POST_PROCESS_END)
  /\ Goto(p, "Finalize")
  /\ UNCHANGED <<taskVars, lines, idx, res, pipeVars, linkVars>>

\* A party that gets the result reads the sorted index file, in which no index
\* may occur twice (InterIndexProcessor)
GetsResult(p) == p = Receiver \/ cfg.broadcast

\* the first index is compared with itself
RepeatedSelf(p) == lines[p] # {}

Repeated(p) == \E a, b \in lines[p] : a # b /\ a.idx = b.idx

FinalizeWrite(p) ==
  /\ pc[p] = "Finalize"
  /\ ~(GetsResult(p) /\ Repeated(p))
  /\ SendOn(p, "main", Note("FinalizeSync", idx[p]))
  /\ Goto(p, "FinalizeSync")
  /\ UNCHANGED <<taskVars, diskVars, idx, res, pipeVars>>

\* "duplicated read_cnt in result"
FinalizeThrows(p) ==
  /\ pc[p] = "Finalize"
  /\ GetsResult(p) /\ Repeated(p)
  /\ Goto(p, "down")
  /\ UNCHANGED <<taskVars, diskVars, idx, res, pipeVars, linkVars>>

FinalizeSync(p) ==
  /\ pc[p] = "FinalizeSync"
  /\ RecvOn(p, "main")
  /\ Goto(p, "done")
  /\ UNCHANGED <<taskVars, diskVars, idx, res, pipeVars>>

-----------------------------------------------------------------------------
(* Failures.                                                                 *)

Stopped(p) == pc[p] \in {"down", "done"}

\* The process of p dies; what was committed stays on disk
Crash(p) ==
  /\ ~Stopped(p) /\ crashes < MaxCrash
  /\ crashes' = crashes + 1
  /\ Goto(p, "down")
  /\ UNCHANGED <<inp, cfg, run, diskVars, idx, res, pipeVars, linkVars>>

MainReceives(p) ==
  {"Init", "PreProcess", "OnlineStart", "OnlineGather", "Size", "SetSize", "Sync",
   "Broadcast", "Handled", "OnlineSync", "FinalizeSync"}
  \cup (IF p = Receiver THEN {"Kkrt"} ELSE {})

\* The peer is down and the main thread of p times out in a receive
Abort(p) ==
  /\ pc[Other(p)] = "down" /\ ~Arrived(p, "main")
  /\ pc[p] \in MainReceives(p)
  /\ Goto(p, "down")
  /\ UNCHANGED <<taskVars, diskVars, idx, res, pipeVars, linkVars>>

\* The context on which a thread of AsyncRun waits, if it waits on one
WaitsOn(p, t) ==
  CASE t = "prep" /\ th[p][t].at \in {"size", "vole"} -> "read"
    [] t = "run" /\ th[p][t].at = "recv" -> "run"
    [] t = "inter" /\ th[p][t].at = "recv" -> "inter"
    [] OTHER -> "none"

\* A thread of AsyncRun times out: its future holds the exception.  Run, which
\* stands in for AsyncRun when there is one bucket, has only one thread.
ThreadThrows(p, t) ==
  LET c == WaitsOn(p, t) IN
  /\ pc[p] = "AsyncRun" /\ pc[Other(p)] = "down"
  /\ c # "none" /\ ~Arrived(p, c)
  /\ th' = [th EXCEPT ![p] = [u \in Thread |->
              IF u = t \/ BucketNum <= CacheSize THEN [@[u] EXCEPT !.at = "threw"]
              ELSE @[u]]]
  /\ UNCHANGED <<taskVars, pc, diskVars, idx, res, prepared, oprf, linkVars>>

\* All threads have ended and one of them threw: get() rethrows, and the
\* destructors of the futures have nobody to wait for
AsyncRunThrows(p) ==
  /\ pc[p] = "AsyncRun"
  /\ \A t \in Thread : th[p][t].at \in {"done", "threw"}
  /\ \E t \in Thread : th[p][t].at = "threw"
  /\ Goto(p, "down")
  /\ UNCHANGED <<taskVars, diskVars, idx, res, pipeVars, linkVars>>

\* KkrtPsiSend's thread that receives the corrections times out: the loop that
\* waits for all of them to arrive goes on
KkrtSpins(p) ==
  /\ pc[p] = "Kkrt" /\ p # Receiver
  /\ pc[Other(p)] = "down" /\ ~Arrived(p, "main")
  /\ Goto(p, "Spin")
  /\ UNCHANGED <<taskVars, diskVars, idx, res, pipeVars, linkVars>>

\* Somebody ends a process whose peer is down and that makes no progress
Kill(p) ==
  /\ pc[p] \in {"AsyncRun", "Spin"} /\ pc[Other(p)] = "down"
  /\ Goto(p, "down")
  /\ UNCHANGED <<taskVars, diskVars, idx, res, pipeVars, linkVars>>

\* The task is started again with the same configuration, at most once for
\* every crash.  Without recovery the index files are in a fresh directory.
Restart ==
  /\ \A p \in Party : Stopped(p)
  /\ \E p \in Party : pc[p] = "down"
  /\ run <= MaxCrash
  /\ run' = run + 1
  /\ Start
  /\ lines' = IF cfg.recovery THEN lines ELSE [p \in Party |-> {}]
  /\ UNCHANGED <<inp, cfg, crashes, ckpt>>

-----------------------------------------------------------------------------

MainStep(p) ==
  \/ InitEnd(p) \/ Close(p) \/ PreProcess(p) \/ OnlineStart(p) \/ OnlineGather(p)
  \/ Kkrt(p) \/ Join(p) \/ OnlineSync(p) \/ PostProcess(p)
  \/ FinalizeWrite(p) \/ FinalizeThrows(p) \/ FinalizeSync(p)

Fails(p) ==
  Abort(p) \/ KkrtSpins(p) \/ AsyncRunThrows(p) \/ \E t \in Thread : ThreadThrows(p, t)

AllDone == \A p \in Party : pc[p] = "done"

Terminated ==
  /\ AllDone \/ (run > MaxCrash /\ \A p \in Party : Stopped(p))
  /\ UNCHANGED vars

Next ==
  \/ \E p \in Party : \/ MainStep(p) \/ Prep(p) \/ RunTh(p) \/ Inter(p)
                      \/ Crash(p) \/ Fails(p) \/ Kill(p)
  \/ Restart
  \/ Terminated

Spec == Init /\ [][Next]_vars

\* Threads of a running process are scheduled, sent messages arrive, and a
\* receive that waits for a dead peer times out.  Nobody has to kill or to
\* start a process.
Fairness ==
  \A p \in Party : /\ WF_vars(MainStep(p)) /\ WF_vars(Prep(p))
                   /\ WF_vars(RunTh(p)) /\ WF_vars(Inter(p))
                   /\ WF_vars(Abort(p)) /\ WF_vars(AsyncRunThrows(p))
                   /\ \A t \in Thread : WF_vars(ThreadThrows(p, t))

FairSpec == Spec /\ Fairness

-----------------------------------------------------------------------------
(* Properties.                                                               *)

\* The lines for S, of the list of p, and T, of the list of its peer
Matches(p, S, T) ==
  {[idx |-> x[1], dup |-> Dup(Other(p), x[2])] :
     x \in {y \in S \X T : Key(p, y[1]) = Key(Other(p), y[2])}}

\* The lines a party has to see of bucket b
Expected(p, b) ==
  Matches(p, Bucket(p, b), Bucket(Other(p), b))

Written(p) == {[idx |-> l.idx, dup |-> l.dup] : l \in lines[p]}

\* A saved count never runs ahead of the index file, and no resumed loop
\* starts behind a bucket whose result some party still misses: the count is
\* saved after the commit, and the smaller of two counts is taken, although
\* the parties save theirs at different moments and KKRT leaves empty buckets
\* out of the count (kkrt/receiver.cc:103-149, rr22/receiver.cc:106-135).
CountBacked ==
  \A p \in Party : GetsResult(p) =>
    \A b \in 0 .. BucketNum - 1 :
      b < ckpt[p].cnt \/ b < idx[p] \/ ckpt[p].stage >= ONLINE_END
        => Expected(p, b) \subseteq Written(p)

\* What a party receives is what it waits for, about the bucket it works on:
\* the parties and their threads meet at the same bucket and at the same
\* exchange although messages carry neither, queues sit between the threads,
\* null buckets and empty results exchange fewer messages, and a resumed loop
\* starts elsewhere (rr22_psi.h:203-244, kkrt/receiver.cc:103-149).
SameBucket ==
  \A p \in Party :
    /\ pc[p] \in MainReceives(p) \cup {"Kkrt"} /\ Arrived(p, "main")
         => Msg(p, "main").at = pc[p] /\ Msg(p, "main").b = idx[p]
    /\ pc[p] = "AsyncRun" => \A t \in Thread :
         LET c == WaitsOn(p, t) IN
         c # "none" /\ Arrived(p, c)
           => Msg(p, c).at = th[p][t].at /\ Msg(p, c).b = Runner(p, t).b

\* A task that ends, after whatever crashes and restarts, has written exactly
\* the intersection for those who get the result, with the peer's counts of
\* duplicates, and nothing for the others unless the inputs agree; this includes
\* the shortcuts for an empty input (bucket.cc:162-165) and for equal ones, whose
\* block is marked "FIXME(huocun): This is broken now." (interface.cc:98-126,
\* 149): a task that was killed between its commits ends in Finalize's check for
\* repeated indices, not with a wrong result.
ResultExact ==
  \A p \in Party : pc[p] = "done" =>
    LET all == Matches(p, Items(p), Items(Other(p)))
        equal == DigestEqual(p, Hello(Other(p)))
    IN  /\ GetsResult(p) => Written(p) = all /\ ~Repeated(p)
        /\ GetsResult(p) \/ equal \/ lines[p] = {}

\* A task that loses nobody ends, whatever the schedule of the six threads of
\* AsyncRun and their queues (rr22_psi.h:189-248).
Completes == [](crashes = 0) => <>AllDone

\* A party whose peer is gone fails: its receives time out and throw
\* (rr22_psi.h:245-247, kkrt_psi.cc:217-250).
PeerLossNoticed ==
  \A p \in Party : [](pc[Other(p)] = "down" => <>(pc[p] \in {"down", "done"} \/ pc[Other(p)] # "down"))

-----------------------------------------------------------------------------
(* Inductive invariants behind the three safety properties.  Every context   *)
(* carries, in each direction, a sequence of messages that the inputs, the   *)
(* configuration and the two told checkpoints determine; each party sends    *)
(* what the sequence has next, and waits for what the peer's has next.       *)

Place ==
  {"Init", "PreProcess", "OnlineStart", "OnlineGather", "Size", "SetSize", "Kkrt", "Sync",
   "Broadcast", "Write", "Handled", "AsyncRun", "OnlineSync", "PostProcess", "Close", "Finalize",
   "FinalizeSync", "done", "down", "Spin", "idle", "load", "size", "vole", "push", "pop",
   "recv", "post", "count", "threw"}

Line == [idx : Nat, dup : Nat]
BucketRunner == [b : Int, null : BOOLEAN, hits : SUBSET Line]

Message ==
  [at : Place, b : Int]
    \cup [at : Place, b : Int, unique : BOOLEAN, digest : SUBSET Nat, cnt : Nat]
    \cup [at : Place, b : Int, cnt : Nat]
    \cup [at : Place, b : Int, stage : Nat, cnt : Nat]
    \cup [at : Place, b : Int, size : Nat]
    \cup [at : Place, b : Int, told : SUBSET [key : Nat, dup : Nat]]

ControlTypes ==
  /\ inp \in Inputs /\ cfg \in Configs
  /\ run \in Nat /\ crashes \in Nat
  /\ pc \in [Party -> Place]
  /\ ckpt \in [Party -> [stage : Nat, cnt : Nat]]
  /\ lines \in [Party -> SUBSET [run : Nat, idx : Nat, dup : Nat]]
  /\ idx \in [Party -> Nat]
  /\ res \in [Party -> SUBSET Line]

PipeTypes ==
  /\ th \in [Party -> [Thread -> [at : Place, r : BucketRunner]]]
  /\ prepared \in [Party -> Seq(BucketRunner)]
  /\ oprf \in [Party -> Seq(BucketRunner)]

LinkTypes ==
  /\ link \in [Party -> [Ctx -> Seq(Message)]]
  /\ got \in [Party -> [Ctx -> Nat]]
  /\ \A p \in Party : \A c \in Ctx : got[p][c] <= Len(link[Other(p)][c])

TypeOK == ControlTypes /\ PipeTypes /\ LinkTypes

\* null_bucket_, and PrepareBucketData without items
Null(b) == Bucket(0, b) = {} \/ Bucket(1, b) = {}

\* Both checkpoints have been told; whether the protocol is over, and the
\* bucket it goes on with
Gathered == \A p \in Party : Len(link[p]["main"]) >= 4
Finished == \A p \in Party : link[p]["main"][4].stage >= ONLINE_END
Resume ==
  IF cfg.recovery THEN Smaller(link[0]["main"][4].cnt, link[1]["main"][4].cnt) ELSE 0
Skips == DigestEqual(0, Hello(1))

\* What a party sends next on the main context when it enters the loop at b
LoopNote(b) ==
  IF cfg.protocol = "RR22" THEN Note("OnlineSync", b)
  ELSE IF b < BucketNum THEN Note("Size", b)
  ELSE Note("FinalizeSync", b)

\* What p sends on the main context after m
After(p, m) ==
  CASE m.at = "Init" -> Note(IF Skips THEN "FinalizeSync" ELSE "PreProcess", 0)
    [] m.at = "PreProcess" -> Note("OnlineStart", 0)
    [] m.at = "OnlineStart" -> IF BucketNum = 0 THEN Note("FinalizeSync", 0)
                               ELSE IF cfg.recovery THEN Note("OnlineGather", 0)
                               ELSE LoopNote(0)
    [] m.at = "OnlineGather" -> IF Finished THEN Note("FinalizeSync", 0)
                                ELSE LoopNote(Resume)
    [] m.at = "Size" -> IF Null(m.b) THEN LoopNote(m.b + 1) ELSE Note("SetSize", m.b)
    [] m.at = "SetSize" -> Note("Kkrt", m.b)
    [] m.at = "Kkrt" -> Note(IF p = Receiver THEN "Sync"
                             ELSE IF cfg.broadcast THEN "Broadcast" ELSE "Handled", m.b)
    [] m.at = "Sync" -> Note(IF cfg.broadcast /\ Expected(p, m.b) # {}
                             THEN "Broadcast" ELSE "Handled", m.b)
    [] m.at = "Broadcast" -> Note("Handled", m.b)
    [] m.at = "Handled" -> LoopNote(m.b + 1)
    [] m.at = "OnlineSync" -> Note("FinalizeSync", m.b)
    [] OTHER -> Note("none", 0)

Then(p, m, n) == (m.at = "OnlineGather" => Gathered) /\ After(p, m) = n

\* What p puts into a message on the main context
Content(p, m) ==
  /\ m.at = "Init" => m = Hello(p)
  /\ m.at = "OnlineGather" => m.stage \in Nat /\ m.cnt \in Nat
  /\ m.at \in {"Size", "SetSize"} => m.size = Cardinality(Bucket(p, m.b))
  /\ m.at = "Kkrt" /\ p # Receiver => m.told = Told(p, Bucket(p, m.b))
  /\ m.at = "Sync" => m.size = Cardinality(Expected(p, m.b))
  /\ m.at = "Broadcast" /\ p = Receiver
       => m.told = Told(p, {h.idx : h \in Expected(p, m.b)})

\* Only the first messages have a fixed position
Early(m, k) ==
  /\ m.at = "Init" => k = 1
  /\ m.at = "PreProcess" => k = 2
  /\ m.at = "OnlineStart" => k = 3
  /\ m.at = "OnlineGather" => k = 4

Script(p) ==
  LET s == link[p]["main"] IN
  /\ Len(s) >= 1 /\ s[1].at = "Init"
  /\ \A k \in 1 .. Len(s) : Content(p, s[k]) /\ Early(s[k], k)
  /\ \A k \in 1 .. Len(s) - 1 : Then(p, s[k], Note(s[k + 1].at, s[k + 1].b))

LoopPlaces == {"Size", "SetSize", "Kkrt", "Sync", "Broadcast", "Write", "Handled"}
Working(p) == pc[p] \notin {"down", "done", "Spin"}

\* Where a party that is at a place receives next on the main context
Awaits(place) ==
  CASE place = "Write" -> "Handled"
    [] place = "AsyncRun" -> "OnlineSync"
    [] place \in {"PostProcess", "Close", "Finalize"} -> "FinalizeSync"
    [] OTHER -> place

ReadsInStep(p) ==
  LET g == got[p]["main"] IN
  IF g = 0 THEN pc[p] = "Init" /\ idx[p] = 0
  ELSE Then(Other(p), link[Other(p)]["main"][g], Note(Awaits(pc[p]), idx[p]))

\* What p sent last on the main context when it is at a place where it waits
LastSent(p, place) ==
  CASE place = "Kkrt" /\ p # Receiver -> "SetSize"
    [] place = "Sync" -> "Kkrt"
    [] place = "Broadcast" /\ p = Receiver -> "Sync"
    [] OTHER -> place

LastMain(p) == link[p]["main"][Len(link[p]["main"])]

\* Places at which p has not yet sent what the peer waits for
Owes == {"Write", "AsyncRun", "PostProcess", "Close", "Finalize"}

SendsInStep(p) ==
  IF pc[p] \in Owes THEN Then(p, LastMain(p), Note(Awaits(pc[p]), idx[p]))
  ELSE Note(LastMain(p).at, LastMain(p).b) = Note(LastSent(p, pc[p]), idx[p])

\* The bucket the loop of RR22 starts with
Begun(b) == (cfg.recovery => Gathered) /\ b = Resume

PlaceRight(p) ==
  /\ pc[p] \in LoopPlaces => cfg.protocol = "KKRT" /\ idx[p] < BucketNum
  /\ pc[p] = "Sync" => p # Receiver
  /\ pc[p] = "Close" => Skips
  /\ pc[p] = "AsyncRun" => cfg.protocol = "RR22" /\ Begun(idx[p])
  /\ pc[p] = "OnlineGather" =>
       /\ BucketNum > 0 /\ cfg.recovery
       /\ link[p]["main"][4].stage = ckpt[p].stage /\ link[p]["main"][4].cnt = ckpt[p].cnt

\* What p holds of the result of its bucket before the lines are written
ResultHeld(p) ==
  res[p] = CASE p = Receiver /\ pc[p] \in {"Broadcast", "Write", "Handled"} -> Expected(p, idx[p])
             [] p # Receiver /\ cfg.broadcast /\ pc[p] \in {"Write", "Handled"} -> Expected(p, idx[p])
             [] OTHER -> {}

MainInv ==
  \A p \in Party :
    /\ Script(p)
    /\ Working(p) => ReadsInStep(p) /\ SendsInStep(p) /\ PlaceRight(p) /\ ResultHeld(p)

-----------------------------------------------------------------------------
(* The contexts of AsyncRun.                                                 *)

\* What comes on the context of the prepare threads after message k of s
AfterRead(s, k) ==
  IF k = 0 THEN Note("size", Resume)
  ELSE IF s[k].at = "size" /\ ~Null(s[k].b) THEN Note("vole", s[k].b)
  ELSE Note("size", s[k].b + 1)

ReadScript(p) ==
  LET s == link[p]["read"] IN
  \A k \in 1 .. Len(s) :
    /\ cfg.recovery => Gathered
    /\ Note(s[k].at, s[k].b) = AfterRead(s, k - 1)
    /\ s[k].at = "size" => s[k].size = Cardinality(Bucket(p, s[k].b))

\* What the prepare thread of p waits for or asks for next
PrepNext(p) ==
  LET r == Runner(p, "prep") IN
  CASE th[p]["prep"].at \in {"load", "size"} -> Note("size", r.b)
    [] th[p]["prep"].at = "vole" -> Note("vole", r.b)
    [] OTHER -> Note("size", r.b + 1)

PrepInStep(p) ==
  LET at == th[p]["prep"].at
      r == Runner(p, "prep")
      own == link[p]["read"]
  IN  at \in {"load", "size", "vole", "push"} =>
        /\ r.b \in 0 .. BucketNum - 1 /\ r.hits = {}
        /\ AfterRead(link[Other(p)]["read"], got[p]["read"]) = PrepNext(p)
        /\ IF at \in {"load", "push"} THEN AfterRead(own, Len(own)) = PrepNext(p)
           ELSE Len(own) > 0 /\ Note(own[Len(own)].at, own[Len(own)].b) = PrepNext(p)
        /\ at \in {"vole", "push"} => (r.null <=> Null(r.b))

\* On the two other contexts only buckets that are not null occur, in order
Before(s, k) == IF k = 1 THEN Resume - 1 ELSE s[k - 1].b

Due(s, k, b) ==
  /\ Before(s, k) < b
  /\ \A c \in 0 .. BucketNum - 1 : Before(s, k) < c /\ c < b => Null(c)

Chain(s) ==
  \A k \in 1 .. Len(s) :
    /\ cfg.recovery => Gathered
    /\ s[k].at = "recv" /\ s[k].b \in 0 .. BucketNum - 1
    /\ ~Null(s[k].b) /\ Due(s, k, s[k].b)

\* The items the told masks on the context of the intersection threads are of
Masked(p, b) ==
  IF p = Receiver THEN {h.idx : h \in Expected(p, b)} ELSE Bucket(p, b)

InterScript(p) ==
  \A k \in 1 .. Len(link[p]["inter"]) :
    link[p]["inter"][k].told = Told(p, Masked(p, link[p]["inter"][k].b))

\* The first bucket a thread has not finished receiving on, or sending for
UpTo(p, t, places) == IF th[p][t].at \in places THEN Runner(p, t).b ELSE Runner(p, t).b + 1

RunInStep(p) ==
  LET at == th[p]["run"].at
      r == Runner(p, "run")
  IN  /\ at \in {"pop", "recv", "push"} =>
           /\ r.b \in 0 .. BucketNum - 1
           /\ IF p = Receiver
              THEN Due(link[p]["run"], Len(link[p]["run"]) + 1, UpTo(p, "run", {"pop"}))
              ELSE Due(link[Other(p)]["run"], got[p]["run"] + 1, UpTo(p, "run", {"pop", "recv"}))
      /\ at \in {"recv", "push"} => r.hits = {} /\ (r.null <=> Null(r.b))
      /\ at = "recv" => p # Receiver /\ ~r.null

InterInStep(p) ==
  LET at == th[p]["inter"].at
      r == Runner(p, "inter")
      own == link[p]["inter"]
  IN  /\ at \in {"pop", "recv", "post", "count"} =>
           /\ r.b \in 0 .. BucketNum - 1
           /\ GetsResult(p) =>
                Due(link[Other(p)]["inter"], got[p]["inter"] + 1, UpTo(p, "inter", {"pop", "recv"}))
           /\ p = Receiver /\ cfg.broadcast =>
                Due(own, Len(own) + 1, UpTo(p, "inter", {"pop", "recv"}))
           /\ p # Receiver => Due(own, Len(own) + 1, UpTo(p, "inter", {"pop"}))
      /\ at = "recv" => GetsResult(p) /\ ~Null(r.b)
      /\ at \in {"post", "count"} => r.hits = IF GetsResult(p) THEN Expected(p, r.b) ELSE {}

\* A queue holds the buckets between the consumer and the producer, in order
Ordered(q, first) ==
  \A k \in 1 .. Len(q) :
    /\ q[k].b = first + k - 1 /\ q[k].b \in 0 .. BucketNum - 1
    /\ (q[k].null <=> Null(q[k].b)) /\ q[k].hits = {}

Queued(p, q, from, to) ==
  th[p][to].at # "threw" =>
    /\ Ordered(q, UpTo(p, to, {"pop", "done"}))
    /\ th[p][from].at # "threw" =>
         Runner(p, from).b = UpTo(p, to, {"pop", "done"}) + Len(q)

ThreadsRight(p) ==
  /\ th[p]["prep"].at \in {"load", "size", "vole", "push", "done", "threw"}
  /\ th[p]["run"].at \in {"pop", "recv", "push", "done", "threw"}
  /\ th[p]["inter"].at \in {"pop", "recv", "post", "count", "done", "threw"}
  /\ \A t \in Thread : th[p][t].at = "done" => Runner(p, t).b >= BucketNum

PipeContext == {"read", "run", "inter"}

\* Before AsyncRun
Unused(p) ==
  /\ \A c \in PipeContext : Len(link[p][c]) = 0 /\ got[p][c] = 0
  /\ Len(prepared[p]) = 0 /\ Len(oprf[p]) = 0

History(p) ==
  ReadScript(p) /\ InterScript(p) /\ Chain(link[p]["run"]) /\ Chain(link[p]["inter"])

Threads(p) ==
  /\ ThreadsRight(p) /\ PrepInStep(p) /\ RunInStep(p) /\ InterInStep(p)
  /\ Queued(p, prepared[p], "prep", "run")
  /\ Queued(p, oprf[p], "run", "inter")

PipeInv ==
  \A p \in Party :
    /\ History(p)
    /\ pc[p] \in {"Init", "PreProcess", "OnlineStart", "OnlineGather"} => Unused(p)
    /\ pc[p] = "AsyncRun" => Threads(p)

-----------------------------------------------------------------------------
(* Index files and counts.                                                   *)

Backed(p, b) == Expected(p, b) \subseteq Written(p)

\* Buckets whose lines p has written in this run, beyond what a count says
WrittenSoFar(p) ==
  /\ pc[p] = "Handled" => Backed(p, idx[p])
  /\ pc[p] = "AsyncRun" /\ th[p]["inter"].at # "threw" =>
       \A b \in 0 .. BucketNum - 1 :
         b < UpTo(p, "inter", {"pop", "recv", "post", "done"}) => Backed(p, b)
  /\ pc[p] \in {"OnlineSync", "PostProcess", "Finalize", "FinalizeSync", "done"} =>
       \A b \in 0 .. BucketNum - 1 : Backed(p, b)
  /\ pc[p] \in {"FinalizeSync", "done"} => ~Repeated(p)

LinesSound(p) ==
  IF GetsResult(p) THEN Written(p) \subseteq Matches(p, Items(p), Items(Other(p)))
  ELSE lines[p] = {} \/ Skips

FileInv ==
  /\ CountBacked
  /\ \A p \in Party :
       /\ LinesSound(p)
       /\ GetsResult(p) => WrittenSoFar(p)
       /\ ~cfg.recovery => ckpt[p].stage = UNSPECIFIED /\ ckpt[p].cnt = 0

=============================================================================
