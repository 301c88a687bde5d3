------------------------------- MODULE ApsiPsi ------------------------------
(* Labelled PSI over APSI, wrapper/apsi: the sender builds its databases,    *)
(* one bucket each, grouped into files that forked processes write, and      *)
(* serves parameter, OPRF and query requests; the receiver asks bucket by    *)
(* bucket and merges the result packages, in worker threads when streaming.  *)
(* The sender may be killed while it builds, and is then started again.      *)
(* SEAL, kuku and the APSI library are external: a hashed item is the item   *)
(* with the OPRF key it was hashed under, and a result package holds the     *)
(* slots of one bin bundle where the query and the bundle agree.             *)
EXTENDS Integers, Sequences, FiniteSets, SequencesExt

CONSTANTS
  Tasks   \* [proto |-> "apsi", source: Seq([key, label]), query: Seq(key),
          \*  bucketized, buckets, groups, procs, bucketOf: [key -> bucket],
          \*  locs: [key -> SUBSET slot], slots, perBundle, maxPerBin,
          \*  sndStream, rcvStream, workers, api, hasParams, crashes]

VARIABLES task, pc, net, mem, disk

vars == <<task, pc, net, mem, disk>>

Groups == 0 .. task.groups - 1
Buckets == 0 .. task.buckets - 1
CeilDiv(a, b) == (a + b - 1) \div b

PerGroup == CeilDiv(task.buckets, task.groups)
GetBucketGroupIdx(b) == b \div PerGroup

\* what a freshly started process holds: no group loaded, no bucket chosen
Random == -1
NoDb == [found |-> FALSE, key |-> Random, rows |-> <<>>]
Fresh == [kids |-> <<>>, groups |-> <<>>, at |-> 0, db |-> NoDb, query |-> <<>>, parts |-> {}]
Idle == [at |-> "exit", hits |-> {}]

Init ==
  /\ task \in Tasks
  /\ pc = [snd |-> "open", rcv |-> "connect"]
  /\ net = [snd |-> <<>>, rcv |-> <<>>]
  /\ mem = [snd |-> Fresh, crashes |-> 0,
            rcv |-> [todo |-> {}, bucket |-> 0, table |-> <<>>, left |-> 0,
                     workers |-> [w \in 1 .. task.workers |-> Idle],
                     found |-> {}, out |-> {}, append |-> FALSE, ctx |-> <<>>]]
  /\ disk = [status |-> "none", csv |-> [g \in Groups |-> <<>>], rows |-> [g \in Groups |-> <<>>],
             db |-> [g \in Groups |-> "none"], meta |-> [g \in Groups |-> "none"]]

Go(p, place) == pc' = [pc EXCEPT ![p] = place]
Snd(s) == mem' = [mem EXCEPT !.snd = s]
Rcv(r) == mem' = [mem EXCEPT !.rcv = r]
To(p, ms) == net' = [net EXCEPT ![p] = @ \o ms]

-----------------------------------------------------------------------------
(* The sender's databases.                                                   *)

Header == [bucket |-> -1, key |-> 0, label |-> 0]

\* the lines GroupBucketize writes to the file of group g
GroupLines(g) ==
  LET row(e) == [bucket |-> task.bucketOf[e.key], key |-> e.key, label |-> e.label]
      rows == [i \in DOMAIN task.source |-> row(task.source[i])]
  IN  <<Header>> \o SelectSeq(rows, LAMBDA r : GetBucketGroupIdx(r.bucket) = g)

\* GroupDB's constructor: a status file that cannot be parsed ends the sender
OpenGroupDb ==
  /\ pc.snd = "open" /\ task.bucketized
  /\ Go("snd", CASE disk.status = "torn" -> "failed"
                 [] disk.status \in {"none", "empty"} -> "divide"
                 [] disk.status = "bucketed" -> "fork"
                 [] disk.status = "generated" -> "load")
  /\ disk' = [disk EXCEPT !.status = IF @ = "none" THEN "empty" ELSE @]
  /\ UNCHANGED <<task, net, mem>>

\* GroupBucketize opens the files of the disk cache without truncating them,
\* and refuses a source without rows once the headers are written
DivideGroup ==
  /\ pc.snd = "divide"
  /\ disk' = [disk EXCEPT !.csv = [g \in Groups |-> @[g] \o GroupLines(g)]]
  /\ Go("snd", IF task.source = <<>> THEN "failed" ELSE "bucketed") /\ UNCHANGED <<task, net, mem>>

SaveStatus(at, status, next) ==
  /\ pc.snd = at
  /\ disk' = [disk EXCEPT !.status = status]
  /\ Go("snd", next) /\ UNCHANGED <<task, net, mem>>

\* ProcessGroupParallel: child i generates a contiguous range of the groups
Fork ==
  /\ pc.snd = "fork"
  /\ LET each == CeilDiv(task.groups, task.procs)
         first(i) == each * (i - 1)
         last(i) == IF each * i < task.groups THEN each * i ELSE task.groups
         kids == {i \in 1 .. task.procs : first(i) < task.groups}
     IN  Snd([mem.snd EXCEPT !.kids = [i \in kids |-> [at |-> first(i), end |-> last(i), step |-> "check"]]])
  /\ Go("snd", "wait") /\ UNCHANGED <<task, net, disk>>

Kid(i, step) == mem' = [mem EXCEPT !.snd.kids[i].step = step]
NextGroup(i) ==
  LET k == mem.snd.kids[i]
      n == [k EXCEPT !.at = @ + 1, !.step = IF k.at + 1 = k.end THEN "exit" ELSE "check"]
  IN  mem' = [mem EXCEPT !.snd.kids[i] = n]

\* MakeArrowCsvReader fails on a second header, and a bucket may hold a key once
Readable(lines) ==
  /\ lines # <<>> /\ lines[1] = Header
  /\ \A i \in 2 .. Len(lines) : lines[i] # Header
Duplicated(lines) ==
  \E i, j \in DOMAIN lines : i # j /\ lines[i].bucket = lines[j].bucket /\ lines[i].key = lines[j].key

FilesExist(g) == disk.db[g] # "none" /\ disk.meta[g] # "none"

\* GroupDBItem::LoadMeta.  A meta file that was never flushed leaves bucket_num
\* unset: a value above the limit throws, and any other finds no bucket.
LoadMeta(g) == IF disk.meta[g] = "open" THEN {"throws", "blank"} ELSE {"whole"}

\* GroupDBItem::Generate in a child.  Two files that exist are taken as they
\* are; an exception ends the child, and with it the rest of its range.
GenerateCheck(i) ==
  LET g == mem.snd.kids[i].at
  IN  /\ mem.snd.kids[i].step = "check"
      /\ \/ /\ FilesExist(g) /\ UNCHANGED disk
            /\ \E meta \in LoadMeta(g) : IF meta = "throws" THEN Kid(i, "exit") ELSE NextGroup(i)
         \/ ~FilesExist(g) /\ ~Readable(disk.csv[g]) /\ Kid(i, "exit") /\ UNCHANGED disk
         \/ /\ ~FilesExist(g) /\ Readable(disk.csv[g])
            /\ disk' = [disk EXCEPT !.db[g] = "open"]
            /\ Kid(i, IF Duplicated(disk.csv[g]) THEN "exit" ELSE "meta")
      /\ UNCHANGED <<task, pc, net>>

\* the buckets go to the stream's buffer; then the meta file is opened
OpenMeta(i) ==
  LET g == mem.snd.kids[i].at
  IN  /\ mem.snd.kids[i].step = "meta"
      /\ disk' = [disk EXCEPT !.rows[g] = Tail(disk.csv[g]), !.meta[g] = "open"]
      /\ Kid(i, "close") /\ UNCHANGED <<task, pc, net>>

\* the streams are destroyed in reverse order: the meta file first
CloseMeta(i) ==
  LET g == mem.snd.kids[i].at
  IN  /\ mem.snd.kids[i].step = "close"
      /\ disk' = [disk EXCEPT !.meta[g] = "whole"]
      /\ Kid(i, "flush") /\ UNCHANGED <<task, pc, net>>

CloseDb(i) ==
  LET g == mem.snd.kids[i].at
  IN  /\ mem.snd.kids[i].step = "flush"
      /\ disk' = [disk EXCEPT !.db[g] = "whole"]
      /\ NextGroup(i) /\ UNCHANGED <<task, pc, net>>

\* WaitToFinish waits for every child's semop and ignores their exit status
WaitToFinish ==
  /\ pc.snd = "wait" /\ \A i \in DOMAIN mem.snd.kids : mem.snd.kids[i].step = "exit"
  /\ Snd([mem.snd EXCEPT !.kids = <<>>])
  /\ Go("snd", "generated") /\ UNCHANGED <<task, net, disk>>

\* DealSingleDB: a database file, or one built from the source and saved
DealSingleDB ==
  /\ pc.snd = "open" /\ ~task.bucketized
  /\ \/ /\ disk.db[0] # "none"
        /\ Go("snd", "load") /\ UNCHANGED disk
     \/ /\ Duplicated(Tail(GroupLines(0)))
        /\ Go("snd", "failed") /\ UNCHANGED disk
     \/ /\ ~Duplicated(Tail(GroupLines(0)))
        /\ disk' = [disk EXCEPT !.rows[0] = Tail(GroupLines(0)), !.db[0] = "open"]
        /\ Go("snd", "save")
  /\ UNCHANGED <<task, net, mem>>

SaveSingleDB ==
  /\ pc.snd = "save"
  /\ disk' = [disk EXCEPT !.db[0] = "whole"]
  /\ Snd([mem.snd EXCEPT !.db = [found |-> TRUE, key |-> 0, rows |-> disk.rows[0]]])
  /\ Go("snd", "serve") /\ UNCHANGED <<task, net>>

\* the serving process is about to generate g for the bucket it looks up
BuildsInServer(g) ==
  LET wanted == IF task.api /\ net.snd # <<>> /\ Head(net.snd).op = "oprf" THEN Head(net.snd).bucket ELSE mem.snd.at
  IN  /\ pc.snd = "load" /\ task.bucketized /\ (task.api => net.snd # <<>>)
      /\ wanted < task.buckets /\ g = GetBucketGroupIdx(wanted)
      /\ ~FilesExist(g) /\ Readable(disk.csv[g]) /\ ~Duplicated(disk.csv[g])
CutShort(g) ==
  LET opened == [disk EXCEPT !.rows[g] = Tail(disk.csv[g]), !.db[g] = "open"]
  IN  {[disk EXCEPT !.db[g] = "open"], [opened EXCEPT !.meta[g] = "open"], [opened EXCEPT !.meta[g] = "whole"]}

\* The sender and its children are killed: files being written keep a prefix
CrashSender ==
  /\ pc.snd \in {"divide", "bucketed", "wait", "generated", "load", "save"}
  /\ mem.crashes < task.crashes
  /\ \/ /\ pc.snd = "divide"
        /\ \E cut \in [Groups -> 0 .. Len(task.source) + 1] :
             /\ \A g \in Groups : cut[g] <= Len(GroupLines(g))
             /\ disk' = [disk EXCEPT !.csv = [g \in Groups |-> @[g] \o SubSeq(GroupLines(g), 1, cut[g])]]
     \/ pc.snd \in {"bucketed", "generated"} /\ disk' = [disk EXCEPT !.status = "torn"]
     \/ \E g \in Groups : BuildsInServer(g) /\ disk' \in CutShort(g)
     \/ pc.snd # "divide" /\ UNCHANGED disk
  /\ mem' = [mem EXCEPT !.snd = Fresh, !.crashes = @ + 1]
  /\ Go("snd", "open") /\ UNCHANGED <<task, net>>

-----------------------------------------------------------------------------
(* Serving.                                                                  *)

\* GroupDBItem::Generate in the serving process, for a group its child gave up
\* or never came to: the group's meta data, and the files after it
GenerateGroup(g) ==
  LET opened == [disk EXCEPT !.db[g] = "open"]
      built == [disk EXCEPT !.rows[g] = Tail(disk.csv[g]), !.db[g] = "whole", !.meta[g] = "whole"]
  IN  IF FilesExist(g) THEN {[meta |-> m, disk |-> disk] : m \in LoadMeta(g)}
      ELSE {CASE ~Readable(disk.csv[g]) -> [meta |-> "throws", disk |-> disk]
              [] Readable(disk.csv[g]) /\ Duplicated(disk.csv[g]) -> [meta |-> "throws", disk |-> opened]
              [] OTHER -> [meta |-> "whole", disk |-> built]}

\* TryLoadSenderDB: what a torn file still yields, down to a database without its key
Loaded(d, g, b) ==
  LET rows == SelectSeq(d.rows[g], LAMBDA r : r.bucket = b)
      whole == [found |-> TRUE, key |-> b, rows |-> rows]
  IN  IF d.db[g] = "whole" THEN {whole} ELSE {whole, NoDb, [whole EXCEPT !.key = Random]}

HasBucket(d, g, b) == \E i \in DOMAIN d.rows[g] : d.rows[g][i].bucket = b
LoadBucket(d, g, b, meta) == IF meta = "whole" /\ HasBucket(d, g, b) THEN Loaded(d, g, b) ELSE {NoDb}

\* GroupDB::GetBucketDB: its outcomes, each with the sender and the files after it
GetBucketDB(b) ==
  LET g == GetBucketGroupIdx(b)
      known == g \in DOMAIN mem.snd.groups
      outcomes == IF known THEN {[meta |-> mem.snd.groups[g], disk |-> disk]} ELSE GenerateGroup(g)
      loads(o) == {[throws |-> FALSE, disk |-> o.disk,
                    snd |-> [mem.snd EXCEPT !.groups = (g :> o.meta) @@ @, !.db = d]] :
                      d \in LoadBucket(o.disk, g, b, o.meta)}
  IN  UNION {IF o.meta = "throws" THEN {[throws |-> TRUE, disk |-> o.disk, snd |-> mem.snd]} ELSE loads(o) :
               o \in outcomes}

\* SenderDispatcher's constructor tries the buckets in order for a database
LoadDispatcher ==
  /\ pc.snd = "load" /\ task.bucketized /\ ~task.api
  /\ \/ /\ mem.snd.at = task.buckets
        /\ Go("snd", "failed") /\ UNCHANGED <<mem, disk>>
     \/ /\ mem.snd.at < task.buckets
        /\ \E o \in GetBucketDB(mem.snd.at) :
             /\ disk' = o.disk
             /\ Snd([o.snd EXCEPT !.at = @ + 1])
             /\ Go("snd", CASE o.throws -> "failed" [] o.snd.db.found /\ ~o.throws -> "serve" [] OTHER -> "load")
  /\ UNCHANGED <<task, net>>

LoadSingleDB ==
  /\ pc.snd = "load" /\ ~task.bucketized
  /\ \E d \in Loaded(disk, 0, 0) : Snd([mem.snd EXCEPT !.db = d]) /\ Go("snd", IF d.found THEN "serve" ELSE "failed")
  /\ UNCHANGED <<task, net, disk>>

\* SetBucketIdx of a dispatcher with a single database changes nothing
SetBucketIdx(b) == IF task.bucketized THEN GetBucketDB(b) ELSE {[throws |-> FALSE, disk |-> disk, snd |-> mem.snd]}

Served(op) == pc.snd = "serve" /\ net.snd # <<>> /\ Head(net.snd).op = op
Reply(ms) == net' = [snd |-> Tail(net.snd), rcv |-> net.rcv \o ms]

\* an exception in a handler is logged and nothing is sent
DispatchThrows ==
  /\ Served("oprf") \/ Served("query")
  /\ \E o \in SetBucketIdx(Head(net.snd).bucket) : o.throws /\ disk' = o.disk
  /\ Reply(<<>>) /\ UNCHANGED <<task, pc, mem>>

DispatchParms ==
  /\ Served("parms")
  /\ Reply(IF mem.snd.db.found THEN <<[op |-> "parms"]>> ELSE <<>>)
  /\ UNCHANGED <<task, pc, mem, disk>>

DispatchOprf ==
  /\ Served("oprf")
  /\ \E o \in SetBucketIdx(Head(net.snd).bucket) :
       /\ ~o.throws /\ disk' = o.disk
       /\ Snd(o.snd) /\ Reply(<<[op |-> "oprf", key |-> o.snd.db.key]>>)
  /\ UNCHANGED <<task, pc>>

\* an empty OPRF request for the largest bucket index
DispatchStop ==
  /\ Served("stop") /\ Reply(<<>>)
  /\ Go("snd", "stopped") /\ UNCHANGED <<task, mem, disk>>

\* SenderDB::set_data: an item is in a bin for each of its locations, and a bin
\* that is full starts another bundle for the same bundle index
Bundles(rows) ==
  LET layer(s, i) == CeilDiv(Cardinality({j \in 1 .. i : s \in task.locs[rows[j].key]}), task.maxPerBin)
      entries == UNION {{[slot |-> s, layer |-> layer(s, i), key |-> rows[i].key, label |-> rows[i].label] :
                           s \in task.locs[rows[i].key]} : i \in DOMAIN rows}
      place(e) == <<e.slot \div task.perBundle, e.layer>>
  IN  {{e \in entries : place(e) = x} : x \in {place(e) : e \in entries}}

\* ComputePowers and ProcessBinBundleCache: the slots where the matching
\* polynomial vanishes, and the label polynomial there.  The items of a bundle
\* are hashed under the key their bucket's database was built with.
ProcessBinBundleCache(bundle, table) ==
  LET meets(e) == e.slot \in DOMAIN table /\ table[e.slot] = <<task.bucketOf[e.key], e.key>>
  IN  [op |-> "rp", hits |-> {[slot |-> e.slot, label |-> e.label] : e \in {x \in bundle : meets(x)}}]

QueryResponse(n) == [op |-> "query", count |-> n]

\* dispatch_query and Sender::RunQuery.  Streaming announces the packages first;
\* the thread pool produces them in any order.
DispatchQuery ==
  /\ Served("query")
  /\ \E o \in SetBucketIdx(Head(net.snd).bucket) :
       LET s == o.snd
           table == Head(net.snd).table
           bundles == IF s.db.found THEN Bundles(s.db.rows) ELSE {}
           n == Cardinality(bundles)
       IN  /\ ~o.throws /\ disk' = o.disk
           /\ IF task.sndStream \/ bundles = {}
              THEN /\ Snd([s EXCEPT !.parts = bundles, !.query = table])
                   /\ Reply(<<QueryResponse(n)>>)
                   /\ Go("snd", IF bundles = {} THEN "serve" ELSE "stream")
              ELSE \E order \in SetToSeqs(bundles) :
                     /\ Snd(s) /\ UNCHANGED pc
                     /\ Reply(<<QueryResponse(n)>> \o
                              [i \in 1 .. n |-> ProcessBinBundleCache(order[i], table)])
  /\ UNCHANGED task

SendResultPart ==
  /\ pc.snd = "stream"
  /\ \E b \in mem.snd.parts :
       /\ To("rcv", <<ProcessBinBundleCache(b, mem.snd.query)>>)
       /\ Snd([mem.snd EXCEPT !.parts = @ \ {b}, !.query = IF mem.snd.parts = {b} THEN <<>> ELSE @])
       /\ Go("snd", IF mem.snd.parts = {b} THEN "serve" ELSE "stream")
  /\ UNCHANGED <<task, disk>>

-----------------------------------------------------------------------------
(* The receiver.                                                             *)

Elements(q) == {q[i] : i \in DOMAIN q}
QueryBuckets == {task.bucketOf[k] : k \in Elements(task.query)}
BucketItems(b) == SelectSeq(task.query, LAMBDA k : task.bucketOf[k] = b)

Got(op) == net.rcv # <<>> /\ Head(net.rcv).op = op
Took == net' = [net EXCEPT !.rcv = Tail(@)]

\* RunReceiver connects, and asks for the parameters if it has no file of them
Connect ==
  /\ pc.rcv = "connect" /\ pc.snd = "serve"
  /\ \/ /\ task.hasParams
        /\ Go("rcv", "load") /\ UNCHANGED net
     \/ /\ ~task.hasParams
        /\ To("snd", <<[op |-> "parms"]>>) /\ Go("rcv", "parms")
  /\ UNCHANGED <<task, mem, disk>>

\* a sender that cannot start (again) is never reached
ConnectFails ==
  /\ pc.snd = "failed" /\ pc.rcv \in {"connect", "apiOprf", "apiQuery"}
  /\ Go("rcv", "failed") /\ UNCHANGED <<task, net, mem, disk>>

RequestParams ==
  /\ pc.rcv = "parms" /\ Got("parms") /\ Took
  /\ Go("rcv", "load") /\ UNCHANGED <<task, mem, disk>>

\* ApsiCsvReader::read refuses a query file with a repeated key
LoadQuery ==
  /\ pc.rcv = "load"
  /\ Rcv([mem.rcv EXCEPT !.todo = QueryBuckets])
  /\ Go("rcv", IF Cardinality(Elements(task.query)) = Len(task.query) THEN "bucket" ELSE "failed")
  /\ UNCHANGED <<task, net, disk>>

\* the buckets are taken in the order of an unordered_map
RequestOPRF ==
  /\ pc.rcv = "bucket"
  /\ \E b \in mem.rcv.todo :
       /\ To("snd", <<[op |-> "oprf", bucket |-> b]>>)
       /\ Rcv([mem.rcv EXCEPT !.bucket = b, !.todo = @ \ {b}])
  /\ Go("rcv", "oprf") /\ UNCHANGED <<task, disk>>

\* kuku: an item is in one of its locations, one item to a location
Cuckoo(items) == {f \in [Elements(items) -> 0 .. task.slots - 1] :
                    /\ \A k \in Elements(items) : f[k] \in task.locs[k]
                    /\ \A k, l \in Elements(items) : f[k] = f[l] => k = l}

\* create_query: the item hashed with key at its location, and the index of
\* the item (the last, of equal ones) at that location
CreateQuery(key, f) == [s \in {f[k] : k \in DOMAIN f} |-> <<key, CHOOSE k \in DOMAIN f : f[k] = s>>]
Translation(items, f) ==
  [s \in {f[k] : k \in DOMAIN f} |-> CHOOSE i \in DOMAIN items :
     f[items[i]] = s /\ \A j \in DOMAIN items : items[j] = items[i] => j <= i]

RequestQuery ==
  /\ pc.rcv = "oprf" /\ Got("oprf")
  /\ LET items == BucketItems(mem.rcv.bucket)
     IN  \/ /\ Cuckoo(items) = {}
            /\ Took /\ Go("rcv", "failed") /\ UNCHANGED mem
         \/ \E f \in Cuckoo(items) :
              /\ net' = [rcv |-> Tail(net.rcv),
                         snd |-> Append(net.snd, [op |-> "query", bucket |-> mem.rcv.bucket,
                                                  table |-> CreateQuery(Head(net.rcv).key, f)])]
              /\ Rcv([mem.rcv EXCEPT !.table = Translation(items, f)])
              /\ Go("rcv", "query")
  /\ UNCHANGED <<task, disk>>

\* process_result_part: the items of the hits, with their labels
ProcessResultPart(hits, table) == {[item |-> table[h.slot], label |-> h.label] : h \in {x \in hits : x.slot \in DOMAIN table}}

\* a match for an item that already has one is an error
Merges(found, part) == \A m \in part, n \in found : m.item # n.item

RequestQueryResponse ==
  /\ pc.rcv = "query" /\ Got("query") /\ Took
  /\ LET n == Head(net.rcv).count
         started == {w \in DOMAIN mem.rcv.workers : w <= n}
     IN  Rcv([mem.rcv EXCEPT !.left = n, !.found = {},
                             !.workers = [w \in DOMAIN @ |-> IF w \in started THEN [Idle EXCEPT !.at = "run"] ELSE Idle]])
  /\ Go("rcv", IF task.rcvStream THEN "workers" ELSE "parts") /\ UNCHANGED <<task, disk>>

Worker(w, at, hits) == [mem.rcv EXCEPT !.workers[w] = [at |-> at, hits |-> hits]]

\* process_result_worker: claim a package or stop
ClaimPackage(w) ==
  /\ pc.rcv = "workers" /\ mem.rcv.workers[w].at = "run"
  /\ IF mem.rcv.left = 0 THEN Rcv(Worker(w, "exit", {}))
     ELSE Rcv([Worker(w, "claimed", {}) EXCEPT !.left = @ - 1])
  /\ UNCHANGED <<task, pc, net, disk>>

ReceiveResult(w) ==
  /\ pc.rcv = "workers" /\ mem.rcv.workers[w].at = "claimed" /\ Got("rp") /\ Took
  /\ Rcv(Worker(w, "merge", ProcessResultPart(Head(net.rcv).hits, mem.rcv.table)))
  /\ UNCHANGED <<task, pc, disk>>

MergeResult(w) ==
  /\ pc.rcv = "workers" /\ mem.rcv.workers[w].at = "merge"
  /\ LET part == mem.rcv.workers[w].hits
     IN  /\ Rcv([Worker(w, "run", {}) EXCEPT !.found = @ \cup part])
         /\ Go("rcv", IF Merges(mem.rcv.found, part) THEN "workers" ELSE "failed")
  /\ UNCHANGED <<task, net, disk>>

JoinWorkers ==
  /\ pc.rcv = "workers" /\ \A w \in DOMAIN mem.rcv.workers : mem.rcv.workers[w].at = "exit"
  /\ Go("rcv", "print") /\ UNCHANGED <<task, net, mem, disk>>

\* without streaming: all packages, then process_result
ProcessResult ==
  /\ pc.rcv = "parts"
  /\ \/ /\ mem.rcv.left > 0 /\ Got("rp") /\ Took
        /\ LET part == ProcessResultPart(Head(net.rcv).hits, mem.rcv.table)
           IN  /\ Rcv([mem.rcv EXCEPT !.left = @ - 1, !.found = @ \cup part])
               /\ Go("rcv", IF Merges(mem.rcv.found, part) THEN "parts" ELSE "failed")
     \/ mem.rcv.left = 0 /\ Go("rcv", "print") /\ UNCHANGED <<net, mem>>
  /\ UNCHANGED <<task, disk>>

\* the file is appended to once a bucket had a match
PrintFresh(r, lines) == [r EXCEPT !.out = lines, !.append = @ \/ lines # {}]

\* print_intersection_results
PrintResults(r, lines) == [r EXCEPT !.out = IF r.append THEN @ \cup lines ELSE lines,
                                    !.append = @ \/ lines # {}]

Lines(found, items) == {[key |-> items[m.item], label |-> m.label] : m \in found}

FinishBucket ==
  /\ pc.rcv = "print"
  /\ Rcv([PrintResults(mem.rcv, Lines(mem.rcv.found, BucketItems(mem.rcv.bucket)))
            EXCEPT !.found = {}, !.table = <<>>])
  /\ \/ mem.rcv.todo # {} /\ Go("rcv", "bucket") /\ UNCHANGED net
     \/ mem.rcv.todo = {} /\ Go("rcv", "done") /\ To("snd", <<[op |-> "stop"]>>)
  /\ UNCHANGED <<task, disk>>

\* a link wait that nothing will end: the receiver's caller gets -1
ReceiveTimesOut ==
  /\ pc.rcv \in {"parms", "oprf", "query"} /\ net = [snd |-> <<>>, rcv |-> <<>>] /\ pc.snd = "serve"
  /\ Go("rcv", "failed") /\ UNCHANGED <<task, net, mem, disk>>

ServeTimesOut ==
  /\ pc.snd = "serve" /\ net.snd = <<>> /\ pc.rcv = "failed"
  /\ Go("snd", "lost") /\ UNCHANGED <<task, net, mem, disk>>

-----------------------------------------------------------------------------
(* The library interface, api/{sender,receiver}.cc: the caller carries the   *)
(* requests of all buckets over and the answers back.                        *)

ApiRequestOPRF ==
  /\ task.api /\ pc.rcv = "connect" /\ pc.snd = "load"
  /\ \E order \in SetToSeqs(QueryBuckets) :
       /\ To("snd", [i \in DOMAIN order |-> [op |-> "oprf", bucket |-> order[i]]])
       /\ Rcv([mem.rcv EXCEPT !.ctx = [i \in DOMAIN order |-> [bucket |-> order[i], table |-> <<>>]]])
  /\ Go("rcv", "apiOprf") /\ UNCHANGED <<task, disk>>

ApiServed(op) == task.api /\ pc.snd = "load" /\ net.snd # <<>> /\ Head(net.snd).op = op

ApiRunOPRF ==
  /\ ApiServed("oprf")
  /\ \E o \in GetBucketDB(Head(net.snd).bucket) :
       /\ ~o.throws /\ disk' = o.disk
       /\ Snd([o.snd EXCEPT !.db = NoDb]) /\ Reply(<<[op |-> "oprf", key |-> o.snd.db.key]>>)
  /\ UNCHANGED <<task, pc>>

\* RunQuery first looks for a bucket that holds a database, from the first on
GetDefaultDB ==
  /\ ApiServed("query") /\ ~mem.snd.db.found /\ mem.snd.at < task.buckets
  /\ \E o \in GetBucketDB(mem.snd.at) :
       ~o.throws /\ disk' = o.disk /\ Snd([o.snd EXCEPT !.at = @ + 1])
  /\ UNCHANGED <<task, pc, net>>

\* a bucket without a database is answered by the empty string
ApiRunQuery ==
  /\ ApiServed("query") /\ mem.snd.db.found
  /\ \E o \in GetBucketDB(Head(net.snd).bucket) :
       /\ ~o.throws /\ disk' = o.disk
       /\ \E order \in SetToSeqs(Bundles(o.snd.db.rows)) :
            /\ Snd([o.snd EXCEPT !.db = NoDb, !.at = 0])
            /\ Reply(<<[op |-> "answer", empty |-> ~o.snd.db.found,
                        parts |-> [i \in DOMAIN order |-> ProcessBinBundleCache(order[i], Head(net.snd).table)]]>>)
  /\ UNCHANGED <<task, pc>>

\* an exception of the sender reaches the caller of the batch
ApiThrows ==
  LET searching == ApiServed("query") /\ ~mem.snd.db.found
      bucket == IF searching THEN mem.snd.at ELSE Head(net.snd).bucket
  IN  /\ ApiServed("oprf") \/ ApiServed("query")
      /\ \/ searching /\ mem.snd.at = task.buckets /\ UNCHANGED disk
         \/ bucket < task.buckets /\ \E o \in GetBucketDB(bucket) : o.throws /\ disk' = o.disk
      /\ pc' = [snd |-> "stopped", rcv |-> "failed"] /\ UNCHANGED <<task, net, mem>>

Answered(n, op) == Len(net.rcv) = n /\ \A i \in 1 .. n : net.rcv[i].op = op

ApiRequestQuery ==
  LET n == Len(mem.rcv.ctx)
      items(i) == BucketItems(mem.rcv.ctx[i].bucket)
  IN  /\ pc.rcv = "apiOprf" /\ Answered(n, "oprf")
      /\ \/ /\ \E i \in 1 .. n : Cuckoo(items(i)) = {}
            /\ pc' = [snd |-> "stopped", rcv |-> "failed"] /\ UNCHANGED <<net, mem>>
         \/ \E fs \in [1 .. n -> UNION {Cuckoo(items(i)) : i \in 1 .. n}] :
              /\ \A i \in 1 .. n : fs[i] \in Cuckoo(items(i))
              /\ net' = [rcv |-> <<>>,
                         snd |-> [i \in 1 .. n |-> [op |-> "query", bucket |-> mem.rcv.ctx[i].bucket,
                                                    table |-> CreateQuery(net.rcv[i].key, fs[i])]]]
              /\ Rcv([mem.rcv EXCEPT !.ctx = [i \in 1 .. n |-> [@[i] EXCEPT !.table = Translation(items(i), fs[i])]]])
              /\ Go("rcv", "apiQuery")
      /\ UNCHANGED <<task, disk>>

\* ProcessResult: loading the header of an empty answer throws; the results of
\* the buckets before it are in the file already
ApiProcessResult ==
  LET n == Len(mem.rcv.ctx)
      table(i) == mem.rcv.ctx[i].table
      found(i) == UNION {ProcessResultPart(net.rcv[i].parts[j].hits, table(i)) : j \in DOMAIN net.rcv[i].parts}
      lines(i) == Lines(found(i), BucketItems(mem.rcv.ctx[i].bucket))
      good == IF \E i \in 1 .. n : net.rcv[i].empty
              THEN (CHOOSE i \in 1 .. n : net.rcv[i].empty /\ \A j \in 1 .. i - 1 : ~net.rcv[j].empty) - 1
              ELSE n
  IN  /\ pc.rcv = "apiQuery" /\ Answered(n, "answer")
      /\ Rcv([mem.rcv EXCEPT !.out = UNION {lines(i) : i \in 1 .. good}])
      /\ pc' = [snd |-> "stopped", rcv |-> IF good = n THEN "done" ELSE "failed"]
      /\ UNCHANGED <<task, net, disk>>

-----------------------------------------------------------------------------
Ended == /\ pc.rcv \in {"done", "failed"} /\ pc.snd \in {"stopped", "failed", "lost"}
Terminated == Ended /\ UNCHANGED vars

Next ==
  \/ OpenGroupDb \/ DivideGroup
  \/ SaveStatus("bucketed", "bucketed", "fork") \/ SaveStatus("generated", "generated", "load")
  \/ Fork \/ WaitToFinish \/ DealSingleDB \/ SaveSingleDB \/ CrashSender
  \/ \E i \in DOMAIN mem.snd.kids : GenerateCheck(i) \/ OpenMeta(i) \/ CloseMeta(i) \/ CloseDb(i)
  \/ LoadDispatcher \/ LoadSingleDB \/ DispatchThrows \/ DispatchParms \/ DispatchOprf
  \/ DispatchStop \/ DispatchQuery \/ SendResultPart
  \/ Connect \/ ConnectFails \/ RequestParams \/ LoadQuery \/ RequestOPRF \/ RequestQuery \/ RequestQueryResponse
  \/ \E w \in DOMAIN mem.rcv.workers : ClaimPackage(w) \/ ReceiveResult(w) \/ MergeResult(w)
  \/ JoinWorkers \/ ProcessResult \/ FinishBucket \/ ReceiveTimesOut \/ ServeTimesOut
  \/ ApiRequestOPRF \/ ApiRunOPRF \/ GetDefaultDB \/ ApiRunQuery \/ ApiThrows \/ ApiRequestQuery \/ ApiProcessResult
  \/ Terminated

Spec == Init /\ [][Next]_vars

-----------------------------------------------------------------------------
\* A crash caught this group's files between the opening of the first that
\* marks them as present and the flush of the last
Torn(g) == IF task.bucketized THEN FilesExist(g) /\ ~(disk.meta[g] = "whole" /\ disk.db[g] = "whole")
           ELSE disk.db[g] = "open"

\* The rows of the sender for the receiver's keys
Wanted == {[key |-> e.key, label |-> e.label] : e \in {x \in Elements(task.source) : x.key \in Elements(task.query)}}

\* The groups the query touches
Touched == {GetBucketGroupIdx(b) : b \in QueryBuckets}

\* No process can generate this group from its CSV file
Ungenerable(g) == /\ ~FilesExist(g)
                  /\ ~Readable(disk.csv[g]) \/ Duplicated(disk.csv[g])

\* ApsiExact: the file RunReceiver (or ProcessResult of the library interface)
\* has written when it ends well holds queried keys the sender has, with their
\* labels, and nothing else, whatever the number of buckets, groups and
\* processes, the order of the result packages, the choice of streaming on
\* either side, the process that generates a group and the point where the
\* sender was killed while building.  It holds each of them, except those of a
\* group whose files a crash tore: Generate only asks whether the two files
\* exist (group_db.cc:269), so such a group is never built again and its keys
\* may be missing from a result that reports success.  The receiver ends badly
\* only if the sender could not start, a key is repeated or finds no place in
\* the cuckoo table, a group it needs is torn or cannot be generated, or, in
\* the library interface, a bucket of the query has no row.
ApsiExact ==
  /\ pc.rcv = "done" => /\ mem.rcv.out \subseteq Wanted
                        /\ \A e \in Wanted \ mem.rcv.out : Torn(GetBucketGroupIdx(task.bucketOf[e.key]))
  /\ pc.rcv = "failed" =>
       \/ pc.snd = "failed"
       \/ Cardinality(Elements(task.query)) < Len(task.query)
       \/ \E b \in QueryBuckets : Cuckoo(BucketItems(b)) = {}
       \/ \E g \in IF task.api THEN Groups ELSE Touched : Ungenerable(g) \/ Torn(g)
       \/ task.api /\ \E b \in QueryBuckets : ~HasBucket(disk, GetBucketGroupIdx(b), b)
=============================================================================
