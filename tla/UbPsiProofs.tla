---------------------------- MODULE UbPsiProofs -----------------------------
(* The cache of unbalanced PSI, for tables, batches, windows and numbers of  *)
(* launches of any size: whatever crashes cut short, a cache file that the   *)
(* provider accepts holds every row once.  Counting alone decides it: the    *)
(* rows of a data file never repeat, and there are as many as the meta file  *)
(* says, which is as many as the table has.                                  *)
EXTENDS UbPsi, TLAPS

N == Len(task.srv)

IsSeq(s) == \E S : s \in Seq(S)

\* What the proofs need of the constants: a table is a sequence
TasksAreTables == Batch \in Nat /\ \A t \in Tasks : Len(t.srv) \in Nat

\* Rows of the table without repetition
NoRepeats(rows, n) ==
  /\ \A i \in 1 .. n : rows[i] \in 0 .. N - 1
  /\ \A i, j \in 1 .. n : rows[i] = rows[j] => i = j

Fields ==
  /\ {"data", "meta", "items", "cnt", "peer"} \subseteq DOMAIN disk
  /\ {"srv", "cli", "snd"} \subseteq DOMAIN pc
  /\ {"todo", "key", "whole"} \subseteq DOMAIN mem

DataRows == [i \in 1 .. Len(disk.data) |-> disk.data[i].row]

DataInv ==
  /\ IsSeq(disk.data)
  /\ NoRepeats(DataRows, Len(disk.data))
  /\ \A i, j \in 1 .. Len(disk.data) : disk.data[i].mask = disk.data[j].mask

\* While a cache is generated, the rows left are those that are not in it yet
TodoInv ==
  pc["srv"] = "evaluate" =>
    /\ IsSeq(mem.todo)
    /\ NoRepeats(mem.todo, Len(mem.todo))
    /\ Len(disk.data) + Len(mem.todo) = N
    /\ \A i \in 1 .. Len(disk.data) : disk.data[i].mask = mem.key
    /\ \A i \in 1 .. Len(disk.data), j \in 1 .. Len(mem.todo) : disk.data[i].row # mem.todo[j]

\* The inductive invariant
CacheInv ==
  /\ task \in Tasks /\ Fields /\ DataInv /\ TodoInv
  /\ disk.meta # None => disk.meta.cnt = N

\* What every step but the ones that write the cache does
Frame ==
  /\ task' = task
  /\ DOMAIN disk' = DOMAIN disk /\ DOMAIN pc' = DOMAIN pc /\ DOMAIN mem' = DOMAIN mem
  /\ disk'.data = disk.data /\ disk'.meta = disk.meta
  /\ pc'.srv = "evaluate" => pc.srv = "evaluate" /\ mem'.todo = mem.todo /\ mem'.key = mem.key

-----------------------------------------------------------------------------
\* A process starts with no cache, or an empty one (UbPsi.tla, Init).
LEMMA CacheInit ==
  ASSUME TasksAreTables, Init PROVE CacheInv
<1>1. disk.data = << >> /\ disk.meta = None /\ pc["srv"] = "idle" /\ task \in Tasks
  BY DEF Init
<1>2. Len(disk.data) = 0 /\ IsSeq(disk.data)
  <2>1. << >> \in Seq({}) OBVIOUS
  <2> QED BY <1>1, <2>1 DEF IsSeq
<1>3. Fields
  <2>1. DOMAIN disk = {"data", "meta", "items", "cnt", "peer"} BY DEF Init
  <2>2. DOMAIN pc = {"srv", "cli", "snd"} BY DEF Init
  <2>3. {"todo", "key", "whole"} \subseteq DOMAIN mem BY DEF Init, Fresh
  <2> QED BY <2>1, <2>2, <2>3 DEF Fields
<1>4. DataInv BY <1>1, <1>2 DEF DataInv, NoRepeats
<1> QED BY <1>1, <1>3, <1>4 DEF CacheInv, TodoInv

\* A step that leaves the cache and what is left of it alone keeps the
\* invariant: the transfer, the online stage and the client's whole program.
LEMMA FrameKeeps ==
  ASSUME CacheInv, Frame PROVE CacheInv'
<1>1. Fields' BY DEF CacheInv, Frame, Fields
<1>2. N' = N /\ task' \in Tasks BY DEF CacheInv, Frame, N
<1>3. DataInv' BY <1>2 DEF CacheInv, Frame, DataInv, DataRows, NoRepeats
<1>4. TodoInv'
  <2> SUFFICES ASSUME pc'["srv"] = "evaluate" PROVE TodoInv' BY DEF TodoInv
  <2>1. /\ pc["srv"] = "evaluate" /\ mem'.todo = mem.todo /\ mem'.key = mem.key
        /\ disk'.data = disk.data
    BY DEF Frame
  <2>2. NoRepeats(mem.todo, Len(mem.todo))' BY <2>1, <1>2 DEF CacheInv, TodoInv, NoRepeats
  <2>3. IsSeq(mem.todo) BY <2>1 DEF CacheInv, TodoInv
  <2>4. IsSeq(mem'.todo) BY Zenon, <2>1, <2>3
  <2> QED BY <2>1, <2>2, <2>4, <1>2 DEF CacheInv, TodoInv
<1> QED BY <1>1, <1>2, <1>3, <1>4 DEF CacheInv, Frame

-----------------------------------------------------------------------------
\* The rest of the server never writes the cache: it reads the files to
\* transfer them (server.cc:86-114) and to look rows up (server.cc:116-203).
LEMMA ServerFrame ==
  ASSUME Fields,
         FlushData \/ OpenCache \/ SendFinalEvaluatedItems \/ OnlineKey
         \/ RecvBlindAndSendEvaluate \/ RecvBlindAndShuffle \/ SendEvaluate
         \/ RecvCacheIndexes \/ OnlineFinish \/ RecvAndRestoreIndexes \/ RecvThresholdIndexes
  PROVE  Frame
<1>1. CASE FlushData BY <1>1 DEF FlushData, Goto, Fields, Frame
<1>2. CASE OpenCache BY <1>2 DEF OpenCache, Goto, Fields, Frame
<1>3. CASE SendFinalEvaluatedItems BY <1>3 DEF SendFinalEvaluatedItems, Goto, Fields, Frame
<1>4. CASE OnlineKey BY <1>4 DEF OnlineKey, Goto, Fields, Frame
<1>5. CASE RecvBlindAndSendEvaluate
  BY <1>5 DEF RecvBlindAndSendEvaluate, CountPeer, AfterEvaluate, AfterRestore, Goto, Fields, Frame
<1>6. CASE RecvBlindAndShuffle
  BY <1>6 DEF RecvBlindAndShuffle, CountPeer, Goto, Fields, Frame
<1>7. CASE SendEvaluate
  BY <1>7 DEF SendEvaluate, AfterEvaluate, AfterRestore, Goto, Fields, Frame
<1>8. CASE RecvCacheIndexes BY <1>8 DEF RecvCacheIndexes, Goto, Fields, Frame
<1>9. CASE OnlineFinish BY <1>9 DEF OnlineFinish, Goto, Fields, Frame
<1>10. CASE RecvAndRestoreIndexes
  BY <1>10 DEF RecvAndRestoreIndexes, AfterRestore, Goto, Fields, Frame
<1>11. CASE RecvThresholdIndexes BY <1>11 DEF RecvThresholdIndexes, Goto, Fields, Frame
<1> QED BY <1>1, <1>2, <1>3, <1>4, <1>5, <1>6, <1>7, <1>8, <1>9, <1>10, <1>11

\* The client has its own files (client.cc:33-160), and does not touch what the
\* server keeps of a generation.
LEMMA ClientFrame ==
  ASSUME Fields, Client PROVE Frame
<1>1. CASE OpenStore BY <1>1 DEF OpenStore, Goto, Fields, Frame
<1>2. CASE RecvFinalEvaluatedItems
  BY <1>2 DEF RecvFinalEvaluatedItems, FlushStore, Goto, Fields, Frame
<1>3. CASE OnlineOpen BY <1>3 DEF OnlineOpen, Goto, Fields, Frame
<1>4. CASE SendBlindedItems BY <1>4 DEF SendBlindedItems, Goto, Fields, Frame
<1>5. CASE RecvEvaluatedItems BY <1>5 DEF RecvEvaluatedItems, Goto, Fields, Frame
<1>6. CASE ComputeIndices BY <1>6 DEF ComputeIndices, Goto, Fields, Frame
<1>7. CASE ThresholdIndices BY <1>7 DEF ThresholdIndices, Goto, Fields, Frame
<1>8. CASE RecvRestoredIndexes BY <1>8 DEF RecvRestoredIndexes, Goto, Fields, Frame
<1>9. CASE SendIndexes BY <1>9 DEF SendIndexes, Goto, Fields, Frame
<1> QED BY <1>1, <1>2, <1>3, <1>4, <1>5, <1>6, <1>7, <1>8, <1>9 DEF Client

\* Barriers, time-outs, the client's crash and the end of a launch leave the
\* server's files alone.
LEMMA OtherFrame ==
  ASSUME Fields,
         (\E p \in {"srv", "cli"} : Barrier(p) \/ TimesOut(p)) \/ CrashClient \/ Reset
         \/ UNCHANGED vars
  PROVE  Frame
<1>1. CASE \E p \in {"srv", "cli"} : Barrier(p) BY <1>1 DEF Barrier, Goto, Fields, Frame
<1>2. CASE \E p \in {"srv", "cli"} : TimesOut(p)
  BY <1>2 DEF TimesOut, FlushStore, Fields, Frame
<1>3. CASE CrashClient BY <1>3 DEF CrashClient, Fields, Frame
<1>4. CASE Reset BY <1>4 DEF Reset, Fields, Frame
<1>5. CASE UNCHANGED vars BY <1>5 DEF vars, Frame
<1> QED BY <1>1, <1>2, <1>3, <1>4, <1>5

\* A launch starts new processes, which share the files with the old ones
\* only (AbstractUbPsiParty::Run, UbPsi.tla's Launch).
LEMMA LaunchKeeps ==
  ASSUME CacheInv, NEW mode \in Modes, Launch(mode) PROVE CacheInv'
<1>1. disk' = disk /\ task' = task BY DEF Launch
<1>2. DOMAIN pc' = DOMAIN pc /\ pc'["srv"] # "evaluate"
  BY DEF Launch, CacheInv, Fields, Modes
<1>3. {"todo", "key", "whole"} \subseteq DOMAIN mem' BY DEF Launch, Fresh
<1>4. Fields' BY <1>1, <1>2, <1>3 DEF CacheInv, Fields
<1>5. DataInv' BY <1>1 DEF CacheInv, DataInv, DataRows, NoRepeats, N
<1>6. TodoInv' BY <1>2 DEF TodoInv
<1> QED BY <1>1, <1>4, <1>5, <1>6 DEF CacheInv, N

-----------------------------------------------------------------------------
\* OfflineGenCache empties the data file, whatever an earlier generation left
\* there, and shuffles the table's rows without losing or repeating one
\* (server.cc:60-114, UbPsi.tla's GenStart).
LEMMA GenStartKeeps ==
  ASSUME TasksAreTables, CacheInv, GenStart PROVE CacheInv'
<1>1. Fields' BY DEF CacheInv, Fields, GenStart, Goto
<1>2. N' = N /\ task' \in Tasks /\ N \in Nat
  BY DEF CacheInv, GenStart, N, TasksAreTables
<1>3. disk'.data = << >> /\ disk'.meta = disk.meta
  BY DEF CacheInv, Fields, GenStart
<1>4. Len(disk'.data) = 0 /\ IsSeq(disk'.data)
  <2>1. << >> \in Seq({}) OBVIOUS
  <2> QED BY <1>3, <2>1 DEF IsSeq
<1>5. DataInv' BY <1>3, <1>4 DEF DataInv, NoRepeats
<1>6. TodoInv'
  <2>1. PICK f \in Perms(N) : mem'.todo = Shuffled([i \in 1 .. N |-> i - 1], f)
    BY DEF CacheInv, Fields, GenStart, N
  <2> DEFINE rows == [i \in 1 .. N |-> i - 1]
  <2>2. rows \in Seq(0 .. N - 1) /\ Len(rows) = N BY <1>2
  <2>3. mem'.todo = [i \in 1 .. N |-> f[i] - 1]
    <3>1. mem'.todo = [i \in 1 .. N |-> rows[f[i]]] BY <2>1, <2>2 DEF Shuffled
    <3>2. \A i \in 1 .. N : f[i] \in 1 .. N BY DEF Perms
    <3> QED BY <3>1, <3>2
  <2>4. mem'.todo \in Seq(0 .. N - 1) /\ Len(mem'.todo) = N
    BY <2>3, <1>2 DEF Perms
  <2>5. NoRepeats(mem.todo, Len(mem.todo))'
    BY <2>3, <2>4, <1>2 DEF NoRepeats, Perms
  <2>6. IsSeq(mem'.todo) BY <2>4 DEF IsSeq
  <2> QED BY <2>4, <2>5, <2>6, <1>2, <1>4 DEF TodoInv
<1> QED BY <1>1, <1>2, <1>3, <1>5, <1>6 DEF CacheInv

\* The meta file is written when the last batch is in the data file, and
\* counts the whole table (ub_psi_cache.cc:123-143).
LEMMA FlushMetaKeeps ==
  ASSUME TasksAreTables, CacheInv, FlushMeta PROVE CacheInv'
<1>1. Fields' BY DEF CacheInv, Fields, FlushMeta, Goto
<1>2. N' = N /\ task' \in Tasks BY DEF CacheInv, FlushMeta, N
<1>3. disk'.data = disk.data /\ disk'.meta = [cnt |-> Len(disk.data), key |-> mem.key]
  BY DEF CacheInv, Fields, FlushMeta
<1>4. Len(disk.data) = N
  <2>1. mem.todo = << >> /\ pc["srv"] = "evaluate" BY DEF FlushMeta
  <2>2. Len(mem.todo) = 0 BY <2>1
  <2>3. Len(disk.data) \in Nat BY DEF CacheInv, DataInv, IsSeq
  <2> QED BY <2>1, <2>2, <2>3 DEF CacheInv, TodoInv
<1>5. DataInv' BY <1>2, <1>3 DEF CacheInv, DataInv, DataRows, NoRepeats
<1>6. TodoInv'
  <2>1. pc'["srv"] = "flush" BY DEF FlushMeta, Goto, CacheInv, Fields
  <2> QED BY <2>1 DEF TodoInv
<1> QED BY <1>1, <1>2, <1>3, <1>4, <1>5, <1>6 DEF CacheInv

\* A crash leaves a prefix of the data file, and no generation goes on after
\* it (ub_psi_cache.cc:83-121).
LEMMA CrashServerKeeps ==
  ASSUME TasksAreTables, CacheInv, CrashServer PROVE CacheInv'
<1>1. Fields' BY DEF CacheInv, Fields, CrashServer, Goto
<1>2. N' = N /\ task' \in Tasks BY DEF CacheInv, CrashServer, N
<1>3. PICK n \in 0 .. Len(disk.data) : disk'.data = SubSeq(disk.data, 1, n)
  BY DEF CacheInv, Fields, CrashServer
<1>4. disk'.meta = disk.meta BY DEF CacheInv, Fields, CrashServer
<1>5. PICK S : disk.data \in Seq(S) BY DEF CacheInv, DataInv, IsSeq
<1>6. disk'.data \in Seq(S) /\ Len(disk'.data) = n /\ n \in Nat /\ n <= Len(disk.data)
      /\ \A i \in 1 .. n : disk'.data[i] = disk.data[i]
  BY <1>3, <1>5
<1>7. DataInv'
  <2>1. IsSeq(disk'.data) BY <1>6 DEF IsSeq
  <2>2. \A i \in 1 .. n : i \in 1 .. Len(disk.data) BY <1>5, <1>6
  <2>3. NoRepeats(DataRows, Len(disk.data))'
    BY <1>2, <1>6, <2>2 DEF CacheInv, DataInv, DataRows, NoRepeats
  <2>4. (\A i, j \in 1 .. Len(disk.data) : disk.data[i].mask = disk.data[j].mask)'
    BY <1>6, <2>2 DEF CacheInv, DataInv
  <2> QED BY <2>1, <2>3, <2>4 DEF DataInv
<1>8. TodoInv'
  <2>1. pc'["srv"] = "failed" BY DEF CrashServer, Goto, CacheInv, Fields
  <2> QED BY <2>1 DEF TodoInv
<1> QED BY <1>1, <1>2, <1>4, <1>7, <1>8 DEF CacheInv

INSTANCE SequenceTheorems

\* What SaveData appends comes after what the file holds.
LEMMA Joined ==
  ASSUME NEW S, NEW s \in Seq(S), NEW n \in Nat, NEW t, t = [i \in 1 .. n |-> t[i]]
  PROVE  /\ IsSeq(s \o t) /\ Len(s \o t) = Len(s) + n /\ Len(s) \in Nat
         /\ \A i \in 1 .. Len(s) : (s \o t)[i] = s[i]
         /\ \A i \in 1 .. n : (s \o t)[Len(s) + i] = t[i]
<1> DEFINE V == S \cup {t[i] : i \in 1 .. n}
<1>1. s \in Seq(V)
  <2>1. Len(s) \in Nat /\ s \in [1 .. Len(s) -> V] BY LenProperties
  <2> QED BY <2>1, SeqDef
<1>2. t \in Seq(V) /\ Len(t) = n
  <2>1. t \in [1 .. n -> V] OBVIOUS
  <2>2. t \in Seq(V) BY <2>1, SeqDef
  <2> QED BY <2>1, <2>2, LenProperties
<1> HIDE DEF V
<1>3. s \o t \in Seq(V) /\ Len(s \o t) = Len(s) + n BY <1>1, <1>2, ConcatProperties
<1>4. \A i \in 1 .. Len(s) + n :
        (s \o t)[i] = IF i <= Len(s) THEN s[i] ELSE t[i - Len(s)]
  BY <1>1, <1>2, ConcatProperties
<1>5. Len(s) \in Nat OBVIOUS
<1>6. \A i \in 1 .. Len(s) : (s \o t)[i] = s[i] BY <1>4, <1>5
<1>7. \A i \in 1 .. n : (s \o t)[Len(s) + i] = t[i]
  <2> TAKE i \in 1 .. n
  <2>1. Len(s) + i \in 1 .. Len(s) + n /\ ~(Len(s) + i <= Len(s)) /\ Len(s) + i - Len(s) = i
    BY <1>5
  <2> QED BY <2>1, <1>4
<1> QED BY <1>3, <1>5, <1>6, <1>7 DEF IsSeq

\* What a batch leaves of the rows.
LEMMA Dropped ==
  ASSUME NEW S, NEW s \in Seq(S), NEW n \in 0 .. Len(s)
  PROVE  /\ IsSeq(Drop(s, n)) /\ Len(Drop(s, n)) = Len(s) - n /\ Len(s) \in Nat
         /\ \A i \in 1 .. Len(s) - n : Drop(s, n)[i] = s[n + i]
<1>1. Drop(s, n) \in Seq(S) /\ Len(Drop(s, n)) = Len(s) - n BY DEF Drop
<1>2. \A i \in 1 .. Len(s) - n : Drop(s, n)[i] = s[n + i] BY DEF Drop
<1> QED BY <1>1, <1>2 DEF IsSeq

\* A batch goes from the rows left to the end of the data file
\* (ecdh_oprf_psi.cc:46-126, ub_psi_cache.cc:83-121).
LEMMA FullEvaluateKeeps ==
  ASSUME TasksAreTables, CacheInv, FullEvaluate PROVE CacheInv'
<1> DEFINE D == disk.data
           T == mem.todo
           b == IF Batch < Len(T) THEN Batch ELSE Len(T)
           new == [i \in 1 .. b |-> [key |-> task.srv[T[i] + 1].key, mask |-> mem.key,
                                     row |-> T[i], dup |-> task.srv[T[i] + 1].dup]]
<1>1. Fields' BY DEF CacheInv, Fields, FullEvaluate
<1>2. N' = N /\ task' \in Tasks /\ N \in Nat BY DEF CacheInv, FullEvaluate, N, TasksAreTables
<1>3. pc["srv"] = "evaluate" /\ pc'["srv"] = "evaluate" BY DEF FullEvaluate
<1>4. PICK S : D \in Seq(S) BY DEF CacheInv, DataInv, IsSeq
<1>5. PICK R : T \in Seq(R) BY <1>3 DEF CacheInv, TodoInv, IsSeq
<1>6. b \in Nat /\ b <= Len(T) /\ b <= Batch /\ (b < Batch => b = Len(T))
  BY <1>5 DEF TasksAreTables
<1>7. Len(Take(T, Batch)) = b BY <1>5, <1>6 DEF Take, TasksAreTables
<1>8. disk'.data = D \o new /\ disk'.meta = disk.meta
  BY <1>7 DEF FullEvaluate, CacheInv, Fields
<1>9. mem'.todo = Drop(T, Batch) /\ mem'.key = mem.key
  BY DEF FullEvaluate, CacheInv, Fields
<1> DEFINE D1 == D \o new
           T1 == Drop(T, Batch)
<1>10. /\ new = [i \in 1 .. b |-> new[i]]
       /\ \A i \in 1 .. b : new[i].row = T[i] /\ new[i].mask = mem.key
  OBVIOUS
<1> HIDE DEF D, T, b, new
<1>11. /\ IsSeq(D1) /\ Len(D1) = Len(D) + b /\ Len(D) \in Nat
       /\ \A i \in 1 .. Len(D) : D1[i] = D[i]
       /\ \A i \in 1 .. b : D1[Len(D) + i] = new[i]
  BY <1>4, <1>6, <1>10, Joined
<1>12. /\ IsSeq(T1) /\ Len(T1) = Len(T) - b /\ Len(T) \in Nat
       /\ \A i \in 1 .. Len(T1) : T1[i] = T[b + i]
  <2>1. CASE Batch <= Len(T)
    <3>1. b = Batch BY <1>6, <2>1, <1>5 DEF TasksAreTables
    <3> QED BY <3>1, <1>5, <2>1, Dropped DEF TasksAreTables
  <2>2. CASE ~(Batch <= Len(T))
    <3>1. T1 = << >> BY <1>5, <2>2 DEF Drop, TasksAreTables
    <3>2. b = Len(T) BY <1>5, <1>6, <2>2 DEF TasksAreTables
    <3>3. << >> \in Seq({}) OBVIOUS
    <3> QED BY <3>1, <3>2, <3>3, <1>5 DEF IsSeq
  <2> QED BY <2>1, <2>2
<1> HIDE DEF D1, T1
\* What is known of the rows before the step
<1>13. /\ \A i \in 1 .. Len(D) : D[i].row \in 0 .. N - 1 /\ D[i].mask = mem.key
       /\ \A i, j \in 1 .. Len(D) : D[i].row = D[j].row => i = j
  BY <1>3 DEF CacheInv, DataInv, DataRows, NoRepeats, TodoInv, D
<1>14. /\ \A i \in 1 .. Len(T) : T[i] \in 0 .. N - 1
       /\ \A i, j \in 1 .. Len(T) : T[i] = T[j] => i = j
       /\ \A i \in 1 .. Len(D), j \in 1 .. Len(T) : D[i].row # T[j]
       /\ Len(D) + Len(T) = N
  BY <1>3 DEF CacheInv, TodoInv, NoRepeats, D, T
\* A position of the new file is an old one or one of the batch
<1>15. \A k \in 1 .. Len(D1) :
         \/ k \in 1 .. Len(D) /\ D1[k] = D[k]
         \/ /\ k > Len(D) /\ k - Len(D) \in 1 .. b
            /\ D1[k].row = T[k - Len(D)] /\ D1[k].mask = mem.key
  <2> SUFFICES ASSUME NEW k \in 1 .. Len(D1), k \notin 1 .. Len(D)
               PROVE  /\ k > Len(D) /\ k - Len(D) \in 1 .. b
                      /\ D1[k].row = T[k - Len(D)] /\ D1[k].mask = mem.key
    BY <1>11
  <2>1. k > Len(D) /\ k - Len(D) \in 1 .. b BY <1>6, <1>11
  <2>2. D1[Len(D) + (k - Len(D))] = new[k - Len(D)] BY <2>1, <1>11
  <2>3. Len(D) + (k - Len(D)) = k BY <2>1, <1>11
  <2>4. D1[k] = new[k - Len(D)] BY <2>2, <2>3
  <2> QED BY <2>1, <2>4, <1>10
<1>16. \A i \in 1 .. b : i \in 1 .. Len(T) BY <1>6, <1>12
<1>17. \A k \in 1 .. Len(D1) : D1[k].row \in 0 .. N - 1 /\ D1[k].mask = mem.key
  BY <1>13, <1>14, <1>15, <1>16
<1>18. \A k, m \in 1 .. Len(D1) : D1[k].row = D1[m].row => k = m
  <2> SUFFICES ASSUME NEW k \in 1 .. Len(D1), NEW m \in 1 .. Len(D1), D1[k].row = D1[m].row
               PROVE  k = m
    OBVIOUS
  <2>1. CASE k \in 1 .. Len(D) /\ m \in 1 .. Len(D) BY <2>1, <1>13, <1>15, <1>11
  <2>2. CASE k > Len(D) /\ m > Len(D)
    <3>1. k - Len(D) \in 1 .. Len(T) /\ m - Len(D) \in 1 .. Len(T)
      BY <2>2, <1>11, <1>15, <1>16
    <3>2. D1[k].row = T[k - Len(D)] /\ D1[m].row = T[m - Len(D)] BY <2>2, <1>11, <1>15
    <3>3. k - Len(D) = m - Len(D) BY <3>1, <3>2, <1>14
    <3> QED BY <3>3, <1>11
  <2>3. CASE k \in 1 .. Len(D) /\ m > Len(D) BY <2>3, <1>11, <1>14, <1>15, <1>16
  <2>4. CASE k > Len(D) /\ m \in 1 .. Len(D) BY <2>4, <1>11, <1>14, <1>15, <1>16
  <2> QED BY <2>1, <2>2, <2>3, <2>4, <1>15
<1>19. /\ \A i \in 1 .. Len(T1) : b + i \in 1 .. Len(T) /\ T1[i] = T[b + i]
       /\ Len(D1) + Len(T1) = N
  BY <1>6, <1>11, <1>12, <1>14
<1>20. /\ \A i \in 1 .. Len(T1) : T1[i] \in 0 .. N - 1
       /\ \A i, j \in 1 .. Len(T1) : T1[i] = T1[j] => i = j
  BY <1>6, <1>14, <1>19
<1>21. \A k \in 1 .. Len(D1), j \in 1 .. Len(T1) : D1[k].row # T1[j]
  <2> SUFFICES ASSUME NEW k \in 1 .. Len(D1), NEW j \in 1 .. Len(T1) PROVE D1[k].row # T1[j]
    OBVIOUS
  <2>1. CASE k \in 1 .. Len(D)
    <3>1. D1[k] = D[k] BY <2>1, <1>11
    <3>2. b + j \in 1 .. Len(T) /\ T1[j] = T[b + j] BY <1>19
    <3> QED BY <2>1, <3>1, <3>2, <1>14
  <2>2. CASE k > Len(D)
    <3>1. k - Len(D) \in 1 .. b /\ D1[k].row = T[k - Len(D)] BY <2>2, <1>11, <1>15
    <3>2. k - Len(D) # b + j BY <3>1, <1>6
    <3>3. k - Len(D) \in 1 .. Len(T) /\ b + j \in 1 .. Len(T) /\ T1[j] = T[b + j]
      BY <3>1, <1>16, <1>19
    <3> QED BY <3>1, <3>2, <3>3, <1>14
  <2> QED BY <2>1, <2>2, <1>15
<1>22. disk'.data = D1 /\ mem'.todo = T1 BY <1>8, <1>9 DEF D1, T1
<1>23. DataInv'
  <2>1. NoRepeats(DataRows, Len(disk.data))' BY <1>2, <1>17, <1>18, <1>22 DEF NoRepeats, DataRows
  <2> QED BY <2>1, <1>11, <1>17, <1>22 DEF DataInv
<1>24. TodoInv'
  <2>1. NoRepeats(mem.todo, Len(mem.todo))' BY <1>2, <1>20, <1>22 DEF NoRepeats
  <2> QED BY <2>1, <1>2, <1>9, <1>12, <1>17, <1>19, <1>21, <1>22 DEF TodoInv
<1> QED BY <1>1, <1>2, <1>8, <1>23, <1>24 DEF CacheInv

-----------------------------------------------------------------------------
\* The invariant holds whatever step is next.
LEMMA CacheStep ==
  ASSUME TasksAreTables, CacheInv, [Next]_vars PROVE CacheInv'
<1> USE DEF CacheInv
<1>1. CASE \E mode \in Modes : Launch(mode) BY <1>1, LaunchKeeps
<1>2. CASE GenStart BY <1>2, GenStartKeeps
<1>3. CASE FullEvaluate BY <1>3, FullEvaluateKeeps
<1>4. CASE FlushMeta BY <1>4, FlushMetaKeeps
<1>5. CASE Server /\ ~GenStart /\ ~FullEvaluate /\ ~FlushMeta
  BY <1>5, ServerFrame, FrameKeeps DEF Server
<1>6. CASE Client BY <1>6, ClientFrame, FrameKeeps
<1>7. CASE CrashServer BY <1>7, CrashServerKeeps
<1>8. CASE \/ \E p \in {"srv", "cli"} : Barrier(p) \/ TimesOut(p)
           \/ CrashClient \/ Reset \/ UNCHANGED vars
  BY <1>8, OtherFrame, FrameKeeps
<1> QED BY <1>1, <1>2, <1>3, <1>4, <1>5, <1>6, <1>7, <1>8 DEF Next, Terminated

-----------------------------------------------------------------------------
(* Counting rows.                                                            *)

INSTANCE FunctionTheorems
INSTANCE FiniteSetTheorems

\* An injection of 1 .. n into n values has them all: the provider's comparison
\* of two counts (ub_psi_cache.cc:58-62) is enough to know that no row misses.
LEMMA AllRows ==
  ASSUME NEW n \in Nat, NEW f, \A i \in 1 .. n : f[i] \in 0 .. n - 1,
         \A i, j \in 1 .. n : f[i] = f[j] => i = j
  PROVE  {f[i] : i \in 1 .. n} = 0 .. n - 1
<1> DEFINE g == [i \in 1 .. n |-> f[i]]
<1>1. g \in Injection(1 .. n, 0 .. n - 1)
  BY DEF Injection, IsInjective
<1>2. IsFiniteSet(1 .. n) /\ Cardinality(1 .. n) = n
  BY FS_Interval
<1>3. IsFiniteSet(0 .. n - 1) /\ Cardinality(0 .. n - 1) = n
  BY FS_Interval
<1>4. g \in Surjection(1 .. n, 0 .. n - 1)
  BY ONLY <1>1, <1>2, <1>3, FS_Injection
<1>5. \A y \in 0 .. n - 1 : \E i \in 1 .. n : f[i] = y
  BY Zenon, <1>4 DEF Surjection
<1> QED BY <1>5

\* A cache that passes the provider's comparison of counts has every row.
LEMMA AcceptedIsWhole ==
  ASSUME TasksAreTables, CacheInv PROVE CacheWhole
<1> SUFFICES ASSUME CacheAccepted PROVE
      /\ {disk.data[i].row : i \in DOMAIN disk.data} = 0 .. Len(task.srv) - 1
      /\ Len(disk.data) = Len(task.srv)
      /\ \A i, j \in DOMAIN disk.data : disk.data[i].mask = disk.data[j].mask
  BY DEF CacheWhole
<1>1. Len(disk.data) = N /\ N \in Nat
  BY DEF CacheAccepted, CacheInv, TasksAreTables, N
<1>2. DOMAIN disk.data = 1 .. N BY <1>1 DEF CacheInv, DataInv, IsSeq
<1> DEFINE rows == DataRows
<1>3. /\ \A i \in 1 .. N : rows[i] \in 0 .. N - 1
      /\ \A i, j \in 1 .. N : rows[i] = rows[j] => i = j
  BY <1>1 DEF CacheInv, DataInv, NoRepeats
<1>4. \A i \in 1 .. N : rows[i] = disk.data[i].row BY <1>1 DEF DataRows
<1> HIDE DEF rows
<1>5. {rows[i] : i \in 1 .. N} = 0 .. N - 1 BY <1>1, <1>3, AllRows
<1>6. {disk.data[i].row : i \in 1 .. N} = 0 .. N - 1 BY <1>4, <1>5
<1>7. \A i, j \in 1 .. N : disk.data[i].mask = disk.data[j].mask
  BY <1>1 DEF CacheInv, DataInv
<1> QED BY <1>1, <1>2, <1>6, <1>7 DEF N

\* Whatever the tables, the batch size, the window and the number of launches,
\* and whichever generation a crash cuts short, a cache that UbPsiCacheProvider
\* accepts (ub_psi_cache.cc:44-63) holds every row of the server's table once,
\* under one key.
THEOREM CacheAlwaysWhole ==
  ASSUME TasksAreTables PROVE Spec => []CacheWhole
<1>1. Init => CacheInv BY CacheInit
<1>2. CacheInv /\ [Next]_vars => CacheInv' BY CacheStep
<1>3. CacheInv => CacheWhole BY AcceptedIsWhole
<1> QED BY <1>1, <1>2, <1>3, PTL DEF Spec

=============================================================================
