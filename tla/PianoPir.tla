------------------------------ MODULE PianoPir ------------------------------
(* PIANO, single-server PIR with sublinear work per query,                   *)
(* experiment/pir/piano/: the client streams the database once and keeps the *)
(* parities of pseudorandom sets of one entry per chunk; each query uses up  *)
(* a replacement of its chunk and refreshes the set it used from a backup    *)
(* set.  An entry is the set of its index, XOR is symmetric difference.      *)
EXTENDS Integers, Sequences, FiniteSets, FiniteSetsExt, TLC

CONSTANTS
  Tasks   \* [proto |-> "piano", entries: n, total: total_query_num_, backups:
          \*  M2, threads, seed, asks: Seq of the indices that may be asked,
          \*  queries: bound on the queries of a behaviour]

VARIABLES task, pc, net, mem

vars == <<task, pc, net, mem>>

Xor(a, b) == (a \ b) \cup (b \ a)
XorAll(f) == {w \in UNION {f[x] : x \in DOMAIN f} : Cardinality({x \in DOMAIN f : w \in f[x]}) % 2 = 1}
CeilDiv(a, b) == (a + b - 1) \div b

\* GenChunkParams: the least power of two not below 2 sqrt(n), and the chunks
ChunkSize == Min({2 ^ k : k \in {k \in 0 .. 8 : 2 ^ k * 2 ^ k >= 4 * task.entries}})
SetSize == CeilDiv(task.entries, ChunkSize)
Chunks == 0 .. SetSize - 1
Chunk(x) == x \div ChunkSize
Offset(x) == x % ChunkSize

\* Initialize: both numbers of sets are rounded up to the threads
RoundUp(n) == CeilDiv(n, task.threads) * task.threads
PrimarySetNum == RoundUp(task.total)
BackupsPerChunk == RoundUp(task.backups)
Primaries == 0 .. PrimarySetNum - 1
BackupSets == 0 .. BackupsPerChunk * SetSize - 1

\* PRFEvalWithLongKeyAndTag under the key of the behaviour, reduced to a chunk
Prf(tag, c) == ((task.seed * (tag + 3) * (2 * c + 5) + 7 * tag * tag + 11 * c) % 61) % ChunkSize

\* ExpandWithLongKey, MemberTestWithLongKey
Expand(tag) == [c \in Chunks |-> c * ChunkSize + Prf(tag, c)]
MemberTest(tag, x) == Offset(x) = Prf(tag, Chunk(x))

\* The database of the server, padded to whole chunks (AlignDBToChunkBoundary,
\* DBAccess)
DBAccess(x) == IF x < ChunkSize * SetSize THEN {x} ELSE {}

\* InitializeLocalSets: tags count up through the primary and backup sets
Init ==
  /\ task \in Tasks
  /\ pc = "preprocess"
  /\ net = << >>
  /\ mem = [primary |-> [i \in Primaries |-> [tag |-> i, parity |-> {}, point |-> 0, programmed |-> FALSE]],
            backup |-> [j \in BackupSets |-> [tag |-> PrimarySetNum + j, parity |-> {}]],
            used |-> [c \in Chunks |-> [backup |-> 0, replacement |-> 0]],
            replacement |-> [c \in Chunks |-> << >>],
            miss |-> {}, cache |-> << >>, chunk |-> 0, asked |-> 0,
            ctx |-> [index |-> 0, mask |-> FALSE, set |-> 0], answer |-> << >>]

\* The sets from start to end of each thread
Share(num) ==
  LET per == CeilDiv(num, task.threads)
  IN [tid \in 0 .. task.threads - 1 |-> tid * per .. Min({tid * per + per, num}) - 1]
Updates(j, num) == Cardinality({tid \in DOMAIN Share(num) : j \in Share(num)[tid]})

\* The backup sets of a chunk leave it out
Skip(j, c) == j \in c * BackupsPerChunk .. (c + 1) * BackupsPerChunk - 1

\* GetDBChunk and PreprocessDBChunk, whose threads share nothing but hit_map,
\* kept under a lock
PreprocessDBChunk ==
  LET c == mem.chunk
      Update(parity, tag, times) ==
        IF times % 2 = 1 THEN Xor(parity, DBAccess(Expand(tag)[c])) ELSE parity
      hit == {Prf(mem.primary[i].tag, c) : i \in {i \in Primaries : Updates(i, PrimarySetNum) > 0}}
  IN
  /\ pc = "preprocess" /\ c < SetSize
  /\ mem' = [mem EXCEPT
       !.primary = [i \in Primaries |->
          [@[i] EXCEPT !.parity = Update(@, mem.primary[i].tag, Updates(i, PrimarySetNum))]],
       !.backup = [j \in BackupSets |->
          IF Skip(j, c) THEN @[j]
          ELSE [@[j] EXCEPT !.parity = Update(@, mem.backup[j].tag, Updates(j, Cardinality(BackupSets)))]],
       !.miss = @ \cup {c * ChunkSize + o : o \in (0 .. ChunkSize - 1) \ hit},
       !.replacement[c] = [k \in 1 .. BackupsPerChunk |-> c * ChunkSize + Prf(500 + k, c)],
       !.chunk = c + 1]
  /\ pc' = IF c + 1 = SetSize THEN "idle" ELSE pc
  /\ UNCHANGED <<task, net>>

\* The entries a primary set stands for, its programmed point included
Expanded(s) ==
  IF s.programmed THEN [Expand(s.tag) EXCEPT ![Chunk(s.point)] = s.point] ELSE Expand(s.tag)

\* A set programmed in the chunk of x does not have the entry its tag gives
Hits(s, x) == ~(s.programmed /\ Chunk(x) = Chunk(s.point)) /\ MemberTest(s.tag, x)

\* GenerateMaskQuery: a random set, whose parity nobody uses
GenerateMaskQuery == Expand(900)

\* GenerateIndexQuery: what is cached, missed, in no set or in a chunk without
\* replacements is asked with a mask query; only RecoverIndexReply clears the flag
GenerateIndexQuery(x) ==
  LET hits == {i \in Primaries : Hits(mem.primary[i], x)}
      next == mem.used[Chunk(x)].replacement
      cached == x \in DOMAIN mem.cache
      mask == cached \/ hits = {} \/ next = BackupsPerChunk
  IN
  /\ pc = "idle" /\ mem.asked < task.queries
  /\ mem' = [mem EXCEPT
       !.ctx = [index |-> x, mask |-> mask \/ @.mask, set |-> IF mask THEN @.set ELSE Min(hits)],
       !.cache = IF ~cached /\ hits = {} /\ x \in mem.miss THEN (x :> DBAccess(x)) @@ @ ELSE @,
       !.asked = @ + 1]
  /\ net' = << IF mask THEN GenerateMaskQuery
               ELSE [Expanded(mem.primary[Min(hits)]) EXCEPT
                       ![Chunk(x)] = mem.replacement[Chunk(x)][next + 1]] >>
  /\ pc' = "asked"
  /\ UNCHANGED task

\* GenerateIndexReply: the parity of the entries asked for
GenerateIndexReply ==
  /\ pc = "asked"
  /\ net' = << XorAll([c \in Chunks |-> DBAccess(Head(net)[c])]) >>
  /\ pc' = "answered"
  /\ UNCHANGED <<task, mem>>

\* the refreshed set keeps the parity of its backup set
RefreshAsIs(s, b, x, val) == [tag |-> b.tag, parity |-> b.parity, point |-> x, programmed |-> TRUE]

\* The backup set takes the place of the set used, x being its entry in the
\* chunk that the backup set left out
Refresh(s, b, x, val) ==
  [tag |-> b.tag, parity |-> Xor(val, b.parity), point |-> x, programmed |-> TRUE]

\* RecoverIndexReply of a mask query, and of any other
RecoverMask ==
  LET x == mem.ctx.index IN
  /\ pc = "answered" /\ mem.ctx.mask
  /\ mem' = [mem EXCEPT !.ctx.mask = FALSE,
                        !.answer = [of |-> x, is |-> IF x \in DOMAIN mem.cache THEN mem.cache[x] ELSE {}]]
  /\ pc' = "idle" /\ net' = << >> /\ UNCHANGED task

RecoverIndexReply ==
  LET x == mem.ctx.index
      c == Chunk(x)
      s == mem.primary[mem.ctx.set]
      next == mem.used[c]
      val == Xor(Xor(s.parity, Head(net)), DBAccess(mem.replacement[c][next.replacement + 1]))
      left == next.backup # BackupsPerChunk
  IN
  /\ pc = "answered" /\ ~mem.ctx.mask
  /\ mem' = [mem EXCEPT
       !.cache = (x :> val) @@ @,
       !.used[c] = [replacement |-> next.replacement + 1,
                    backup |-> IF left THEN next.backup + 1 ELSE next.backup],
       !.primary[mem.ctx.set] =
          IF left THEN Refresh(s, mem.backup[c * BackupsPerChunk + next.backup], x, val) ELSE s,
       !.answer = [of |-> x, is |-> val]]
  /\ pc' = "idle" /\ net' = << >> /\ UNCHANGED task

Terminated == pc = "idle" /\ mem.asked = task.queries /\ UNCHANGED vars

Next ==
  \/ PreprocessDBChunk \/ GenerateIndexReply \/ RecoverMask \/ RecoverIndexReply
  \/ \E x \in task.asks : GenerateIndexQuery(x)
  \/ Terminated

Spec == Init /\ [][Next]_vars

-----------------------------------------------------------------------------
(* Whatever was asked before, the client (client.cc:201-314) returns the     *)
(* entry it asks for; it returns the zero entry instead only while no set it *)
(* holds has the index, or when the replacements of its chunk are used up,   *)
(* and never for an index it has had an answer for.  For this the parity of  *)
(* every set, refreshed or not, is that of its entries, and the backup sets  *)
(* last as long as the replacements (client.cc:294 is never reached empty).  *)
PianoExact ==
  pc = "idle" =>
    /\ \A i \in Primaries :
         mem.primary[i].parity = {Expanded(mem.primary[i])[c] : c \in Chunks}
    /\ \A c \in Chunks : mem.used[c].backup = mem.used[c].replacement
    /\ \A x \in DOMAIN mem.cache : mem.cache[x] = {x}
    /\ LET a == mem.answer IN
       a # << >> => \/ a.is = {a.of}
                    \/ /\ a.is = {} /\ a.of \notin DOMAIN mem.cache
                       /\ \/ \A i \in Primaries : a.of # Expanded(mem.primary[i])[Chunk(a.of)]
                          \/ mem.used[Chunk(a.of)].replacement = BackupsPerChunk
=============================================================================
