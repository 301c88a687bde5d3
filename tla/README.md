# A TLA+ model of SecretFlow PSI

This directory holds TLA+ modules that model parts of the PSI library in
`src/psi`, TLC configurations that check them on small instances, and theorems
about them that TLAPS checks for every value of the constants. The experimental
protocols in `src/experiment` are included.

Contents: [the system](#the-system), [modules](#modules),
[runs](#runs), [proofs](#proofs), [findings](#findings),
[what is not modelled](#what-is-not-modelled).

## The system

Two (sometimes three or more) parties compute the intersection of their key
columns. A task goes through the same stages whatever the protocol
(`psi/interface.h`, `AbstractPsiParty::Run`): Init, PreProcess, a barrier,
Online, PostProcess, Finalize. The parts, what they keep and how they interact:

| part | source | state | operations |
|---|---|---|---|
| stage synchronisation | `utils/sync.h` | a future, a flag, AllGather rounds | SyncWait |
| party life cycle | `interface.{h,cc}` | stage, task directory, index writer | Init, Run, Finalize |
| ECDH-PSI | `algorithm/ecdh/` | three threads per party, two links, two stores | MaskSelf, MaskPeer, RecvDualMaskedSelf, RunEcdhPsi |
| recovery | `checkpoint/` | checkpoint in memory and on disk, key file | Mark*, Update*, SaveCheckpointFile |
| stores | `utils/ec_point_store`, `hash_bucket_cache`, `multiplex_disk_cache` | bins on disk, buffers, item index | Save, Flush, FinalizeAndComputeIndices |
| results | `utils/index_store`, `table_utils`, `join_processor` | index file, key info, result file | WriteCache, Commit, DealResultIndex, GenerateResult |
| KKRT, RR22 | `algorithm/kkrt`, `algorithm/rr22`, `utils/bucket` | bucket stores, parsed-bucket count, pipeline queues | Online per bucket, AsyncRun |
| unbalanced PSI | `algorithm/ecdh/ub_psi` | cache files, client store, keys | offline generation and transfer, online |
| PIR | `algorithm/{dkpir,sealpir,spiral,pir_interface}`, `wrapper/apsi` | databases, sessions | query and answer |
| other PSI | `algorithm/nty`, `ecdh_3pc_psi`, `legacy/`, `experiment/psi` | per protocol | per protocol |
| utilities | `utils/` | batches, cuckoo tables, progress, resources | providers, inserts, updates |
| launcher, config, cryptor, proto | `apps/`, `config/`, `cryptor/`, `proto/` | none of interest here | conversion, arithmetic |

What makes the system hard to test, and where the properties come from:

- Three threads at each of two parties exchange batches over two links that
  share a throttle window; both parties must finish whatever the schedule.
- Two of the threads write to stores and save their progress into one
  checkpoint file, concurrently; the process may die between any two steps.
- A restarted task decides where to go on from counts that two processes saved
  at different moments, and appends to the files of the earlier run.
- An exception at one party is not announced to the other.
- The bucket protocols pass buckets through three threads and two queues at each
  party, over links whose messages carry no bucket number.
- Items are shuffled, batched, cached and truncated on their way, and positions
  have to come back through all of it.
- Servers build files in several steps, launches or processes, and a later
  launch takes what it finds.
- PIR clients keep hints that every query changes.

`PROJECT.json` lists every component with its status, and every hazard with the
line where it bites and the properties that would catch it.

## Modules

### Rendezvous and SyncWait

`SyncWait` models `psi/utils/sync.h:41-91` for any set of ranks. `fut[r]` is the
future of the caller's function, `done[r]` the local flag, `pc[r]` the place in
the polling loop and `sent[r]` the flags given to AllGather, one per round.
`FuncReturns` and `FuncThrows` are the function's thread; `PollReady`,
`PollThrows`, `PollTimeout` and `Repeat` are one turn of the loop up to the
AllGather, `Gather` is the AllGather's return and the test for the unfinished
flag. AllGather is external: it returns the flags of the round once all have
arrived. `GatherTimeout` is the link's receive timeout, which fires when a peer
has left without posting this round.

`Rendezvous` is what the callers rely on: no rank gets past the call before the
function has returned at every rank. `SyncWait` implements it with
`finished` = the ranks whose future is ready and `returned` = the ranks that
have returned.

### EcdhPsi

The two-party ECDH protocol with recovery. Parties are 0 (receiver) and 1
(sender); they differ only in `Targets`, the parties that may touch the result
(`target_rank`).

An item is its position in its owner's list of unique keys. A cipher is an item
with the generations of the two keys it is masked with: masking is commutative
and injective, which is all the protocol uses of the curve. A key generation is
the number of the run that drew the key.

| variable | code |
|---|---|
| `pc` | the main thread's place in `Run` and the stage functions |
| `ckpt`, `file`, `saving`, `image` | `RecoveryManager::checkpoint_`, `checkpoint.json`, the threads inside `SaveCheckpointFile`, the JSON text of the mutex holder |
| `key`, `keyFile` | the cryptor's private key, the `private_key` file |
| `record` | what a party gave to the AllGather of `MarkOnlineStart` |
| `start`, `pos` | `processed_item_cnt`, the batch provider's position |
| `th` | the three threads of `RunEcdhPsi` |
| `main`, `dual`, `mainRecv`, `dualRecv`, `hold` | batches sent and received on `main_link_ctx_` and `dual_mask_link_ctx_`; the send a throttled thread waits for |
| `self`, `peer`, `selfBuf`, `peerBuf`, `selfIdx`, `peerIdx` | files, unflushed lines and `item_index_` of the two stores |
| `out` | the intersection index file |

Main thread: `InitEnd`, `PreProcess`, `OnlineStart`, `OnlineGather`, `Join`,
`OnlineEnd`, `PostProcess`, `PostEnd`, `FinalizeWrite`, `FinalizeThrows`,
`Finalize`. MaskSelf thread: `MaskSelf`, one batch per step. MaskPeer thread:
`MaskPeerRecv`, `MaskPeerFlush`, `MaskPeerDual`. RecvDualMaskedSelf thread:
`RecvDualMaskedSelf`, `RecvDualMaskedFlush`, `RecvDualMaskedNext`. Saving a
checkpoint is two steps, `SaveOpen` (lock, serialise, truncate) and `SaveWrite`.
`Crash`, `Abort` and `Restart` are the failures.

Modelling decisions:

- A place where the parties wait for each other (the barrier, the AllGather of
  `MarkOnlineStart`, SyncWait) is a guard on the peer's place. That SyncWait is
  such a rendezvous is what `SyncWait` shows.
- The configuration exchanges (`CheckPeerConfig`, `CheckConfig`) and the
  shortcut for equal inputs are left out: a task whose configurations disagree
  never starts, and the shortcut skips the protocol.
- Flushing a store and setting the count in memory are one step: nothing
  outside the thread can see the files between the two, and a crash between
  them leaves the same files and the same checkpoint file as one before the
  next save. The two counts are set outside the mutex by different threads;
  each set is taken as atomic.
- A crash is the death of a process, not of the machine: flushed lines survive.
  Of the unflushed lines any subset survives, since every bin has its own
  buffer. Lines are whole; a torn line is listed as a hazard.
- The task is restarted at both parties, as a link between a running and a
  restarted party cannot be set up again. `Abort` is the timeout of a party whose
  peer is down; it may come whenever its threads are neither flushing a store nor
  saving a checkpoint. The destructors of the stores then flush.
- Bins are merged: equal ciphers are in the same bin, and the order of lines in
  a bin is the order of writing, which the line's `run` and `idx` give. `run` in
  a line is bookkeeping of the model, not part of the file.
- Throttling is external (yacl): a throttled send returns when all but `Window`
  of the sends so far have been consumed. Both contexts share the window.

### BucketPsi

KKRT and RR22 with recovery, for a receiver (rank 0) and a sender. A bucket is
given by the keys in it; a key's bucket is its hash, here the key modulo the
number of buckets, which the parties negotiate from the sizes of their lists.

| variable | code |
|---|---|
| `pc`, `idx` | the main thread's place and its bucket |
| `th` | the prepare, run and intersection threads of `AsyncRun`, each with its bucket's runner |
| `prepared`, `oprf` | `prepared_runner_queue` (bounded by `cache_size`), `oprf_runner_queue` |
| `link`, `got` | messages sent on the contexts main, `read`, `run` and `intersection`, and how many of them the peer has received |
| `res` | what the KKRT exchange of a bucket yielded |
| `lines`, `ckpt` | the committed index file, the checkpoint with the parsed-bucket count |

Main thread: `InitEnd`, `Close`, `PreProcess`, `OnlineStart`, `OnlineGather`, the KKRT
loop (`KkrtSize` ... `KkrtNext`), `Join`, `OnlineSync`, `PostProcess`,
`FinalizeWrite`/`FinalizeThrows`, `FinalizeSync`. `Prep`, `RunTh` and `Inter`
are the threads of RR22. Failures: `Crash`, `Abort` (a receive times out),
`ThreadThrows` and `AsyncRunThrows` (a thread's receive times out; the exception
leaves only when the other threads have ended), `KkrtSpins`, `Kill`, `Restart`.
Messages carry the bucket they are about as bookkeeping, so that `SameBucket`
can be stated; the code's messages do not. The oblivious transfer and the VOLE
are external: an exchange tells the receiver which of its items the sender has.

If the digests of the inputs agree, Init writes every line to the index writer
and the protocol is skipped, in a block that `interface.cc:119` marks as broken.
Init commits once, when the number of lines written reaches `IndexCache`; the
other lines are in the file only when Finalize has closed the writer, which is
the action `Close`. A crash between the two leaves them out, and the next start
writes all lines again after those that are there. The digest is idealised here,
as one that agrees for equal lists only; `JoinPsi` has the digest of the code.

### UbPsi

Unbalanced PSI as separate launches of the modes GEN, TRANSFER, OFFLINE, ONLINE
and FULL over files that stay (`disk`: the server's cache rows and meta file, the
client's copy and its meta file). An item under the server's key s is
`[key, mask |-> s]`. `GenStart`, `FullEvaluate` (a batch),
`FlushMeta` and `FlushData` generate the cache; the actions of the transfer and
of the online stage are named for the functions of `ecdh_oprf_psi.cc`.
`CrashServer` and `CrashClient` end a process anywhere, `TimesOut` follows at its
peer, whose store flushes in its destructor.
The threshold variant in `experiment/psi/threshold_ub_psi` is a task with
`threshold > 0`.

### Multi-party and threshold protocols

- `ThreePcPsi`: every thread and link of the three-party ECDH-PSI; an item is its
  key and the set of parties that masked it.
- `NtyPsi`, `KmprtPsi`: a word is a set of independent summands and XOR is
  symmetric difference, so a sum vanishes exactly if every summand occurs twice.
- `NpartyPsi`: the tree of two-party runs and how the parties drop out of it.
  In `KmprtPsi` a hash table may fail, a thread's exception is held until the
  others have ended, and an exchange with a party that failed times out. The
  items of a party are distinct; the repeated choice of a nonce until the OPPRF's
  table separates the items is one step.
- `ThresholdPsi`: threads of both roles, the shuffle cache, the restoring of
  places after the threshold has cut the list, the shortcut for equal digests,
  and restarts on stores and checkpoints. The masks are left out, because the
  keys over restarts are the subject of `EcdhPsi`, and saving a checkpoint or a
  batch of a store is one step.

### JoinPsi

From CSV file to result file at both parties: `MultiKeySort`, `KeyInfo::Make`
with its batches and the asynchronous write, the meta file that lets a second
run skip this, the digest check, and the result of each join type. A cell is a
sequence of characters, because the digest is about their concatenation. The
protocol in between is external.

### Rr22Oprf

The OPRF with the Paxos OKVS: hashing into bins by threads with their barrier,
triangulation, gap columns, backfill, the block and the single decoder, in both
modes and with the malicious variant's correction. A 128-bit word is a formal
sum of independent terms over GF(4), so that equal words stand for words that
are equal whatever the random values are. Two writes outside of a vector are
part of the model: `MatrixGf128Inv` (`okvs/paxos.cc:33-36`) has room for a gap of
one row, and a bin that fills up inside a block of items is written past its end
(`okvs/baxos.cc:302-317`). Both lead to any outcome.

### Private information retrieval

- `ApsiPsi`: the sender's forked processes that write group files, crashes
  between the files, the dispatcher, streamed and unstreamed queries, the
  receiver's workers, and the library interface in `wrapper/apsi/api`. A sender
  that dies while it serves queries is not modelled.
- `DkPir`: three files per generation with crashes between them, the shuffled
  OPRF answers and the encrypted count that guards the shuffle.
- `SealPir`, `Spiral`: the computation itself on small parameters. In `SealPir` a
  ciphertext is what it encrypts and a query a polynomial modulo x^N + 1; the
  sides of the database come from the floating-point root of the code. In
  `Spiral` all of it, transforms, gadgets, expansion, folding, packing and
  switching of moduli, is carried out with the noise set to 0; a database is
  refused if a plaintext coefficient is not a byte.
- `PianoPir`, `PpsPir`, `SimplePir`: the clients' hints over sequences of queries.
  A database entry is the set of its index, so a parity shows which entries are
  in it. Pseudorandom functions are tables given with the task. `SimplePir`
  keeps the width of words, as q^2: that is the relation of the modulus 2^32 of
  the tests to the 64-bit words. For another q the client's subtraction modulo
  the word is not one modulo q, and the model does not speak of it.

`MCProtocols` runs all of these: the modules share the variables `task`, `pc`,
`net`, `mem` and `disk`, and `task.proto` selects the module of a behaviour. The
two exceptions are `BucketPsi` and `EcdhPsi`, which have runs of their own.

## Runs

| run | instance | checks | distinct states |
|---|---|---|---|
| `sync_wait` | three ranks, at most three unfinished rounds each | `RoundsInv`, `SameRound`, `FailStop`, `ImplementsRendezvous`, `AgreedOutcome` | 14,043 |
| `ecdh_live` | 3 and 3 items, batches of 2, window 1, both targets, recovery, no crash | `ResultExact`, `Completes` | 166,773 |
| `ecdh_fresh` | 3 and 2 items, both targets, no recovery, one crash | `ResultExact`, `Completes` | 109,152 |
| `ecdh_crash` | 1 and 3 items, batches of 2, receiver only, recovery, two crashes | `TypeOK`, `LinkInv`, `StoreInv`, `ResumeSafe`, `StoreComplete`, `KeysConsistent`, `KeptDupCorrect`, `SameDecision` | 750,392 |
| `ecdh_result_after_crash` | 3 and 2 items, receiver only, recovery, one crash | `ResultExact`, violated |  |
| `ecdh_resume_torn_file` | 3 and 1 items, receiver only, recovery, one crash | `Resumable`, violated |  |
| `bucket_crash` | seven pairs of lists, one to three buckets, both protocols, with and without broadcast and recovery, one crash | `CountBacked`, `SameBucket`, `ResultExact`, `Completes` | 330,332 |
| `peer_loss` | three buckets, recovery, one crash | `PeerLossNoticed`, violated | |
| `protocols` | the tasks of `MCProtocols` | the fourteen properties below | 631,899 |
| `threshold_result` | equal inputs, a broadcast result with counts, a restart after the first batch | `ThresholdResult`, violated | |
| `rr22_lowcomm` | an item decoded alone at one party, in a block at the other | `Rr22Exact`, violated | |
| `join_rows` | three inner joins with alignment | `JoinIsSql`, violated | |

What the properties say:

- `SameRound`, `FailStop`, `AgreedOutcome`: ranks leave SyncWait together; a
  failure at one keeps all from returning; in the end all return or all throw.
- `ResumeSafe`: a resumed run leaves out only items that every store that needs
  them has on disk.
- `StoreComplete`: the intersection is computed from complete stores, also when
  Online is skipped.
- `KeysConsistent`: all lines of all runs are masked with the keys in use.
- `KeptDupCorrect`: the line that the join keeps has the item's own count of
  duplicates, although a run that resumes inside a batch sends shifted counts.
- `SameDecision`: both parties skip Online or both run it.
- `ResultExact`: a finished task reports each common key once, at the right
  position, with the peer's count of duplicates.
- `Completes`: the task ends in every fair schedule.
- `CountBacked`: a saved count of buckets never runs ahead of the index files of
  either party. `SameBucket`: what a thread receives is about the bucket it works
  on. `ResultExact` and `Completes` are as for ECDH, for the bucket protocols.
- `PeerLossNoticed`: a party whose peer is gone ends.
- `OnlineExact`: with a completely received copy of a completely generated cache,
  the online stage gives exactly the rows of the intersection, or as many as the
  threshold allows. `CacheWhole`: a cache that is accepted has every row once,
  under one key, whatever cut an earlier generation short.
- `ThreePcExact`, `NtyExact`, `NpartyExact`: who is to have the result has exactly
  the intersection, in every interleaving.
- `KmprtExact`: so has the leader, if nothing failed. A party fails only if a
  hash table could not be filled or there are more parties than items; in the
  second case the code also writes outside of a vector, and nothing is claimed
  of what it spoils.
- `ThresholdExact`: a task has at most as many rows as the threshold allows and,
  if no restart went through Online with stored items, exactly as many, all of
  the intersection and the same keys at both parties. It excludes equal digests,
  resumed runs and the counts in the sender's rows; `ThresholdResult`, which has
  them, is violated.
- `JoinExact`: each file has each row as often as the join type asks, in an order
  on which the files agree; `JoinIsSql`: the files side by side are SQL's join.
- `Rr22Exact`: the parties' OPRF values agree exactly for the common items, and
  an encoding is given up only if its rows are dependent or a bin is too full.
  Where the code writes outside of a vector (a gap of two or more rows in fast
  mode, a bin that overflows inside a block) nothing is claimed.
- `ApsiExact`: a result that the receiver has written holds rows it asked for and
  nothing else, wherever the sender was killed while building. It is complete but
  for the keys of a group whose files the crash left torn: those may be missing
  without an error. Other failures have a listed reason.
- `DkpirExact`: the receiver's file holds what it asked for and nothing else,
  wherever the sender was killed; failures have a listed reason.
- `SealPirExact`: the decoded row is the row asked for, unless the server refuses
  the database, which it does exactly for cubes of 4^3 and more plaintexts in
  three dimensions. `SpiralExact`: likewise, unless a plaintext coefficient is not
  a byte.
- `HintPirExact`: an answered query of any sequence yields the entry asked for,
  because the hints stay what the client's sets say they are. Of a query without
  an answer it says nothing, and for SimplePIR it holds for words of q^2.
- `LinkInv`, `StoreInv`, `RoundsInv`: the inductive invariants of the proofs.

Bounds. Three items in batches of two give a full batch, a partial batch and
the empty one, and a resume position inside a batch, which takes two crashes to
reach. The window of one is the tightest for which throttling is not a
rendezvous; a larger one blocks less. `MaxCrash` bounds crashes and restarts,
`MaxRounds` the rounds in which a rank says it is unfinished. Three batches from
each party, the empty one included, are what two throttled MaskPeer threads would
need to block each other; with lists of 3 and 1 items that deadlock is out of
reach. Key 3 and key 5 are common to both lists, at different positions and with
different duplicate counts, so a wrong index or a wrong count shows. In `ecdh_crash`
the receiver's only key is the common key 5.

`ecdh_crash` has one target. With two, `StoreInv`, `ResumeSafe`, `StoreComplete`,
`KeysConsistent` and `SameDecision` follow from the theorems, which hold for every
`Targets`; `ecdh_live` and `ecdh_fresh` have two.

`bucket_crash` has buckets of one item and an index cache of two entries, which
equal lists of one, two and three lines leave partly filled, fill, and exceed.
Three buckets are the fewest with which both queues of `AsyncRun` hold something
while a third bucket is prepared, and the lists put an empty bucket first, last
or everywhere at one party. In `protocols`, tasks are chosen for the cases of
the code, and `MCProtocols` says at each set what it is there for: full, partial
and empty batches; two launches of UB-PSI, so that a stage is cut or repeated;
trees of up to five parties; each join type with unique and repeated keys; PIR
databases with several rows to a plaintext, one, and one row over several. Of
the 631,899 states UB-PSI has 463,135, ThreePcPsi 48,085, ApsiPsi 33,638, the
experimental PIR schemes together 29,417, ThresholdPsi 26,560, NpartyPsi 20,560,
and the others fewer than 4,000 each. The tasks of `Rr22Tasks` in low_comm_mode
are those where the two decoders agree; the others are the subject of
`rr22_lowcomm`. `JoinTasks` are within what `JoinExact` claims; `join_rows` has
the three joins that are not SQL's.

Fairness. Weak fairness of each thread's steps: a thread of a live process is
scheduled, and a message that was sent arrives, which the links retry for.
SyncWait in addition needs the function to end, by returning or throwing. `Abort` is
weakly fair because receives have a timeout, `Restart` because the liveness
claim is about a task that is started again. `Crash` is not fair. In `BucketPsi`
(`FairSpec`) each thread is weakly fair for the same reason, and so are the
timeouts; nobody is obliged to kill or restart a process, so
`Completes` there is about tasks in which nothing crashes, and `PeerLossNoticed`
is refuted in schedules where every thread that can step does. `protocols`
checks safety and absence of deadlock: a behaviour can stop only where its
module says the parties have ended.

Every property of a passing run is violated by some small change of a modelled
definition; these variants stand next to the definitions they vary
(`GatherAny`, `JoinTwo`, `ResumeOwn`, `AllHashedNoWait`, `CacheAcceptedUnchecked`, ...).

## Proofs

TLAPS proves, for every set of ranks, for every value of the constants that
satisfies `ConstAssumption`, `UniqueKeys`, `BucketAssumption` and
`MaxRoundsAssumption`, and for all tasks of UbPsi:

| theorem | module | says |
|---|---|---|
| `RoundsInvariant`, `TypeCorrect` | `SyncWaitProofs` | `Spec => []RoundsInv`, `[]TypeOK` |
| `LeaveInSameRound`, `ThrowStopsAll` | `SyncWaitProofs` | `[]SameRound`, `[]FailStop` |
| `SyncWaitRefines` | `SyncWaitProofs` | SyncWait implements Rendezvous |
| `LinkInvariant`, `TypeCorrect` | `EcdhPsiProofs` | `[]LinkInv`, `[]TypeOK` |
| `StoreInvariant` | `EcdhPsiProofs` | `[]StoreInv` |
| `ResumesSafely`, `StoresComplete` | `EcdhPsiProofs` | `[]ResumeSafe`, `[]StoreComplete` |
| `DecidedAlike` | `EcdhPsiProofs` | `[]SameDecision` |
| `KeyInvariant`, `KeysStayConsistent` | `EcdhPsiProofs` | `[]KeyInv`, `[]KeysConsistent` |
| `DupInvariant`, `KeptDupRight` | `EcdhPsiResultProofs` | `[]DupInv`, `[]KeptDupCorrect` |
| `FreshInvariant`, `ResultsExact` | `EcdhPsiResultProofs` | `[]FreshInv`, `[]ResultExact` of EcdhPsi, if the task never resumes (`Fresh`) |
| `BucketInvariant` | `BucketPsiResultProofs` | `[]BucketInv` |
| `MeetsAtBucket`, `CountsAreBacked` | `BucketPsiResultProofs` | `[]SameBucket`, `[]CountBacked` |
| `WritesIntersection` | `BucketPsiResultProofs` | `[]ResultExact` of BucketPsi |
| `CacheAlwaysWhole` | `UbPsiProofs` | `Spec => []CacheWhole` of UbPsi |

SyncWait. `SameRound` is not inductive: it needs to know why nobody can be
ahead. `RoundsInv` says that whoever went beyond round k did so because somebody
posted "unfinished" in round k, and that whoever returned saw no such flag in
its last round. The two contradict each other for a rank ahead of a returned
one.

EcdhPsi. `StoreComplete` speaks of the end; the invariant has two layers that
say how it comes about. `LinkInv` is about one run: batches follow each other
from `processed_item_cnt` to the end of the list without a gap, batch k on the
dual-mask link answers batch k on the main link, a finished thread has seen the
empty batch, and no count exceeds its list. `StoreInv` is about all runs: every
count in a checkpoint, in its file, in the text being written, in the record
for the peer and in `processed_item_cnt` is covered by lines in the files of
the store it counts, and what was received since is in the files or in the
buffer. A restart keeps the files and takes its counts from there, so coverage
from the list's beginning to `processed_item_cnt` joins coverage by the batches
of the new run.

Three more layers lead to the result. `DecisionInv` ties a party's place to the
two records of `OnlineGather`: they are fixed once a party has both, so the
peers skip Online alike. `KeyInv` says that as soon as anything is masked, on a
link, in a buffer or in a file, both parties are settled: every checkpoint that
a restart could load has passed PRE_PROCESS_END, and so the key is read back and
never drawn again. What makes it inductive is the order of saving and telling:
nobody masks before both have saved their key, because of the barrier
`psi_pre_process` (`interface.h:52`). `DupInv` is about a run that resumes
inside a batch of the provider: it pairs the rest of that batch with the counts
of duplicates of the batch's first items. Such a line is wrong, but every count
of peer items that a restart may use ends a batch or falls short of what is
stored (`CountsRounded`), so the files of an older run already have a right line
of the same item, and the join keeps the first. That the first exists is the one
induction over numbers, lemma `LeastNat`, taken from the library's theorem on
minimal elements (`WFMin`). `FreshInv` holds of a task without recovery or
without crashes: every list is sent from its first item on, so the index of a
stored line is its item's position; together with the other layers the join is
the intersection (`JoinedExact`). `ResultsExact` assumes `Fresh` because without
it the statement is false: the finding `ecdh_result_after_crash`.

BucketPsi. The messages carry no tag in the code, so that a party takes the
right message for the right bucket has to follow from where both parties are.
`BucketInv` is the conjunction of `TypeOK` and three invariants. `MainInv` says
what the sequence of messages on the main context is, as a relation between each
message and the next (`Script`, `Then`), and for a party that still works, which
message it reads and sends next (`ReadsInStep`, `SendsInStep`), what its place
says about its bucket (`PlaceRight`) and what result it holds. `PipeInv` does
the same for the three contexts of `AsyncRun`: each context has its own
succession of buckets, which skips the empty ones where a thread does not talk
about them (`Chain`, `Due`), and the queues hold the buckets between two threads
in order (`Queued`). `FileInv` says that the lines of an index file are matches,
that every bucket below a saved count, below the current bucket or already
posted by the intersection thread has all its lines there, and that nothing is
saved without recovery. For equal inputs it says which lines Init has committed
and that `Close` adds the rest (`EqualWritten`, `FileClose`). A restart empties
links, threads and queues and keeps files and checkpoints; both parties then
start at the smaller of the two told counts, whose buckets `CountBacked`
accounts for. The steps are proved from `Counted`, what the code concludes from
sizes: a size of zero means an empty bucket, and a result as large as the bucket
has every item of it. Lemma `Sizes` derives it from the finiteness and the
unique keys of the lists. `BucketPsiProofs` has types and common facts,
`BucketPsiMainProofs` the main threads and the index files,
`BucketPsiPipeProofs` the threads of `AsyncRun`; each of the last two extends
the first, and `BucketPsiResultProofs` joins them. TLC checked each inductive
invariant on the small instances before it was proved.

UbPsi. `CacheAlwaysWhole` assumes only `TasksAreTables`: the batch size and the
lengths of the server's tables are natural numbers. The provider compares two
counts and nothing else, and the meta file may be older than the data, so the
theorem is not about the comparison alone. The inductive invariant `CacheInv`
says that at all times the rows in the data file are different rows of the table
under one key; while a generation runs, the rows still to come are exactly those
not in the file; and a meta file that exists counts the whole table. As many
different rows as the table has are all of its rows, which is lemma `AllRows`
(an injection of 1..n into n values is onto). Each action either leaves the
files alone (`FrameKeeps`) or is one of generation's steps (`GenStartKeeps`,
`FullEvaluateKeeps`, `FlushMetaKeeps`, `CrashServerKeeps`). The run `protocols`
checks the same formula through `MCProtocols`'s instance of `UbPsi`.

Only model-checked: the liveness properties (`Completes`, `AgreedOutcome`),
which are beyond the prover, and the other properties of `protocols`, most of
whose modules compute with recursive definitions over data, about which the
prover has no induction.

## Findings

- `ecdh_result_after_crash`. `HashBucketCache` numbers items from zero in every
  process (`utils/hash_bucket_cache.cc:32`) while a recovery folder's bins are
  appended to (`utils/multiplex_disk_cache.cc:76`). After a resume at position c
  the item at c is stored as number 0. The task reports wrong positions, or
  Finalize stops it with "duplicated read_cnt in result". `docs/user_guide/faq.rst:90`:
  "If a PSI task fails, just restart the task with the same config, the progress
  will resume."
- `ecdh_resume_torn_file`. `SaveCheckpointFile` truncates `checkpoint.json`
  before writing it (`checkpoint/recovery.cc:93-96`). A crash in between leaves a
  file that the constructor of `RecoveryManager` cannot load, at every later
  start.
- `peer_loss`. A party whose peer is gone may never end. The sender of KKRT spins
  on a counter that its failed receiving thread no longer moves
  (`kkrt/kkrt_psi.cc:221`); in `AsyncRun`, the exception of one thread is held up by
  the destructors of the other futures, whose threads wait on condition variables
  without a timeout (`rr22/rr22_psi.h:245`). `docs/reference/launch_config.md:189`
  says the party raises an exception.
- `threshold_result`, three instances; `tlc -continue` shows all of them. Equal
  inputs: the shortcut of Init writes every line, whatever the threshold
  (`interface.cc:117` against `proto/psi_v2.proto:387-388`). A broadcast result: the
  cache pairs an item's place with the count of the item that was in its place
  before the shuffle, and the sender's rows get these counts
  (`threshold_ecdh_psi.cc:105` against `sender.cc:144-145`). A restart: the sender
  truncates its cache (`threshold_ecdh_psi_cache.cc:97`), but the items that the
  receiver's checkpoint counts as done are not sent again, so their indices are
  restored to wrong places (`docs/user_guide/faq.rst:90`).
- `rr22_lowcomm`. With binary dense columns, the block decoder reads the high half
  of the dense word (`rr22/okvs/paxos.cc:2185`); the single decoder and the encoder
  read the low half. What the parties decode are the vectors of the VOLE, whose
  dense cells are random; so the same item has two values, depending on its place
  in the list, whether the encoding had gap rows or not (the trace has a single
  receiver item and no gap). `rr22_oprf_test.cc:122` expects one value.
- `join_rows`, three instances. A key repeated at both parties: the files side by
  side pair the rows wrongly (`utils/table_utils.cc:478` against
  `proto/psi_v2.proto:197-219`). Unique keys that are not the first column: the files
  are sorted by all columns in file order, so they are not aligned
  (`utils/join_processor.cc:274` against `psi_v2.proto:344`). Key lists with the same
  concatenation: their digests are equal and the protocol is skipped
  (`utils/table_utils.cc:310` against `interface.cc:95`).

## What is not modelled

Cryptography is used only through what the protocols need of it: curve
arithmetic, oblivious transfer, VOLE, SEAL, the APSI library and pseudorandom
functions are external, and the noise of lattice schemes is 0 (a bounded set of
errors in SimplePIR). Formatting, CSV parsing, logging, serialisation of
messages and generated code are left out. Of the code that has a state or an
algorithm, these parts are not modelled:

- Code that repeats modelled code for other words or instructions: the U64
  OKVS, the AVX2 versions of Paxos and Spiral, the zmq channel of APSI, and
  `group_bucket_db.cc`, which nothing refers to.
- Differentially private PSI, whose claims are about probabilities.
- The launcher, configuration conversion and the legacy front ends
  (`legacy/memory_psi`, `bucket_psi`), which choose a protocol and call it.
- The cuckoo index of KKRT, a sequential loop; a filled table is taken as given.
- Progress reports and the resource registry, on which no protocol depends.
- Lines cut in the middle by a crash, in the bins of `HashBucketCache`.

Hazards without a property, and why, are in `PROJECT.json`. They are a line cut
in the middle in a bin, as above; a UB-PSI client copy of a broken-off transfer,
which looks complete; and a second generation of the UB-PSI cache that is cut
just before its meta file is rewritten and leaves rows under a key other than the
recorded one. `OnlineExact` therefore speaks of complete copies of complete
caches only. An input file edited without a change of size keeps its cached keys;
the tasks of `JoinPsi` change the size.
