----------------------- MODULE BucketPsiPipeProofs ------------------------
(* Proofs about BucketPsi, third part: the threads of AsyncRun. PipeInv     *)
(* holds first, is kept by every step, and is there again after a restart.   *)
EXTENDS BucketPsiProofs

\* The bucket to start with is settled.
Settled == cfg.recovery => Gathered

\* Messages are added on every context, and none is changed.
Grows ==
  \A r \in Party : \A c \in Ctx :
    /\ Len(link'[r][c]) \in Nat /\ Len(link'[r][c]) >= Len(link[r][c])
    /\ \A k \in 1 .. Len(link[r][c]) : link'[r][c][k] = link[r][c][k]

LEMMA GrowsOnMain == Grows => MainGrows
BY Zenon DEF Grows, MainGrows, Ctx

LEMMA ExchangeGrows ==
  ASSUME LinkTypes, NEW p \in Party, NEW T \in SUBSET Ctx, NEW S \in SUBSET Ctx,
         NEW m, S # {} => m \in Message, Exchange(p, T, S, m)
  PROVE  Grows
<1> DEFINE q == Other(p)
<1>1. /\ LinkTypes' /\ link'[q] = link[q]
      /\ \A c \in Ctx \ S : link'[p][c] = link[p][c]
      /\ \A c \in S : /\ Len(link'[p][c]) = Len(link[p][c]) + 1
                      /\ link'[p][c][Len(link[p][c]) + 1] = m
                      /\ \A k \in 1 .. Len(link[p][c]) : link'[p][c][k] = link[p][c][k]
  BY Exchanged, Zenon
<1>2. \A r \in Party : \A c \in Ctx : Len(link[r][c]) \in Nat /\ Len(link'[r][c]) \in Nat
  BY <1>1 DEF LinkTypes
<1>3. ASSUME NEW r \in Party, NEW c \in Ctx
      PROVE  /\ Len(link'[r][c]) \in Nat /\ Len(link'[r][c]) >= Len(link[r][c])
             /\ \A k \in 1 .. Len(link[r][c]) : link'[r][c][k] = link[r][c][k]
  <2>1. CASE r = q
    BY <1>1, <1>2, <2>1
  <2>2. CASE r = p /\ c \in S
    BY <1>1, <1>2, <2>2
  <2>3. CASE r = p /\ c \notin S
    BY <1>1, <1>2, <2>3
  <2> QED BY <2>1, <2>2, <2>3, Parties, Zenon
<1> QED BY <1>3, Zenon DEF Grows

LEMMA SettledKept ==
  ASSUME LinkTypes, inp' = inp, cfg' = cfg, MainGrows, Settled
  PROVE  /\ Settled' /\ Resume' = Resume
         /\ \A s, k : AfterRead(s, k)' = AfterRead(s, k)
         /\ \A s, k, b : Due(s, k, b)' <=> Due(s, k, b)
         /\ \A s : Chain(s) => Chain(s)'
<1>1. Settled' /\ Resume' = Resume
  BY GatheredKept, Zenon DEF Settled, Resume
<1>2. BucketNum' = BucketNum /\ \A b : Null(b)' <=> Null(b)
  BY Fixed, Zenon
<1>3. \A s, k : AfterRead(s, k)' = AfterRead(s, k)
  BY <1>1, <1>2, Zenon DEF AfterRead
<1>4. \A s, k, b : Due(s, k, b)' <=> Due(s, k, b)
  BY <1>1, <1>2, Zenon DEF Due, Before
<1>5. \A s : Chain(s) => Chain(s)'
  BY <1>1, <1>2, <1>4, Zenon DEF Chain, Settled
<1> QED BY <1>1, <1>3, <1>4, <1>5, Zenon

\* Nothing about an empty history depends on where the loop starts.
LEMMA HistoryKept ==
  ASSUME Counted, TypeOK, inp' = inp, cfg' = cfg, MainGrows, NEW p \in Party, History(p),
         \A c \in PipeContext : link'[p][c] = link[p][c]
  PROVE  History(p)'
<1>0. LinkTypes
  BY Zenon DEF TypeOK
<1>1. link'[p]["read"] = link[p]["read"] /\ link'[p]["run"] = link[p]["run"]
      /\ link'[p]["inter"] = link[p]["inter"]
  BY Zenon DEF PipeContext
<1>2. /\ \A r, b : Bucket(r, b)' = Bucket(r, b) /\ Masked(r, b)' = Masked(r, b)
      /\ \A r, S : Told(r, S)' = Told(r, S)
  BY Fixed, Zenon
<1>3. InterScript(p)'
  <2>1. InterScript(p)
    BY Zenon DEF History
  <2> QED BY <1>1, <1>2, <2>1, Zenon DEF InterScript
<1>4. ReadScript(p)'
  <2> SUFFICES ASSUME NEW k \in 1 .. Len(link[p]["read"])
               PROVE  LET s == link[p]["read"]
                      IN  (/\ cfg.recovery => Gathered
                           /\ Note(s[k].at, s[k].b) = AfterRead(s, k - 1)
                           /\ s[k].at = "size" => s[k].size = Cardinality(Bucket(p, s[k].b)))'
    BY <1>1, Zenon DEF ReadScript
  <2> DEFINE s == link[p]["read"]
  <2>1. /\ Settled /\ Note(s[k].at, s[k].b) = AfterRead(s, k - 1)
        /\ s[k].at = "size" => s[k].size = Cardinality(Bucket(p, s[k].b))
    BY Zenon DEF History, ReadScript, Settled
  <2>2. Settled' /\ \A x, n : AfterRead(x, n)' = AfterRead(x, n)
    BY <1>0, <2>1, SettledKept, Zenon
  <2>3. s' = s
    BY <1>1, Zenon
  <2>4. AfterRead(s, k - 1)' = AfterRead(s, k - 1)
    BY <2>2, <2>3, Zenon
  <2>5. Note(s[k].at, s[k].b)' = Note(s[k].at, s[k].b)
    BY <2>3, Zenon DEF Note
  <2> QED BY <1>2, <2>1, <2>2, <2>3, <2>4, <2>5, Zenon DEF Settled
<1>5. ASSUME NEW s, Chain(s) PROVE Chain(s)'
  <2>1. CASE Settled
    BY <1>0, <1>5, <2>1, SettledKept, Zenon
  <2>2. CASE ~Settled
    <3>1. \A k \in 1 .. Len(s) : FALSE
      BY <1>5, <2>2, Zenon DEF Chain, Settled
    <3> QED BY <3>1, Zenon DEF Chain
  <2> QED BY <2>1, <2>2, Zenon
<1>6. Chain(link[p]["run"])' /\ Chain(link[p]["inter"])'
  <2>1. Chain(link[p]["run"]) /\ Chain(link[p]["inter"])
    BY Zenon DEF History
  <2> QED BY <1>1, <1>5, <2>1, Zenon
<1> QED BY <1>3, <1>4, <1>6, Zenon DEF History

-----------------------------------------------------------------------------
(* What a thread knows, as long as it does nothing.                          *)

LEMMA AfterReadSame ==
  \A s, t, k : k = 0 \/ s[k] = t[k] => AfterRead(s, k) = AfterRead(t, k)
BY Zenon DEF AfterRead

LEMMA DueSame ==
  \A s, t, k, b : k = 1 \/ s[k - 1] = t[k - 1] => (Due(s, k, b) <=> Due(t, k, b))
BY DEF Due, Before

LEMMA PrepKept ==
  ASSUME Counted, TypeOK, inp' = inp, cfg' = cfg, Grows, Settled, NEW p \in Party, PrepInStep(p),
         th'[p]["prep"] = th[p]["prep"], link'[p]["read"] = link[p]["read"],
         got'[p]["read"] = got[p]["read"]
  PROVE  PrepInStep(p)'
<1> DEFINE q == Other(p)
           s == link[q]["read"]
           own == link[p]["read"]
           g == got[p]["read"]
<1>0. LinkTypes /\ q \in Party /\ g \in Nat /\ g <= Len(s) /\ Len(s) \in Nat
  BY LinkParts, Zenon
<1>1. /\ Resume' = Resume /\ \A x, k : AfterRead(x, k)' = AfterRead(x, k)
  BY <1>0, GrowsOnMain, SettledKept, Zenon
<1>2. BucketNum' = BucketNum /\ (\A b : Null(b)' <=> Null(b))
  BY Fixed, Zenon
<1>3. PrepNext(p)' = PrepNext(p) /\ Runner(p, "prep")' = Runner(p, "prep")
  BY Zenon DEF PrepNext, Runner, Note
<1>4. AfterRead(link'[q]["read"], g) = AfterRead(s, g)
  <2>1. g = 0 \/ link'[q]["read"][g] = s[g]
    BY <1>0 DEF Grows, Ctx
  <2> QED BY <2>1, AfterReadSame
<1>5. AfterRead(link[q]["read"], got[p]["read"])' = AfterRead(s, g)
  BY <1>1, <1>4, Zenon
<1>6. AfterRead(own, Len(own))' = AfterRead(own, Len(own))
  BY <1>1, Zenon
<1>7. Note(own[Len(own)].at, own[Len(own)].b)' = Note(own[Len(own)].at, own[Len(own)].b)
  BY Zenon DEF Note
<1> QED BY <1>2, <1>3, <1>5, <1>6, <1>7, Zenon DEF PrepInStep

LEMMA DueKept ==
  ASSUME Counted, TypeOK, inp' = inp, cfg' = cfg, Grows, Settled, NEW p \in Party, NEW c \in Ctx
  PROVE  /\ got'[p][c] = got[p][c] => \A b :
              Due(link[Other(p)][c], got[p][c] + 1, b) => Due(link[Other(p)][c], got[p][c] + 1, b)'
         /\ link'[p][c] = link[p][c] => \A b :
              Due(link[p][c], Len(link[p][c]) + 1, b) => Due(link[p][c], Len(link[p][c]) + 1, b)'
<1> DEFINE q == Other(p)
           s == link[q][c]
           g == got[p][c]
<1>0. LinkTypes /\ q \in Party /\ g \in Nat /\ g <= Len(s) /\ Len(s) \in Nat
  BY LinkParts, Zenon
<1>1. \A x, k, b : Due(x, k, b)' <=> Due(x, k, b)
  BY <1>0, GrowsOnMain, SettledKept, Zenon
<1>2. g + 1 = 1 \/ link'[q][c][(g + 1) - 1] = s[(g + 1) - 1]
  <2>1. \A k \in 1 .. Len(s) : link'[q][c][k] = s[k]
    BY <1>0, Zenon DEF Grows
  <2>2. g + 1 = 1 \/ (g + 1) - 1 \in 1 .. Len(s)
    BY <1>0
  <2> QED BY <2>1, <2>2, Zenon
<1>3. ASSUME NEW b, got'[p][c] = g, Due(s, g + 1, b) PROVE Due(s, g + 1, b)'
  <2>1. Due(link'[q][c], g + 1, b)
    BY <1>2, <1>3, DueSame, Zenon
  <2> QED BY <1>1, <1>3, <2>1, Zenon
<1>4. ASSUME NEW b, link'[p][c] = link[p][c], Due(link[p][c], Len(link[p][c]) + 1, b)
      PROVE  Due(link[p][c], Len(link[p][c]) + 1, b)'
  BY <1>1, <1>4, Zenon
<1> QED BY <1>3, <1>4, Zenon

LEMMA RunKept ==
  ASSUME Counted, TypeOK, inp' = inp, cfg' = cfg, Grows, Settled, NEW p \in Party, RunInStep(p),
         th'[p]["run"] = th[p]["run"], link'[p]["run"] = link[p]["run"],
         got'[p]["run"] = got[p]["run"]
  PROVE  RunInStep(p)'
<1>0. "run" \in Ctx
  BY Zenon DEF Ctx
<1>1. /\ \A b : Due(link[Other(p)]["run"], got[p]["run"] + 1, b)
                  => Due(link[Other(p)]["run"], got[p]["run"] + 1, b)'
      /\ \A b : Due(link[p]["run"], Len(link[p]["run"]) + 1, b)
                  => Due(link[p]["run"], Len(link[p]["run"]) + 1, b)'
  BY <1>0, DueKept, Zenon
<1>2. BucketNum' = BucketNum /\ (\A b : Null(b)' <=> Null(b))
  BY Fixed, Zenon
<1>3. \A places : UpTo(p, "run", places)' = UpTo(p, "run", places)
  BY Zenon DEF UpTo, Runner
<1>4. Runner(p, "run")' = Runner(p, "run")
  BY Zenon DEF Runner
<1>5. UpTo(p, "run", {"pop"})' = UpTo(p, "run", {"pop"})
      /\ UpTo(p, "run", {"pop", "recv"})' = UpTo(p, "run", {"pop", "recv"})
  BY <1>3, Zenon
<1> QED BY <1>1, <1>2, <1>4, <1>5, Zenon DEF RunInStep

LEMMA InterKept ==
  ASSUME Counted, TypeOK, inp' = inp, cfg' = cfg, Grows, Settled, NEW p \in Party, InterInStep(p),
         th'[p]["inter"] = th[p]["inter"], link'[p]["inter"] = link[p]["inter"],
         got'[p]["inter"] = got[p]["inter"]
  PROVE  InterInStep(p)'
<1>0. "inter" \in Ctx
  BY Zenon DEF Ctx
<1>1. /\ \A b : Due(link[Other(p)]["inter"], got[p]["inter"] + 1, b)
                  => Due(link[Other(p)]["inter"], got[p]["inter"] + 1, b)'
      /\ \A b : Due(link[p]["inter"], Len(link[p]["inter"]) + 1, b)
                  => Due(link[p]["inter"], Len(link[p]["inter"]) + 1, b)'
  BY <1>0, DueKept, Zenon
<1>2. /\ BucketNum' = BucketNum /\ (\A b : Null(b)' <=> Null(b))
      /\ (GetsResult(p)' <=> GetsResult(p)) /\ \A b : Expected(p, b)' = Expected(p, b)
  BY Fixed, Zenon
<1>3. \A places : UpTo(p, "inter", places)' = UpTo(p, "inter", places)
  BY Zenon DEF UpTo, Runner
<1>4. Runner(p, "inter")' = Runner(p, "inter")
  BY Zenon DEF Runner
<1>5. UpTo(p, "inter", {"pop"})' = UpTo(p, "inter", {"pop"})
      /\ UpTo(p, "inter", {"pop", "recv"})' = UpTo(p, "inter", {"pop", "recv"})
  BY <1>3, Zenon
<1> QED BY <1>1, <1>2, <1>4, <1>5, Zenon DEF InterInStep

LEMMA OrderedFixed ==
  ASSUME inp' = inp, cfg' = cfg
  PROVE  \A q, first : Ordered(q, first)' <=> Ordered(q, first)
BY Fixed, Zenon DEF Ordered

LEMMA QueuedKept ==
  ASSUME inp' = inp, cfg' = cfg, NEW p \in Party, NEW from \in Thread, NEW to \in Thread,
         th'[p][to] = th[p][to], th'[p][from] = th[p][from]
  PROVE  \A q : Queued(p, q, from, to) => Queued(p, q, from, to)'
<1>1. UpTo(p, to, {"pop", "done"})' = UpTo(p, to, {"pop", "done"})
  BY Zenon DEF UpTo, Runner
<1>2. \A q, first : Ordered(q, first)' <=> Ordered(q, first)
  BY OrderedFixed, Zenon
<1> QED BY <1>1, <1>2, Zenon DEF Queued, Runner

-----------------------------------------------------------------------------
(* Steps of one party, as the other sees them.                               *)

PipeOf(p) ==
  /\ History(p)
  /\ pc[p] \in {"Init", "PreProcess", "OnlineStart", "OnlineGather"} => Unused(p)
  /\ pc[p] = "AsyncRun" => Threads(p)

LEMMA PipeOfAll ==
  /\ PipeInv <=> \A p \in Party : PipeOf(p)
  /\ (\A p \in Party : PipeOf(p)') => PipeInv'
BY Zenon DEF PipeInv, PipeOf

LEMMA AsyncSettled ==
  ASSUME Counted, TypeOK, MainInv, NEW p \in Party, pc[p] = "AsyncRun"
  PROVE  Settled /\ Resume \in Nat
BY Zenon DEF TypeOK, ControlTypes, MainInv, Working, PlaceRight, Begun, Settled

\* Nothing of p's part of AsyncRun is touched.
Quiet(p) ==
  /\ th'[p] = th[p] /\ prepared'[p] = prepared[p] /\ oprf'[p] = oprf[p]
  /\ \A c \in PipeContext : link'[p][c] = link[p][c] /\ got'[p][c] = got[p][c]

LEMMA ThreadsKept ==
  ASSUME Counted, TypeOK, inp' = inp, cfg' = cfg, Grows, Settled, NEW p \in Party, Threads(p), Quiet(p)
  PROVE  Threads(p)'
<1>1. /\ link'[p]["read"] = link[p]["read"] /\ got'[p]["read"] = got[p]["read"]
      /\ link'[p]["run"] = link[p]["run"] /\ got'[p]["run"] = got[p]["run"]
      /\ link'[p]["inter"] = link[p]["inter"] /\ got'[p]["inter"] = got[p]["inter"]
  BY Zenon DEF Quiet, PipeContext
<1>2. th'[p] = th[p] /\ prepared'[p] = prepared[p] /\ oprf'[p] = oprf[p]
  BY Zenon DEF Quiet
<1>3. PrepInStep(p)'
  BY <1>1, <1>2, PrepKept, Zenon DEF Threads
<1>4. RunInStep(p)'
  BY <1>1, <1>2, RunKept, Zenon DEF Threads
<1>5. InterInStep(p)'
  BY <1>1, <1>2, InterKept, Zenon DEF Threads
<1>6. ThreadsRight(p)'
  <2>1. BucketNum' = BucketNum
    BY Fixed, Zenon
  <2> QED BY <1>2, <2>1, Zenon DEF Threads, ThreadsRight, Runner
<1>7. Queued(p, prepared[p], "prep", "run")' /\ Queued(p, oprf[p], "run", "inter")'
  <2>1. "prep" \in Thread /\ "run" \in Thread /\ "inter" \in Thread
    BY Zenon DEF Thread
  <2>2. /\ \A q : Queued(p, q, "prep", "run") => Queued(p, q, "prep", "run")'
        /\ \A q : Queued(p, q, "run", "inter") => Queued(p, q, "run", "inter")'
    BY <1>2, <2>1, QueuedKept, Zenon
  <2> QED BY <1>2, <2>2, Zenon DEF Threads
<1> QED BY <1>3, <1>4, <1>5, <1>6, <1>7, Zenon DEF Threads

LEMMA QuietPipe ==
  ASSUME Counted, TypeOK, MainInv, inp' = inp, cfg' = cfg, Grows, NEW p \in Party, PipeOf(p), Quiet(p),
         pc'[p] = "AsyncRun" => pc[p] = "AsyncRun",
         pc'[p] \in {"Init", "PreProcess", "OnlineStart", "OnlineGather"} =>
           pc[p] \in {"Init", "PreProcess", "OnlineStart", "OnlineGather"}
  PROVE  PipeOf(p)'
<1>1. History(p)'
  BY GrowsOnMain, HistoryKept, Zenon DEF PipeOf, Quiet
<1>2. ASSUME Unused(p) PROVE Unused(p)'
  BY <1>2, Zenon DEF Unused, Quiet
<1>3. ASSUME pc[p] = "AsyncRun" PROVE Threads(p)'
  BY <1>3, AsyncSettled, ThreadsKept, Zenon DEF PipeOf
<1> QED BY <1>1, <1>2, <1>3, Zenon DEF PipeOf

\* A step of p that touches only the contexts and the queues of p.
LEMMA PeerPipe ==
  ASSUME Counted, TypeOK, MainInv, PipeInv, inp' = inp, cfg' = cfg, Grows, NEW p \in Party,
         link'[Other(p)] = link[Other(p)], got'[Other(p)] = got[Other(p)],
         th'[Other(p)] = th[Other(p)], prepared'[Other(p)] = prepared[Other(p)],
         oprf'[Other(p)] = oprf[Other(p)], pc'[Other(p)] = pc[Other(p)],
         PipeOf(p)'
  PROVE  PipeInv'
<1>1. Other(p) \in Party /\ Quiet(Other(p))
  BY Parties, Zenon DEF Quiet
<1>2. PipeOf(Other(p))
  BY <1>1, PipeOfAll, Zenon
<1>3. PipeOf(Other(p))'
  BY <1>1, <1>2, QuietPipe, Zenon
<1>4. \A r \in Party : r = p \/ r = Other(p)
  BY Parties, Zenon
<1>5. \A r \in Party : PipeOf(r)'
  BY <1>3, <1>4, Zenon
<1> QED BY <1>5, PipeOfAll, Zenon

-----------------------------------------------------------------------------
(* What a step of a thread does to its context and its queues.               *)

\* p has sent m on context c.
Adds(p, c, m) ==
  /\ Len(link'[p][c]) = Len(link[p][c]) + 1
  /\ link'[p][c][Len(link[p][c]) + 1] = m
  /\ \A k \in 1 .. Len(link[p][c]) : link'[p][c][k] = link[p][c][k]

LEMMA ReadGrows ==
  ASSUME Counted, TypeOK, inp' = inp, cfg' = cfg, Grows, Settled, NEW p \in Party, ReadScript(p), NEW m,
         Adds(p, "read", m), Note(m.at, m.b) = AfterRead(link[p]["read"], Len(link[p]["read"])),
         m.at = "size" => m.size = Cardinality(Bucket(p, m.b))
  PROVE  ReadScript(p)'
<1> DEFINE s == link[p]["read"]
           t == link'[p]["read"]
<1>0. LinkTypes /\ Len(s) \in Nat
  BY LinkParts, Zenon
<1>1. Settled' /\ \A x, n : AfterRead(x, n)' = AfterRead(x, n)
  BY <1>0, GrowsOnMain, SettledKept, Zenon
<1>2. \A r, b : Bucket(r, b)' = Bucket(r, b)
  BY Fixed, Zenon
<1>3. ASSUME NEW k \in 1 .. Len(t)
      PROVE  /\ Note(t[k].at, t[k].b) = AfterRead(t, k - 1)
             /\ t[k].at = "size" => t[k].size = Cardinality(Bucket(p, t[k].b))
  <2>0. k - 1 = 0 \/ k - 1 \in 1 .. Len(s)
    BY <1>0 DEF Adds
  <2>1. k - 1 = 0 \/ t[k - 1] = s[k - 1]
    BY <2>0, Zenon DEF Adds
  <2>2. AfterRead(t, k - 1) = AfterRead(s, k - 1)
    BY <2>1, AfterReadSame, Zenon
  <2>3. CASE k \in 1 .. Len(s)
    <3>1. t[k] = s[k]
      BY <2>3, Zenon DEF Adds
    <3> QED BY <2>2, <2>3, <3>1, Zenon DEF ReadScript
  <2>4. CASE k = Len(s) + 1
    <3>1. t[k] = m /\ k - 1 = Len(s)
      BY <1>0, <2>4 DEF Adds
    <3> QED BY <2>2, <3>1, Zenon
  <2> QED BY <1>0, <2>3, <2>4 DEF Adds
<1>4. ASSUME NEW k \in 1 .. Len(t)
      PROVE  LET x == link[p]["read"]
             IN  (/\ cfg.recovery => Gathered
                  /\ Note(x[k].at, x[k].b) = AfterRead(x, k - 1)
                  /\ x[k].at = "size" => x[k].size = Cardinality(Bucket(p, x[k].b)))'
  <2>1. AfterRead(s, k - 1)' = AfterRead(t, k - 1)
    BY <1>1, Zenon
  <2>2. Note(s[k].at, s[k].b)' = Note(t[k].at, t[k].b)
    BY Zenon DEF Note
  <2> QED BY <1>1, <1>2, <1>3, <2>1, <2>2, Zenon DEF Settled
<1> QED BY <1>4, Zenon DEF ReadScript

LEMMA ChainGrows ==
  ASSUME Counted, TypeOK, inp' = inp, cfg' = cfg, Grows, Settled, NEW p \in Party, NEW c \in Ctx,
         Chain(link[p][c]), NEW m, Adds(p, c, m), m.at = "recv", m.b \in 0 .. BucketNum - 1,
         ~Null(m.b), Due(link[p][c], Len(link[p][c]) + 1, m.b)
  PROVE  /\ Chain(link[p][c])'
         /\ Due(link'[p][c], Len(link'[p][c]) + 1, m.b + 1)
<1> DEFINE s == link[p][c]
           t == link'[p][c]
<1>0. LinkTypes /\ Len(s) \in Nat /\ inp \in Inputs
  BY DEF TypeOK, LinkTypes, ControlTypes
<1>1. Settled' /\ \A x, n, b : Due(x, n, b)' <=> Due(x, n, b)
  BY <1>0, GrowsOnMain, SettledKept, Zenon
<1>2. BucketNum' = BucketNum /\ \A b : Null(b)' <=> Null(b)
  BY Fixed, Zenon
<1>3. ASSUME NEW k \in 1 .. Len(t)
      PROVE  t[k].at = "recv" /\ t[k].b \in 0 .. BucketNum - 1 /\ ~Null(t[k].b) /\ Due(t, k, t[k].b)
  <2>1. k = 1 \/ t[k - 1] = s[k - 1]
    <3>1. Len(t) = Len(s) + 1 /\ \A j \in 1 .. Len(s) : t[j] = s[j]
      BY Zenon DEF Adds
    <3>2. \A n \in Nat : n = Len(s) => k = 1 \/ k - 1 \in 1 .. n
      BY <3>1
    <3> QED BY <1>0, <3>1, <3>2, Zenon
  <2>2. \A b : Due(t, k, b) <=> Due(s, k, b)
    BY <2>1, DueSame, Zenon
  <2>3. CASE k \in 1 .. Len(s)
    <3>1. t[k] = s[k]
      BY <2>3, Zenon DEF Adds
    <3> QED BY <2>2, <2>3, <3>1, Zenon DEF Chain
  <2>4. CASE k = Len(s) + 1
    <3>1. t[k] = m
      BY <2>4, Zenon DEF Adds
    <3> QED BY <2>2, <2>4, <3>1, Zenon
  <2> QED BY <1>0, <2>3, <2>4 DEF Adds
<1>4. Chain(s)'
  <2>1. ASSUME NEW k \in 1 .. Len(t)
        PROVE  (/\ s[k].at = "recv" /\ s[k].b \in 0 .. BucketNum - 1
                /\ ~Null(s[k].b) /\ Due(s, k, s[k].b))'
    <3>1. Due(s, k, s[k].b)' <=> Due(t, k, t[k].b)
      BY <1>1, Zenon
    <3> QED BY <1>2, <1>3, <3>1, Zenon
  <2> QED BY <1>1, <2>1, Zenon DEF Chain, Settled
<1>5. Due(t, Len(s) + 2, m.b + 1)
  <2>1. t[Len(s) + 1].b = m.b /\ m.b \in Int
    BY <1>0, Lists DEF Adds
  <2> QED BY <1>0, <2>1, DueNext, Zenon
<1>6. Len(t) + 1 = Len(s) + 2
  BY <1>0 DEF Adds
<1> QED BY <1>4, <1>5, <1>6, Zenon

LEMMA InterGrows ==
  ASSUME Counted, TypeOK, inp' = inp, cfg' = cfg, NEW p \in Party, InterScript(p), NEW m,
         Adds(p, "inter", m), m.told = Told(p, Masked(p, m.b))
  PROVE  InterScript(p)'
<1> DEFINE s == link[p]["inter"]
           t == link'[p]["inter"]
<1>0. Len(s) \in Nat
  BY DEF TypeOK, LinkTypes, Ctx
<1>1. /\ \A r, b : Masked(r, b)' = Masked(r, b)
      /\ \A r, S : Told(r, S)' = Told(r, S)
  BY Fixed, Zenon
<1>2. ASSUME NEW k \in 1 .. Len(t) PROVE t[k].told = Told(p, Masked(p, t[k].b))
  <2>1. CASE k \in 1 .. Len(s)
    BY <2>1, Zenon DEF Adds, InterScript
  <2>2. CASE k = Len(s) + 1
    BY <2>2, Zenon DEF Adds
  <2> QED BY <1>0, <2>1, <2>2 DEF Adds
<1> QED BY <1>1, <1>2, Zenon DEF InterScript

\* A null bucket is skipped.
LEMMA DueSkip ==
  ASSUME inp \in Inputs, NEW s, NEW k, NEW b \in Nat, Before(s, k) \in Int, Due(s, k, b), Null(b)
  PROVE  Due(s, k, b + 1)
<1>1. BucketNum \in Nat
  BY Lists, Zenon
<1>2. Before(s, k) < b /\ \A c \in 0 .. BucketNum - 1 : Before(s, k) < c /\ c < b => Null(c)
  BY Zenon DEF Due
<1>3. Before(s, k) < b + 1
  BY <1>2
<1>4. \A c \in 0 .. BucketNum - 1 : c < b + 1 => c < b \/ c = b
  BY <1>1
<1> QED BY <1>2, <1>3, <1>4, Zenon DEF Due

\* Neither the number of buckets taken from a queue nor that put into it has
\* changed.
LEMMA QueuedAs ==
  ASSUME inp' = inp, cfg' = cfg, NEW p \in Party, NEW q, NEW from \in Thread, NEW to \in Thread,
         Queued(p, q, from, to),
         th'[p][to].at # "threw" =>
           /\ th[p][to].at # "threw"
           /\ UpTo(p, to, {"pop", "done"})' = UpTo(p, to, {"pop", "done"}),
         th'[p][from].at # "threw" =>
           th[p][from].at # "threw" /\ Runner(p, from).b' = Runner(p, from).b
  PROVE  Queued(p, q, from, to)'
<1>1. \A x, first : Ordered(x, first)' <=> Ordered(x, first)
  BY OrderedFixed, Zenon
<1>2. ASSUME th'[p][to].at # "threw"
      PROVE  /\ Ordered(q, UpTo(p, to, {"pop", "done"}))'
             /\ th'[p][from].at # "threw" =>
                  Runner(p, from).b' = UpTo(p, to, {"pop", "done"})' + Len(q)
  <2> DEFINE u == UpTo(p, to, {"pop", "done"})
  <2>1. th[p][to].at # "threw" /\ u' = u
    BY <1>2, Zenon
  <2>2. Ordered(q, u) /\ (th[p][from].at # "threw" => Runner(p, from).b = u + Len(q))
    BY <2>1, Zenon DEF Queued
  <2>3. Ordered(q, u)'
    BY <1>1, <2>1, <2>2, Zenon
  <2> QED BY <2>1, <2>2, <2>3, Zenon
<1> QED BY <1>2, Zenon DEF Queued

LEMMA QueuePush ==
  ASSUME Counted, TypeOK, inp' = inp, cfg' = cfg, NEW p \in Party, NEW from \in Thread, NEW to \in Thread,
         NEW q \in Seq(BucketRunner), Queued(p, q, from, to), th'[p][to] = th[p][to],
         th[p][from].at # "threw",
         LET r == Runner(p, from)
         IN  r.b \in 0 .. BucketNum - 1 /\ (r.null <=> Null(r.b)) /\ r.hits = {},
         Runner(p, from).b' = Runner(p, from).b + 1
  PROVE  \A a : a = Append(q, Runner(p, from)) => Queued(p, a, from, to)'
<1> SUFFICES ASSUME NEW a, a = Append(q, Runner(p, from)) PROVE Queued(p, a, from, to)'
  BY Zenon
<1> DEFINE r == Runner(p, from)
           u == UpTo(p, to, {"pop", "done"})
<1>1. r \in BucketRunner /\ Runner(p, to) \in BucketRunner /\ BucketNum \in Nat
  BY Lists DEF TypeOK, PipeTypes, ControlTypes, Runner
<1>2. Len(a) = Len(q) + 1 /\ a[Len(q) + 1] = r /\ (\A k \in 1 .. Len(q) : a[k] = q[k])
      /\ Len(q) \in Nat
  BY <1>1, Appended
<1>3. u' = u
  BY Zenon DEF UpTo, Runner
<1>4. u \in Int
  BY <1>1 DEF UpTo, BucketRunner
<1> HIDE DEF u, r
<1>5. ASSUME th[p][to].at # "threw"
      PROVE  Ordered(a, u) /\ r.b + 1 = u + Len(a)
  <2>1. Ordered(q, u) /\ r.b = u + Len(q)
    BY <1>5, Zenon DEF Queued, r, u
  <2>2. r.b \in 0 .. BucketNum - 1 /\ (r.null <=> Null(r.b)) /\ r.hits = {}
    BY Zenon DEF r
  <2>3. ASSUME NEW k \in 1 .. Len(a)
        PROVE  /\ a[k].b = u + k - 1 /\ a[k].b \in 0 .. BucketNum - 1
               /\ (a[k].null <=> Null(a[k].b)) /\ a[k].hits = {}
    <3>1. CASE k \in 1 .. Len(q)
      BY <1>2, <2>1, <3>1, Zenon DEF Ordered
    <3>2. CASE k = Len(q) + 1
      BY <1>2, <1>4, <2>1, <2>2, <3>2
    <3> QED BY <1>2, <3>1, <3>2
  <2> QED BY <1>1, <1>2, <1>4, <2>1, <2>2, <2>3 DEF Ordered
<1>6. \A x, first : Ordered(x, first)' <=> Ordered(x, first)
  BY OrderedFixed, Zenon
<1>7. Runner(p, from).b' = r.b + 1
  BY Zenon DEF r
<1> QED BY <1>3, <1>5, <1>6, <1>7, Zenon DEF Queued, u

LEMMA QueuePop ==
  ASSUME Counted, TypeOK, inp' = inp, cfg' = cfg, NEW p \in Party, NEW from \in Thread, NEW to \in Thread,
         NEW q \in Seq(BucketRunner), q # <<>>, Queued(p, q, from, to), th'[p][from] = th[p][from],
         th[p][to].at = "pop", th'[p][to].at \notin {"pop", "done", "threw"},
         th'[p][to].r = Head(q)
  PROVE  /\ Head(q).b = Runner(p, to).b /\ Head(q).b \in 0 .. BucketNum - 1
         /\ (Head(q).null <=> Null(Head(q).b)) /\ Head(q).hits = {}
         /\ \A a : a = Tail(q) => Queued(p, a, from, to)'
<1> DEFINE u == Runner(p, to).b
<1>1. u \in Int /\ BucketNum \in Nat /\ Runner(p, from).b \in Int
  BY Lists DEF TypeOK, PipeTypes, ControlTypes, Runner, BucketRunner
<1>2. Ordered(q, u) /\ (th[p][from].at # "threw" => Runner(p, from).b = u + Len(q))
  BY Zenon DEF Queued, UpTo
<1>3. /\ Tail(q) \in Seq(BucketRunner) /\ Len(Tail(q)) = Len(q) - 1 /\ Head(q) = q[1]
      /\ \A k \in 1 .. Len(Tail(q)) : Tail(q)[k] = q[k + 1]
      /\ Len(q) \in Nat /\ Len(q) > 0
  BY HeadTail, Zenon
<1>4. /\ Head(q).b = u /\ Head(q).b \in 0 .. BucketNum - 1
      /\ (Head(q).null <=> Null(Head(q).b)) /\ Head(q).hits = {}
  <2>1. 1 \in 1 .. Len(q)
    BY <1>3
  <2>2. q[1].b = u + 1 - 1 /\ u + 1 - 1 = u
    BY <1>1, <1>2, <2>1 DEF Ordered
  <2> QED BY <1>2, <1>3, <2>1, <2>2, Zenon DEF Ordered
<1>5. ASSUME NEW a, a = Tail(q) PROVE Ordered(a, u + 1) /\ u + Len(q) = (u + 1) + Len(a)
  <2>1. ASSUME NEW k \in 1 .. Len(a)
        PROVE  /\ a[k].b = (u + 1) + k - 1 /\ a[k].b \in 0 .. BucketNum - 1
               /\ (a[k].null <=> Null(a[k].b)) /\ a[k].hits = {}
    <3>1. k + 1 \in 1 .. Len(q) /\ a[k] = q[k + 1] /\ (u + 1) + k - 1 = u + (k + 1) - 1
      BY <1>1, <1>3, <1>5
    <3>2. /\ q[k + 1].b = u + (k + 1) - 1 /\ q[k + 1].b \in 0 .. BucketNum - 1
          /\ (q[k + 1].null <=> Null(q[k + 1].b)) /\ q[k + 1].hits = {}
      BY <1>2, <3>1, Zenon DEF Ordered
    <3> QED BY <3>1, <3>2, Zenon
  <2>2. Ordered(a, u + 1)
    BY <2>1, Zenon DEF Ordered
  <2>3. Len(a) = Len(q) - 1
    BY <1>3, <1>5, Zenon
  <2>4. u + Len(q) = (u + 1) + Len(a)
    BY <1>1, <1>3, <2>3
  <2> QED BY <2>2, <2>4, Zenon
<1>6. UpTo(p, to, {"pop", "done"})' = u + 1
  <2>1. Runner(p, to)'.b = u
    BY <1>4, Zenon DEF Runner
  <2> QED BY <2>1, Zenon DEF UpTo, Runner
<1>7. \A x, first : Ordered(x, first)' <=> Ordered(x, first)
  BY OrderedFixed, Zenon
<1>8. ASSUME NEW a, a = Tail(q) PROVE Queued(p, a, from, to)'
  <2>1. Ordered(a, u + 1) /\ u + Len(q) = (u + 1) + Len(a)
    BY <1>5, <1>8, Zenon
  <2>2. Ordered(a, UpTo(p, to, {"pop", "done"}))'
    BY <1>6, <1>7, <2>1, Zenon
  <2>3. Runner(p, from).b' = Runner(p, from).b
    BY Zenon DEF Runner
  <2> QED BY <1>2, <1>6, <2>1, <2>2, <2>3, Zenon DEF Queued
<1> QED BY <1>4, <1>8, Zenon

-----------------------------------------------------------------------------
(* The steps of the threads.                                                 *)

\* Thread t of p and its context have not moved.
QuietOn(p, t, c) ==
  th'[p][t] = th[p][t] /\ link'[p][c] = link[p][c] /\ got'[p][c] = got[p][c]

LEMMA PipeMoves ==
  ASSUME Counted, TypeOK, MainInv, PipeInv, NEW p \in Party, pc[p] = "AsyncRun", pc'[p] = pc[p],
         inp' = inp, cfg' = cfg, Grows,
         QuietOn(p, "prep", "read") \/ (ReadScript(p)' /\ PrepInStep(p)'),
         QuietOn(p, "run", "run") \/ (Chain(link[p]["run"])' /\ RunInStep(p)'),
         QuietOn(p, "inter", "inter")
           \/ (Chain(link[p]["inter"])' /\ InterScript(p)' /\ InterInStep(p)'),
         ThreadsRight(p)', Queued(p, prepared[p], "prep", "run")', Queued(p, oprf[p], "run", "inter")'
  PROVE  PipeOf(p)'
<1>0. Settled /\ LinkTypes /\ MainGrows
  BY AsyncSettled, GrowsOnMain, Zenon DEF TypeOK
<1>1. History(p) /\ Threads(p)
  BY Zenon DEF PipeInv
<1>2. \A s : Chain(s) => Chain(s)'
  BY <1>0, SettledKept, Zenon
<1>3. PrepInStep(p)'
  BY <1>0, <1>1, PrepKept, Zenon DEF QuietOn, Threads
<1>4. RunInStep(p)' /\ Chain(link[p]["run"])'
  <2>1. CASE QuietOn(p, "run", "run")
    <3>1. RunInStep(p)'
      BY <1>0, <1>1, <2>1, RunKept, Zenon DEF QuietOn, Threads
    <3>2. Chain(link[p]["run"])'
      BY <1>1, <1>2, <2>1, Zenon DEF QuietOn, History
    <3> QED BY <3>1, <3>2, Zenon
  <2> QED BY <2>1, Zenon
<1>5. InterInStep(p)' /\ Chain(link[p]["inter"])' /\ InterScript(p)'
  <2>1. CASE QuietOn(p, "inter", "inter")
    <3>1. InterInStep(p)'
      BY <1>0, <1>1, <2>1, InterKept, Zenon DEF QuietOn, Threads
    <3>2. Chain(link[p]["inter"])'
      BY <1>1, <1>2, <2>1, Zenon DEF QuietOn, History
    <3>3. InterScript(p)'
      BY <1>1, <2>1, Fixed, Zenon DEF QuietOn, History, InterScript
    <3> QED BY <3>1, <3>2, <3>3, Zenon
  <2> QED BY <2>1, Zenon
<1>6. ReadScript(p)'
  <2>1. CASE QuietOn(p, "prep", "read")
    <3> DEFINE s == link[p]["read"]
    <3>1. s' = s /\ ReadScript(p)
      BY <1>1, <2>1, Zenon DEF QuietOn, History
    <3>2. Settled' /\ \A x, n : AfterRead(x, n)' = AfterRead(x, n)
      BY <1>0, SettledKept, Zenon
    <3>3. \A b : Bucket(p, b)' = Bucket(p, b)
      BY Fixed, Zenon
    <3>4. \A k : Note(s[k].at, s[k].b)' = Note(s[k].at, s[k].b) /\ AfterRead(s, k - 1)' = AfterRead(s, k - 1)
      BY <3>1, <3>2, Zenon DEF Note
    <3>5. ASSUME NEW k \in 1 .. Len(s)
          PROVE  (/\ cfg.recovery => Gathered
                  /\ Note(s[k].at, s[k].b) = AfterRead(s, k - 1)
                  /\ s[k].at = "size" => s[k].size = Cardinality(Bucket(p, s[k].b)))'
      BY <3>1, <3>2, <3>3, <3>4, Zenon DEF ReadScript, Settled
    <3> QED BY <3>1, <3>5, Zenon DEF ReadScript
  <2> QED BY <2>1, Zenon
<1> QED BY <1>3, <1>4, <1>5, <1>6, Zenon DEF PipeOf, History, Threads

\* An exchange on one context.
LEMMA OnContext ==
  ASSUME LinkTypes, NEW p \in Party, NEW c \in Ctx, NEW T \in SUBSET {c}, NEW S \in SUBSET {c},
         NEW m, S # {} => m \in Message, Exchange(p, T, S, m)
  PROVE  /\ Grows /\ link'[Other(p)] = link[Other(p)] /\ got'[Other(p)] = got[Other(p)]
         /\ \A d \in Ctx \ {c} : link'[p][d] = link[p][d] /\ got'[p][d] = got[p][d]
         /\ IF S = {} THEN link'[p][c] = link[p][c] ELSE Adds(p, c, m)
         /\ IF T = {} THEN got'[p][c] = got[p][c] ELSE got'[p][c] = got[p][c] + 1 /\ Arrived(p, c)
<1>0. T \in SUBSET Ctx /\ S \in SUBSET Ctx
  BY Zenon
<1>1. Grows
  BY <1>0, ExchangeGrows, Zenon
<1>2. /\ LinkTypes'
      /\ link'[Other(p)] = link[Other(p)] /\ got'[Other(p)] = got[Other(p)]
      /\ \A d \in Ctx \ S : link'[p][d] = link[p][d]
      /\ \A d \in S : /\ Len(link'[p][d]) = Len(link[p][d]) + 1
                      /\ link'[p][d][Len(link[p][d]) + 1] = m
                      /\ \A k \in 1 .. Len(link[p][d]) : link'[p][d][k] = link[p][d][k]
      /\ \A d \in T : got'[p][d] = got[p][d] + 1 /\ got[p][d] < Len(link[Other(p)][d])
      /\ \A d \in Ctx \ T : got'[p][d] = got[p][d]
  BY <1>0, Exchanged, Zenon
<1>3. (S = {} \/ S = {c}) /\ (T = {} \/ T = {c})
  BY Zenon
<1>4. IF S = {} THEN link'[p][c] = link[p][c] ELSE Adds(p, c, m)
  BY <1>2, <1>3, Zenon DEF Adds
<1>5. IF T = {} THEN got'[p][c] = got[p][c] ELSE got'[p][c] = got[p][c] + 1 /\ Arrived(p, c)
  BY <1>2, <1>3, Zenon DEF Arrived
<1>6. \A d \in Ctx \ {c} : link'[p][d] = link[p][d] /\ got'[p][d] = got[p][d]
  BY <1>2, Zenon
<1> QED BY <1>1, <1>2, <1>4, <1>5, <1>6, Zenon

LEMMA NoContext ==
  ASSUME LinkTypes, UNCHANGED linkVars
  PROVE  Grows /\ link' = link /\ got' = got
BY DEF LinkTypes, Grows, linkVars

\* A thread goes on with its bucket.
LEMMA Stays ==
  ASSUME inp' = inp, cfg' = cfg, NEW p \in Party, Threads(p), NEW t \in Thread,
         th[p][t].at \notin {"pop", "done", "threw"},
         th'[p][t].at \notin {"pop", "done", "threw"},
         th'[p][t].r.b = th[p][t].r.b, \A u \in Thread \ {t} : th'[p][u] = th[p][u],
         prepared'[p] = prepared[p], oprf'[p] = oprf[p]
  PROVE  Queued(p, prepared[p], "prep", "run")' /\ Queued(p, oprf[p], "run", "inter")'
<1>1. \A u \in Thread :
        /\ th'[p][u].at # "threw" => th[p][u].at # "threw"
        /\ UpTo(p, u, {"pop", "done"})' = UpTo(p, u, {"pop", "done"})
        /\ Runner(p, u).b' = Runner(p, u).b
  BY Zenon DEF UpTo, Runner
<1>2. Queued(p, prepared[p], "prep", "run") /\ Queued(p, oprf[p], "run", "inter")
  BY Zenon DEF Threads
<1>3. /\ \A q : Queued(p, q, "prep", "run") => Queued(p, q, "prep", "run")'
      /\ \A q : Queued(p, q, "run", "inter") => Queued(p, q, "run", "inter")'
  BY <1>1, QueuedAs, Names, Zenon
<1> QED BY <1>2, <1>3, Zenon

\* Pre_f of the prepare thread, and the size.
LEMMA LoadSteps ==
  ASSUME Counted, TypeOK, MainInv, PipeInv, NEW p \in Party, PrepLoad(p)
  PROVE  PipeOf(p)' /\ Grows /\ link'[Other(p)] = link[Other(p)] /\ got'[Other(p)] = got[Other(p)]
<1> DEFINE r == Runner(p, "prep")
           m == Size(p, "size", r.b)
           own == link[p]["read"]
<1>0. /\ inp' = inp /\ cfg' = cfg /\ pc' = pc /\ pc[p] = "AsyncRun" /\ ThTypes /\ LinkTypes
      /\ Settled /\ Resume \in Nat
  BY ThreadFrame, TypeParts, AsyncSettled, Zenon DEF Prep
<1>1. History(p) /\ Threads(p) /\ th[p]["prep"].at = "load"
  BY Zenon DEF PipeInv, PrepLoad, InPipe
<1>2. /\ r.b \in 0 .. BucketNum - 1 /\ r.hits = {}
      /\ AfterRead(link[Other(p)]["read"], got[p]["read"]) = Note("size", r.b)
      /\ AfterRead(own, Len(own)) = Note("size", r.b)
  BY <1>1, Zenon DEF Threads, PrepInStep, PrepNext
<1>3. m \in Message
  <2>1. r.b \in Int
    BY <1>0, RunnerTypes, Names, Zenon
  <2> QED BY <2>1, Messages, Zenon DEF Place, TypeOK
<1>4. /\ Grows /\ link'[Other(p)] = link[Other(p)] /\ got'[Other(p)] = got[Other(p)]
      /\ \A d \in Ctx \ {"read"} : link'[p][d] = link[p][d] /\ got'[p][d] = got[p][d]
      /\ Adds(p, "read", m) /\ got'[p]["read"] = got[p]["read"]
  <2>1. Exchange(p, {}, {"read"}, m)
    BY Zenon DEF PrepLoad, SendOn
  <2> HIDE DEF m
  <2> QED BY <1>0, <1>3, <2>1, OnContext, Names, Zenon
<1>5. th'[p]["prep"].at = "size" /\ th'[p]["prep"].r = r
      /\ (\A u \in Thread \ {"prep"} : th'[p][u] = th[p][u])
  <2>1. Move(p, "prep", "size", r)
    BY Zenon DEF PrepLoad
  <2> QED BY <1>0, <2>1, Moved, Names
<1>6. m.at = "size" /\ m.b = r.b /\ m.size = Cardinality(Bucket(p, m.b))
  BY Zenon DEF Size
<1> HIDE DEF m
<1>7. ReadScript(p)'
  BY <1>0, <1>1, <1>2, <1>4, <1>6, ReadGrows, Zenon DEF History
<1>8. PrepInStep(p)'
  <2>1. AfterRead(link[Other(p)]["read"], got[p]["read"])' = Note("size", r.b)
    <3>1. \A x, k : AfterRead(x, k)' = AfterRead(x, k)
      BY <1>0, <1>4, GrowsOnMain, SettledKept, Zenon
    <3> QED BY <1>2, <1>4, <3>1, Zenon
  <2>2. PrepNext(p)' = Note("size", r.b)
    BY <1>5, Zenon DEF PrepNext, Runner, Note
  <2>3. Note(link'[p]["read"][Len(link'[p]["read"])].at, link'[p]["read"][Len(link'[p]["read"])].b)
          = Note("size", r.b) /\ Len(link'[p]["read"]) > 0
    <3>1. Len(own) \in Nat
      BY <1>0, Names DEF LinkTypes
    <3> QED BY <1>4, <1>6, <3>1 DEF Adds
  <2>4. BucketNum' = BucketNum
    BY <1>0, Fixed, Zenon
  <2>5. Runner(p, "prep")' = r
    BY <1>5, Zenon DEF Runner
  <2> QED BY <1>2, <1>5, <2>1, <2>2, <2>3, <2>4, <2>5, Zenon DEF PrepInStep, Note
<1>9. QuietOn(p, "run", "run") /\ QuietOn(p, "inter", "inter")
  BY <1>4, <1>5, Names, Zenon DEF QuietOn
<1>10. ThreadsRight(p)'
  BY <1>0, <1>1, <1>5, Fixed, Zenon DEF Threads, ThreadsRight, Thread, Runner
<1>11. Queued(p, prepared[p], "prep", "run")' /\ Queued(p, oprf[p], "run", "inter")'
  <2>1. th'[p]["prep"].r.b = th[p]["prep"].r.b
    BY <1>5, Zenon DEF Runner
  <2> QED BY <1>0, <1>1, <1>5, <2>1, Stays, Names, Zenon DEF PrepLoad
<1> QED BY <1>0, <1>4, <1>7, <1>8, <1>9, <1>10, <1>11, PipeMoves, Zenon

\* null_bucket_, and the OPRF's Init.
LEMMA SizeSteps ==
  ASSUME Counted, TypeOK, MainInv, PipeInv, NEW p \in Party, PrepSize(p)
  PROVE  PipeOf(p)' /\ Grows /\ link'[Other(p)] = link[Other(p)] /\ got'[Other(p)] = got[Other(p)]
<1> DEFINE q == Other(p)
           r == Runner(p, "prep")
           own == link[p]["read"]
           s == link[q]["read"]
           g == got[p]["read"]
           null == Msg(p, "read").size = 0 \/ Bucket(p, r.b) = {}
           m == Note("vole", r.b)
           S == IF null THEN {} ELSE {"read"}
           place == IF null THEN "push" ELSE "vole"
           n == [r EXCEPT !.null = null]
<1>0. /\ inp' = inp /\ cfg' = cfg /\ pc' = pc /\ pc[p] = "AsyncRun" /\ ThTypes /\ LinkTypes
      /\ Settled /\ Resume \in Nat /\ inp \in Inputs
  BY ThreadFrame, TypeParts, AsyncSettled, Zenon DEF Prep, TaskTypes
<1>1. History(p) /\ Threads(p) /\ th[p]["prep"].at = "size" /\ Arrived(p, "read")
  BY Zenon DEF PipeInv, PrepSize, InPipe
<1>2. /\ r.b \in 0 .. BucketNum - 1 /\ r.hits = {}
      /\ Len(own) > 0 /\ Note(own[Len(own)].at, own[Len(own)].b) = Note("size", r.b)
      /\ Len(own) \in Nat /\ r \in BucketRunner
  <2>1. Len(own) \in Nat /\ r \in BucketRunner
    BY <1>0, RunnerTypes, Names DEF LinkTypes
  <2> QED BY <1>1, <2>1, Zenon DEF Threads, PrepInStep, PrepNext
<1>3. null <=> Null(r.b)
  <2>1. Msg(p, "read").at = "size" /\ Msg(p, "read").b = r.b
        /\ Msg(p, "read").size = Cardinality(Bucket(q, r.b))
    BY <1>0, <1>1, PrepReceived, Zenon
  <2> QED BY <1>0, <2>1, NullKnown, Zenon
<1>4. m \in Message /\ m.at = "vole" /\ m.b = r.b
  <2>1. r.b \in Int
    BY <1>0, RunnerTypes, Names, Zenon
  <2> QED BY <2>1, Messages, Zenon DEF Place, TypeOK, Note
<1>5. n.b = r.b /\ n.hits = {} /\ (n.null <=> null)
  BY <1>2, Zenon DEF BucketRunner
<1>6. Exchange(p, {"read"}, S, m) /\ Move(p, "prep", place, n)
  BY Zenon DEF PrepSize
<1>7. (null => S = {} /\ place = "push") /\ (~null => S = {"read"} /\ place = "vole")
      /\ S \in SUBSET {"read"}
  BY Zenon
<1> HIDE DEF m, S, place, n, null
<1>8. /\ Grows /\ link'[q] = link[q] /\ got'[q] = got[q]
      /\ \A d \in Ctx \ {"read"} : link'[p][d] = link[p][d] /\ got'[p][d] = got[p][d]
      /\ IF S = {} THEN link'[p]["read"] = own ELSE Adds(p, "read", m)
      /\ got'[p]["read"] = g + 1
  <2>1. {"read"} \in SUBSET {"read"} /\ {"read"} # {} /\ "read" \in Ctx
    BY Names, Zenon
  <2>2. S # {} => m \in Message
    BY <1>4, Zenon
  <2>3. /\ Grows /\ link'[Other(p)] = link[Other(p)] /\ got'[Other(p)] = got[Other(p)]
        /\ \A d \in Ctx \ {"read"} : link'[p][d] = link[p][d] /\ got'[p][d] = got[p][d]
        /\ IF S = {} THEN link'[p]["read"] = link[p]["read"] ELSE Adds(p, "read", m)
        /\ IF {"read"} = {} THEN got'[p]["read"] = got[p]["read"]
           ELSE got'[p]["read"] = got[p]["read"] + 1 /\ Arrived(p, "read")
    BY <1>0, <1>6, <1>7, <2>1, <2>2, OnContext, Zenon
  <2> QED BY <2>1, <2>3, Zenon
<1>9. th'[p]["prep"].at = place /\ th'[p]["prep"].r = n
      /\ (\A u \in Thread \ {"prep"} : th'[p][u] = th[p][u])
  BY <1>0, <1>6, Moved, Names
<1>10. AfterRead(own, Len(own)) = (IF Null(r.b) THEN Note("size", r.b + 1) ELSE Note("vole", r.b))
  <2>1. own[Len(own)].at = "size" /\ own[Len(own)].b = r.b
    BY <1>2, NoteParts
  <2> QED BY <1>2, <2>1 DEF AfterRead
<1>11. AfterRead(s, g + 1) = (IF Null(r.b) THEN Note("size", r.b + 1) ELSE Note("vole", r.b))
  <2>1. Msg(p, "read").at = "size" /\ Msg(p, "read").b = r.b /\ s[g + 1] = Msg(p, "read")
        /\ g \in Nat
    BY <1>0, <1>1, PrepReceived, Arriving, Names, Zenon
  <2> QED BY <2>1 DEF AfterRead
<1>12. \A x, k : AfterRead(x, k)' = AfterRead(x, k)
  BY <1>0, <1>8, GrowsOnMain, SettledKept, Zenon
<1>13. AfterRead(link[q]["read"], got[p]["read"])' = AfterRead(s, g + 1)
  BY <1>8, <1>12, Zenon
<1>14. BucketNum' = BucketNum /\ \A b : Null(b)' <=> Null(b)
  BY <1>0, Fixed, Zenon
<1>15. Runner(p, "prep")' = n
  BY <1>9, Zenon DEF Runner
<1>16. ASSUME null
       PROVE  QuietOn(p, "run", "run") /\ PrepInStep(p)' /\ ReadScript(p)'
  <2>1. link'[p]["read"] = own /\ th'[p]["prep"].at = "push"
    BY <1>7, <1>8, <1>9, <1>16, Zenon
  <2>2. PrepNext(p)' = Note("size", r.b + 1)
    BY <1>5, <1>15, <2>1, Zenon DEF PrepNext, Note
  <2>3. AfterRead(link[p]["read"], Len(link[p]["read"]))' = Note("size", r.b + 1)
    BY <1>3, <1>10, <1>12, <1>16, <2>1, Zenon
  <2>4. PrepInStep(p)'
    BY <1>2, <1>3, <1>5, <1>11, <1>13, <1>14, <1>15, <1>16, <2>1, <2>2, <2>3 DEF PrepInStep
  <2>5. ReadScript(p)'
    <3>1. History(p)'
      BY <1>0, <1>1, <1>8, <2>1, GrowsOnMain, HistoryKept, Zenon DEF PipeContext, Ctx
    <3> QED BY <3>1, Zenon DEF History
  <2> QED BY <1>8, <1>9, <2>4, <2>5, Names, Zenon DEF QuietOn
<1>17. ASSUME ~null
       PROVE  PrepInStep(p)' /\ ReadScript(p)'
  <2>1. Adds(p, "read", m) /\ th'[p]["prep"].at = "vole"
    BY <1>7, <1>8, <1>9, <1>17, Zenon
  <2>2. PrepNext(p)' = Note("vole", r.b)
    BY <1>5, <1>15, <2>1, Zenon DEF PrepNext, Note
  <2>3. LET x == link'[p]["read"]
        IN  Note(x[Len(x)].at, x[Len(x)].b) = Note("vole", r.b) /\ Len(x) > 0
    BY <1>2, <1>4, <2>1 DEF Adds
  <2>4. PrepInStep(p)'
    BY <1>2, <1>3, <1>5, <1>11, <1>13, <1>14, <1>15, <1>17, <2>1, <2>2, <2>3, Zenon DEF PrepInStep, Note
  <2>5. ReadScript(p)'
    <3>1. Note(m.at, m.b) = AfterRead(own, Len(own))
      BY <1>3, <1>4, <1>10, <1>17, Zenon
    <3> QED BY <1>0, <1>1, <1>4, <1>8, <2>1, <3>1, ReadGrows, Zenon DEF History
  <2> QED BY <2>4, <2>5, Zenon
<1>18. PrepInStep(p)' /\ ReadScript(p)'
  BY <1>16, <1>17, Zenon
<1>19. QuietOn(p, "run", "run") /\ QuietOn(p, "inter", "inter")
  BY <1>8, <1>9, Names, Zenon DEF QuietOn
<1>20. place \in {"push", "vole"}
  BY <1>7, Zenon
<1>21. ThreadsRight(p)'
  BY <1>0, <1>1, <1>9, <1>14, <1>20, Zenon DEF Threads, ThreadsRight, Thread, Runner
<1>22. Queued(p, prepared[p], "prep", "run")' /\ Queued(p, oprf[p], "run", "inter")'
  <2>1. th'[p]["prep"].r.b = th[p]["prep"].r.b
    BY <1>5, <1>9, Zenon DEF Runner
  <2> QED BY <1>0, <1>1, <1>9, <1>20, <2>1, Stays, Names, Zenon DEF PrepSize
<1> QED BY <1>0, <1>8, <1>18, <1>19, <1>21, <1>22, PipeMoves, Zenon

\* The seed and the VOLE have come.
LEMMA VoleSteps ==
  ASSUME Counted, TypeOK, MainInv, PipeInv, NEW p \in Party, PrepVole(p)
  PROVE  PipeOf(p)' /\ Grows /\ link'[Other(p)] = link[Other(p)] /\ got'[Other(p)] = got[Other(p)]
<1> DEFINE q == Other(p)
           r == Runner(p, "prep")
           own == link[p]["read"]
           s == link[q]["read"]
           g == got[p]["read"]
<1>0. /\ inp' = inp /\ cfg' = cfg /\ pc' = pc /\ pc[p] = "AsyncRun" /\ ThTypes /\ LinkTypes
      /\ Settled /\ Resume \in Nat
  BY ThreadFrame, TypeParts, AsyncSettled, Zenon DEF Prep
<1>1. History(p) /\ Threads(p) /\ th[p]["prep"].at = "vole" /\ Arrived(p, "read")
  BY Zenon DEF PipeInv, PrepVole, InPipe, RecvOn, Exchange
<1>2. /\ r.b \in 0 .. BucketNum - 1 /\ r.hits = {} /\ (r.null <=> Null(r.b))
      /\ Len(own) > 0 /\ Note(own[Len(own)].at, own[Len(own)].b) = Note("vole", r.b)
  BY <1>1, Zenon DEF Threads, PrepInStep, PrepNext
<1>3. /\ Grows /\ link'[q] = link[q] /\ got'[q] = got[q]
      /\ \A d \in Ctx \ {"read"} : link'[p][d] = link[p][d] /\ got'[p][d] = got[p][d]
      /\ link'[p]["read"] = own /\ got'[p]["read"] = g + 1
  <2>1. Exchange(p, {"read"}, {}, <<>>)
    BY Zenon DEF PrepVole, RecvOn
  <2> QED BY <1>0, <2>1, OnContext, Names, Zenon
<1>4. th'[p]["prep"].at = "push" /\ th'[p]["prep"].r = r
      /\ (\A u \in Thread \ {"prep"} : th'[p][u] = th[p][u])
  <2>1. Move(p, "prep", "push", r)
    BY Zenon DEF PrepVole
  <2> QED BY <1>0, <2>1, Moved, Names
<1>5. AfterRead(own, Len(own)) = Note("size", r.b + 1)
  <2>1. own[Len(own)].at = "vole" /\ own[Len(own)].b = r.b
    BY <1>2, NoteParts
  <2> QED BY <1>2, <2>1 DEF AfterRead
<1>6. AfterRead(s, g + 1) = Note("size", r.b + 1)
  <2>1. Msg(p, "read").at = "vole" /\ Msg(p, "read").b = r.b /\ s[g + 1] = Msg(p, "read")
        /\ g \in Nat
    BY <1>0, <1>1, PrepReceived, Arriving, Names, Zenon
  <2> QED BY <2>1 DEF AfterRead
<1>7. \A x, k : AfterRead(x, k)' = AfterRead(x, k)
  BY <1>0, <1>3, GrowsOnMain, SettledKept, Zenon
<1>8. PrepInStep(p)'
  <2>1. /\ AfterRead(link[q]["read"], got[p]["read"])' = Note("size", r.b + 1)
        /\ AfterRead(link[p]["read"], Len(link[p]["read"]))' = Note("size", r.b + 1)
    BY <1>3, <1>5, <1>6, <1>7, Zenon
  <2>2. PrepNext(p)' = Note("size", r.b + 1)
    BY <1>4, Zenon DEF PrepNext, Runner, Note
  <2>3. BucketNum' = BucketNum /\ \A b : Null(b)' <=> Null(b)
    BY <1>0, Fixed, Zenon
  <2>4. Runner(p, "prep")' = r
    BY <1>4, Zenon DEF Runner
  <2> QED BY <1>2, <1>4, <2>1, <2>2, <2>3, <2>4, Zenon DEF PrepInStep
<1>9. ReadScript(p)'
  <2>1. History(p)'
    BY <1>0, <1>1, <1>3, GrowsOnMain, HistoryKept, Zenon DEF PipeContext, Ctx
  <2> QED BY <2>1, Zenon DEF History
<1>10. QuietOn(p, "run", "run") /\ QuietOn(p, "inter", "inter")
  BY <1>3, <1>4, Names, Zenon DEF QuietOn
<1>11. ThreadsRight(p)'
  BY <1>0, <1>1, <1>4, Fixed, Zenon DEF Threads, ThreadsRight, Thread, Runner
<1>12. Queued(p, prepared[p], "prep", "run")' /\ Queued(p, oprf[p], "run", "inter")'
  <2>1. th'[p]["prep"].r.b = th[p]["prep"].r.b
    BY <1>4, Zenon DEF Runner
  <2> QED BY <1>0, <1>1, <1>4, <2>1, Stays, Names, Zenon DEF PrepVole
<1> QED BY <1>0, <1>3, <1>8, <1>9, <1>10, <1>11, <1>12, PipeMoves, Zenon

\* A prepared bucket enters the queue.
LEMMA PushSteps ==
  ASSUME Counted, TypeOK, MainInv, PipeInv, NEW p \in Party, PrepPush(p)
  PROVE  PipeOf(p)' /\ Grows /\ link'[Other(p)] = link[Other(p)] /\ got'[Other(p)] = got[Other(p)]
<1> DEFINE r == Runner(p, "prep")
<1>0. /\ inp' = inp /\ cfg' = cfg /\ pc' = pc /\ pc[p] = "AsyncRun" /\ ThTypes /\ LinkTypes
      /\ Settled /\ BucketNum \in Nat /\ QueueTypes
  BY ThreadFrame, TypeParts, AsyncSettled, Lists, Zenon DEF Prep, TaskTypes
<1>1. History(p) /\ Threads(p) /\ th[p]["prep"].at = "push"
  BY Zenon DEF PipeInv, PrepPush, InPipe
<1>2. /\ r.b \in 0 .. BucketNum - 1 /\ r.hits = {} /\ (r.null <=> Null(r.b))
      /\ AfterRead(link[Other(p)]["read"], got[p]["read"]) = Note("size", r.b + 1)
      /\ AfterRead(link[p]["read"], Len(link[p]["read"])) = Note("size", r.b + 1)
  BY <1>1, Zenon DEF Threads, PrepInStep, PrepNext
<1>3. Grows /\ link' = link /\ got' = got
  BY <1>0, NoContext, Zenon DEF PrepPush
<1>4. /\ th'[p]["prep"].at = (IF r.b + 1 >= BucketNum THEN "done" ELSE "load")
      /\ th'[p]["prep"].r.b = r.b + 1 /\ th'[p]["prep"].r.hits = {}
      /\ \A u \in Thread \ {"prep"} : th'[p][u] = th[p][u]
  <2>1. NextRunner(p, "prep", "load") /\ "prep" \in Thread
    BY Names, Zenon DEF PrepPush
  <2> QED BY <1>0, <2>1, Turned, Zenon
<1>5. BucketNum' = BucketNum
  BY <1>0, Fixed, Zenon
<1>6. \A x, k : AfterRead(x, k)' = AfterRead(x, k)
  BY <1>0, <1>3, GrowsOnMain, SettledKept, Zenon
<1>7. PrepInStep(p)'
  <2> SUFFICES ASSUME th'[p]["prep"].at \in {"load", "size", "vole", "push"} PROVE PrepInStep(p)'
    BY Zenon DEF PrepInStep
  <2>1. th'[p]["prep"].at = "load" /\ r.b + 1 < BucketNum
    BY <1>0, <1>2, <1>4
  <2>2. PrepNext(p)' = Note("size", r.b + 1)
    BY <1>4, <2>1, Zenon DEF PrepNext, Runner, Note
  <2>3. /\ AfterRead(link[Other(p)]["read"], got[p]["read"])' = Note("size", r.b + 1)
        /\ AfterRead(link[p]["read"], Len(link[p]["read"]))' = Note("size", r.b + 1)
    BY <1>2, <1>3, <1>6, Zenon
  <2>4. Runner(p, "prep")'.b \in 0 .. BucketNum - 1 /\ Runner(p, "prep")'.hits = {}
    BY <1>0, <1>2, <1>4, <2>1 DEF Runner
  <2> QED BY <1>5, <2>1, <2>2, <2>3, <2>4, Zenon DEF PrepInStep
<1>8. ReadScript(p)'
  <2>1. History(p)'
    BY <1>0, <1>1, <1>3, GrowsOnMain, HistoryKept, Zenon
  <2> QED BY <2>1, Zenon DEF History
<1>9. QuietOn(p, "run", "run") /\ QuietOn(p, "inter", "inter")
  BY <1>3, <1>4, Names, Zenon DEF QuietOn
<1>10. ThreadsRight(p)'
  BY <1>0, <1>1, <1>2, <1>4, <1>5 DEF Threads, ThreadsRight, Thread, Runner
<1>11. Queued(p, prepared[p], "prep", "run")'
  <2>1. Queued(p, prepared[p], "prep", "run") /\ prepared[p] \in Seq(BucketRunner)
    BY <1>0, <1>1, Zenon DEF Threads, QueueTypes
  <2>2. prepared'[p] = Append(prepared[p], r)
    BY <1>0, Zenon DEF PrepPush, QueueTypes
  <2>3. Runner(p, "prep").b' = r.b + 1 /\ th'[p]["run"] = th[p]["run"]
    BY <1>4, Names, Zenon DEF Runner
  <2>4. \A a : a = Append(prepared[p], r) => Queued(p, a, "prep", "run")'
    BY <1>0, <1>1, <1>2, <2>1, <2>3, QueuePush, Names, Zenon
  <2> QED BY <2>2, <2>4, Zenon
<1>12. Queued(p, oprf[p], "run", "inter")'
  <2>1. th'[p]["run"] = th[p]["run"] /\ th'[p]["inter"] = th[p]["inter"] /\ oprf' = oprf
    BY <1>4, Names, Zenon DEF PrepPush
  <2>2. \A q : Queued(p, q, "run", "inter") => Queued(p, q, "run", "inter")'
    BY <1>0, <2>1, QueuedKept, Names, Zenon
  <2> QED BY <1>1, <2>1, <2>2, Zenon DEF Threads
<1> QED BY <1>0, <1>3, <1>7, <1>8, <1>9, <1>10, <1>11, <1>12, PipeMoves, Zenon

LEMMA BeforeInt ==
  ASSUME LinkTypes, Resume \in Nat, NEW p \in Party, NEW c \in Ctx, NEW k \in 0 .. Len(link[p][c])
  PROVE  Before(link[p][c], k + 1) \in Int
<1> DEFINE s == link[p][c]
<1>1. s \in Seq(Message) /\ Len(s) \in Nat
  BY DEF LinkTypes
<1>2. \A m \in Message : m.b \in Int
  BY Zenon DEF Message
<1>3. CASE k = 0
  BY <1>3 DEF Before
<1>4. CASE k # 0
  <2>1. k \in 1 .. Len(s) /\ (k + 1) - 1 = k /\ k + 1 # 1
    BY <1>1, <1>4
  <2>2. s[k] \in Message
    BY <1>1, <2>1, InSeq
  <2> QED BY <1>2, <2>1, <2>2, Zenon DEF Before
<1> QED BY <1>3, <1>4, Zenon

\* The run thread takes a bucket, and the receiver sends.
LEMMA RunPopSteps ==
  ASSUME Counted, TypeOK, MainInv, PipeInv, NEW p \in Party, RunPop(p)
  PROVE  PipeOf(p)' /\ Grows /\ link'[Other(p)] = link[Other(p)] /\ got'[Other(p)] = got[Other(p)]
<1> DEFINE q == Other(p)
           r == Head(prepared[p])
           own == link[p]["run"]
           s == link[q]["run"]
           g == got[p]["run"]
           m == Note("recv", r.b)
           place == IF r.null \/ p = Receiver THEN "push" ELSE "recv"
<1>0. /\ inp' = inp /\ cfg' = cfg /\ pc' = pc /\ pc[p] = "AsyncRun" /\ ThTypes /\ LinkTypes
      /\ Settled /\ Resume \in Nat /\ BucketNum \in Nat /\ QueueTypes /\ inp \in Inputs /\ q \in Party
  BY ThreadFrame, TypeParts, AsyncSettled, Lists, Parties, Zenon DEF RunTh, TaskTypes
<1>1. History(p) /\ Threads(p) /\ th[p]["run"].at = "pop" /\ prepared[p] # <<>>
      /\ prepared[p] \in Seq(BucketRunner)
  BY <1>0, Zenon DEF PipeInv, RunPop, InPipe, QueueTypes
<1>2. /\ IF p = Receiver THEN Due(own, Len(own) + 1, Runner(p, "run").b)
         ELSE Due(s, g + 1, Runner(p, "run").b)
  BY <1>1, Zenon DEF Threads, RunInStep, UpTo
<1>3. place \in {"push", "recv"} /\ Move(p, "run", place, r)
  BY Zenon DEF RunPop
<1> HIDE DEF place
<1>4. /\ th'[p]["run"].at = place /\ th'[p]["run"].r = r
      /\ \A u \in Thread \ {"run"} : th'[p][u] = th[p][u]
  BY <1>0, <1>3, Moved, Names
<1>5. /\ r.b = Runner(p, "run").b /\ r.b \in 0 .. BucketNum - 1
      /\ (r.null <=> Null(r.b)) /\ r.hits = {}
      /\ \A a : a = Tail(prepared[p]) => Queued(p, a, "prep", "run")'
  <2>1. th'[p]["prep"] = th[p]["prep"] /\ Queued(p, prepared[p], "prep", "run")
    BY <1>1, <1>4, Names, Zenon DEF Threads
  <2> QED BY <1>0, <1>1, <1>3, <1>4, <2>1, QueuePop, Names
<1>6. m \in Message /\ m.at = "recv" /\ m.b = r.b
  <2>1. r.b \in Int
    BY <1>0, <1>5
  <2> QED BY <2>1, Messages, Zenon DEF Place, TypeOK, Note
<1>7. IF r.null \/ p # Receiver THEN UNCHANGED linkVars ELSE Exchange(p, {}, {"run"}, m)
  BY Zenon DEF RunPop, SendOn
<1> HIDE DEF m
<1>8. /\ Grows /\ link'[q] = link[q] /\ got'[q] = got[q]
      /\ \A d \in Ctx \ {"run"} : link'[p][d] = link[p][d] /\ got'[p][d] = got[p][d]
      /\ got'[p]["run"] = g
      /\ IF r.null \/ p # Receiver THEN link'[p]["run"] = own ELSE Adds(p, "run", m)
  <2>1. CASE r.null \/ p # Receiver
    BY <1>0, <1>7, <2>1, NoContext, Zenon
  <2>2. CASE ~(r.null \/ p # Receiver)
    BY <1>0, <1>6, <1>7, <2>2, OnContext, Names, Zenon
  <2> QED BY <2>1, <2>2, Zenon
<1>9. \A x, k, b : Due(x, k, b)' <=> Due(x, k, b)
  BY <1>0, <1>8, GrowsOnMain, SettledKept, Zenon
<1>10. BucketNum' = BucketNum /\ \A b : Null(b)' <=> Null(b)
  BY <1>0, Fixed, Zenon
<1>11. ASSUME ~(r.null \/ p # Receiver)
       PROVE  Chain(own)' /\ Due(link'[p]["run"], Len(link'[p]["run"]) + 1, r.b + 1)
  <2>1. Chain(own) /\ Adds(p, "run", m) /\ Due(own, Len(own) + 1, m.b) /\ ~Null(m.b)
        /\ m.b \in 0 .. BucketNum - 1
    BY <1>1, <1>2, <1>5, <1>6, <1>8, <1>11, Zenon DEF History
  <2>2. Chain(own)' /\ Due(link'[p]["run"], Len(link'[p]["run"]) + 1, m.b + 1)
    BY <1>0, <1>6, <1>8, <2>1, ChainGrows, Names, Zenon
  <2> QED BY <1>6, <2>2, Zenon
<1>12. ASSUME r.null \/ p # Receiver PROVE Chain(own)'
  <2>1. History(p)'
    BY <1>0, <1>1, <1>8, <1>12, GrowsOnMain, HistoryKept, Zenon DEF PipeContext, Ctx
  <2> QED BY <2>1, Zenon DEF History
<1>13. ASSUME r.null
       PROVE  IF p = Receiver THEN Due(own, Len(own) + 1, r.b + 1) ELSE Due(s, g + 1, r.b + 1)
  <2>1. r.b \in Nat /\ Null(r.b)
    BY <1>0, <1>5, <1>13
  <2>2. Len(own) \in 0 .. Len(own) /\ g \in 0 .. Len(s)
    BY <1>0, Names, Parties DEF LinkTypes
  <2>3. Before(own, Len(own) + 1) \in Int /\ Before(s, g + 1) \in Int
    BY <1>0, <2>2, BeforeInt, Names, Zenon
  <2> QED BY <1>0, <1>2, <1>5, <2>1, <2>3, DueSkip, Zenon
<1>14. Runner(p, "run")' = r
  BY <1>4, Zenon DEF Runner
<1>15. IF p = Receiver
       THEN Due(link[p]["run"], Len(link[p]["run"]) + 1, UpTo(p, "run", {"pop"}))'
       ELSE Due(link[q]["run"], got[p]["run"] + 1, UpTo(p, "run", {"pop", "recv"}))'
  <2>1. CASE p = Receiver
    <3>1. UpTo(p, "run", {"pop"})' = r.b + 1
      BY <1>3, <1>4, <1>14, Zenon DEF UpTo
    <3>2. Due(link'[p]["run"], Len(link'[p]["run"]) + 1, r.b + 1)
      <4>1. CASE r.null
        BY <1>8, <1>13, <2>1, <4>1, Zenon
      <4>2. CASE ~r.null
        BY <1>11, <2>1, <4>2, Zenon
      <4> QED BY <4>1, <4>2, Zenon
    <3> QED BY <1>9, <2>1, <3>1, <3>2, Zenon
  <2>2. CASE p # Receiver
    <3>1. UpTo(p, "run", {"pop", "recv"})' = IF r.null THEN r.b + 1 ELSE r.b
      BY <1>4, <1>14, <2>2, Zenon DEF UpTo, place
    <3>2. Due(s, g + 1, IF r.null THEN r.b + 1 ELSE r.b)
      BY <1>2, <1>5, <1>13, <2>2, Zenon
    <3> QED BY <1>8, <1>9, <2>2, <3>1, <3>2, Zenon
  <2> QED BY <2>1, <2>2, Zenon
<1>16. RunInStep(p)'
  <2>1. th'[p]["run"].at = "recv" => p # Receiver /\ ~r.null
    BY <1>4, Zenon DEF place
  <2> QED BY <1>3, <1>4, <1>5, <1>10, <1>14, <1>15, <2>1, Zenon DEF RunInStep
<1>17. QuietOn(p, "prep", "read") /\ QuietOn(p, "inter", "inter")
  BY <1>4, <1>8, Names, Zenon DEF QuietOn
<1>18. ThreadsRight(p)'
  BY <1>1, <1>3, <1>4, <1>10, Zenon DEF Threads, ThreadsRight, Thread, Runner
<1>19. Queued(p, prepared[p], "prep", "run")'
  <2>1. prepared'[p] = Tail(prepared[p])
    BY <1>0, Zenon DEF RunPop, QueueTypes
  <2> QED BY <1>5, <2>1, Zenon
<1>20. Queued(p, oprf[p], "run", "inter")'
  <2>1. /\ th'[p]["run"].at # "threw" /\ th[p]["run"].at # "threw"
        /\ Runner(p, "run").b' = Runner(p, "run").b
        /\ th'[p]["inter"] = th[p]["inter"] /\ oprf' = oprf
        /\ UpTo(p, "inter", {"pop", "done"})' = UpTo(p, "inter", {"pop", "done"})
    BY <1>1, <1>3, <1>4, <1>5, <1>14, Names, Zenon DEF RunPop, UpTo, Runner
  <2>2. \A x : Queued(p, x, "run", "inter") => Queued(p, x, "run", "inter")'
    BY <1>0, <2>1, QueuedAs, Names, Zenon
  <2> QED BY <1>1, <2>1, <2>2, Zenon DEF Threads
<1> QED BY <1>0, <1>8, <1>11, <1>12, <1>16, <1>17, <1>18, <1>19, <1>20, PipeMoves, Zenon

\* The sender's run thread has the receiver's system.
LEMMA RunOprfSteps ==
  ASSUME Counted, TypeOK, MainInv, PipeInv, NEW p \in Party, RunOprf(p)
  PROVE  PipeOf(p)' /\ Grows /\ link'[Other(p)] = link[Other(p)] /\ got'[Other(p)] = got[Other(p)]
<1> DEFINE q == Other(p)
           r == Runner(p, "run")
           s == link[q]["run"]
           g == got[p]["run"]
<1>0. /\ inp' = inp /\ cfg' = cfg /\ pc' = pc /\ pc[p] = "AsyncRun" /\ ThTypes /\ LinkTypes
      /\ Settled
  BY ThreadFrame, TypeParts, AsyncSettled, Zenon DEF RunTh
<1>1. /\ History(p) /\ Threads(p) /\ InPipe(p, "run", "recv") /\ th[p]["run"].at = "recv"
      /\ Exchange(p, {"run"}, {}, <<>>) /\ Arrived(p, "run") /\ Move(p, "run", "push", r)
  BY Zenon DEF PipeInv, RunOprf, InPipe, RecvOn, Exchange
<1>2. /\ r.b \in 0 .. BucketNum - 1 /\ r.hits = {} /\ (r.null <=> Null(r.b)) /\ p # Receiver
  BY <1>1, Zenon DEF Threads, RunInStep
<1>3. /\ Grows /\ link'[q] = link[q] /\ got'[q] = got[q]
      /\ \A d \in Ctx \ {"run"} : link'[p][d] = link[p][d] /\ got'[p][d] = got[p][d]
      /\ link'[p]["run"] = link[p]["run"] /\ got'[p]["run"] = g + 1
  BY <1>0, <1>1, OnContext, Names, Zenon
<1>4. th'[p]["run"].at = "push" /\ th'[p]["run"].r = r
      /\ \A u \in Thread \ {"run"} : th'[p][u] = th[p][u]
  BY <1>0, <1>1, Moved, Names
<1>5. Runner(p, "run")' = r /\ UpTo(p, "run", {"pop", "recv"})' = r.b + 1
  BY <1>4, Zenon DEF Runner, UpTo
<1>6. Due(link[q]["run"], got[p]["run"] + 1, UpTo(p, "run", {"pop", "recv"}))'
  <2>1. Due(s, g + 2, r.b + 1) /\ (g + 1) + 1 = g + 2
    BY <1>0, <1>1, RunReceived, Names DEF LinkTypes
  <2>2. \A x, k, b : Due(x, k, b)' <=> Due(x, k, b)
    BY <1>0, <1>3, GrowsOnMain, SettledKept, Zenon
  <2> QED BY <1>3, <1>5, <2>1, <2>2, Zenon
<1>7. RunInStep(p)'
  <2>1. BucketNum' = BucketNum /\ \A b : Null(b)' <=> Null(b)
    BY <1>0, Fixed, Zenon
  <2> QED BY <1>2, <1>4, <1>5, <1>6, <2>1, Zenon DEF RunInStep
<1>8. Chain(link[p]["run"])'
  <2>1. History(p)'
    BY <1>0, <1>1, <1>3, GrowsOnMain, HistoryKept, Zenon DEF PipeContext, Ctx
  <2> QED BY <2>1, Zenon DEF History
<1>9. QuietOn(p, "prep", "read") /\ QuietOn(p, "inter", "inter")
  BY <1>3, <1>4, Names, Zenon DEF QuietOn
<1>10. ThreadsRight(p)'
  BY <1>0, <1>1, <1>4, Fixed, Zenon DEF Threads, ThreadsRight, Thread, Runner
<1>11. Queued(p, prepared[p], "prep", "run")' /\ Queued(p, oprf[p], "run", "inter")'
  <2>1. th'[p]["run"].r.b = th[p]["run"].r.b
    BY <1>4, Zenon DEF Runner
  <2> QED BY <1>0, <1>1, <1>4, <2>1, Stays, Names, Zenon DEF RunOprf
<1> QED BY <1>0, <1>3, <1>7, <1>8, <1>9, <1>10, <1>11, PipeMoves, Zenon

\* A bucket goes on to the intersection thread.
LEMMA RunPushSteps ==
  ASSUME Counted, TypeOK, MainInv, PipeInv, NEW p \in Party, RunPush(p)
  PROVE  PipeOf(p)' /\ Grows /\ link'[Other(p)] = link[Other(p)] /\ got'[Other(p)] = got[Other(p)]
<1> DEFINE q == Other(p)
           r == Runner(p, "run")
<1>0. /\ inp' = inp /\ cfg' = cfg /\ pc' = pc /\ pc[p] = "AsyncRun" /\ ThTypes /\ LinkTypes
      /\ Settled /\ BucketNum \in Nat /\ QueueTypes
  BY ThreadFrame, TypeParts, AsyncSettled, Lists, Zenon DEF RunTh, TaskTypes
<1>1. History(p) /\ Threads(p) /\ th[p]["run"].at = "push"
  BY Zenon DEF PipeInv, RunPush, InPipe
<1>2. /\ r.b \in 0 .. BucketNum - 1 /\ r.hits = {} /\ (r.null <=> Null(r.b))
      /\ IF p = Receiver THEN Due(link[p]["run"], Len(link[p]["run"]) + 1, r.b + 1)
         ELSE Due(link[q]["run"], got[p]["run"] + 1, r.b + 1)
  BY <1>1, Zenon DEF Threads, RunInStep, UpTo
<1>3. Grows /\ link' = link /\ got' = got
  BY <1>0, NoContext, Zenon DEF RunPush
<1>4. /\ th'[p]["run"].at = (IF r.b + 1 >= BucketNum THEN "done" ELSE "pop")
      /\ th'[p]["run"].r.b = r.b + 1
      /\ \A u \in Thread \ {"run"} : th'[p][u] = th[p][u]
  <2>1. NextRunner(p, "run", "pop") /\ "run" \in Thread
    BY Names, Zenon DEF RunPush
  <2> QED BY <1>0, <2>1, Turned
<1>5. BucketNum' = BucketNum
  BY <1>0, Fixed, Zenon
<1>6. RunInStep(p)'
  <2> SUFFICES ASSUME th'[p]["run"].at \in {"pop", "recv", "push"} PROVE RunInStep(p)'
    BY Zenon DEF RunInStep
  <2>1. th'[p]["run"].at = "pop" /\ r.b + 1 \in 0 .. BucketNum - 1
    BY <1>0, <1>2, <1>4
  <2>2. /\ UpTo(p, "run", {"pop", "recv"})' = r.b + 1 /\ UpTo(p, "run", {"pop"})' = r.b + 1
        /\ Runner(p, "run")'.b = r.b + 1
    BY <1>4, <2>1, Zenon DEF UpTo, Runner
  <2>3. \A x, k, b : Due(x, k, b)' <=> Due(x, k, b)
    BY <1>0, <1>3, GrowsOnMain, SettledKept, Zenon
  <2>4. IF p = Receiver
        THEN Due(link[p]["run"], Len(link[p]["run"]) + 1, UpTo(p, "run", {"pop"}))'
        ELSE Due(link[q]["run"], got[p]["run"] + 1, UpTo(p, "run", {"pop", "recv"}))'
    BY <1>2, <1>3, <2>2, <2>3, Zenon
  <2> QED BY <1>5, <2>1, <2>2, <2>4, Zenon DEF RunInStep
<1>7. Chain(link[p]["run"])'
  <2>1. History(p)'
    BY <1>0, <1>1, <1>3, GrowsOnMain, HistoryKept, Zenon
  <2> QED BY <2>1, Zenon DEF History
<1>8. QuietOn(p, "prep", "read") /\ QuietOn(p, "inter", "inter")
  BY <1>3, <1>4, Names, Zenon DEF QuietOn
<1>9. ThreadsRight(p)'
  BY <1>0, <1>1, <1>2, <1>4, <1>5, Zenon DEF Threads, ThreadsRight, Thread, Runner
<1>10. Queued(p, prepared[p], "prep", "run")'
  <2>1. /\ th'[p]["run"].at # "threw" /\ th[p]["run"].at # "threw"
        /\ UpTo(p, "run", {"pop", "done"})' = UpTo(p, "run", {"pop", "done"})
        /\ th'[p]["prep"] = th[p]["prep"] /\ prepared' = prepared
        /\ Runner(p, "prep").b' = Runner(p, "prep").b
    BY <1>1, <1>4, Names, Zenon DEF RunPush, UpTo, Runner
  <2>2. \A x : Queued(p, x, "prep", "run") => Queued(p, x, "prep", "run")'
    BY <1>0, <2>1, QueuedAs, Names, Zenon
  <2> QED BY <1>1, <2>1, <2>2, Zenon DEF Threads
<1>11. Queued(p, oprf[p], "run", "inter")'
  <2>1. Queued(p, oprf[p], "run", "inter") /\ oprf[p] \in Seq(BucketRunner)
    BY <1>0, <1>1, Zenon DEF Threads, QueueTypes
  <2>2. oprf'[p] = Append(oprf[p], r)
    BY <1>0, Zenon DEF RunPush, QueueTypes
  <2>3. Runner(p, "run").b' = r.b + 1 /\ th'[p]["inter"] = th[p]["inter"]
    BY <1>4, Names, Zenon DEF Runner
  <2>4. \A a : a = Append(oprf[p], r) => Queued(p, a, "run", "inter")'
    BY <1>0, <1>1, <1>2, <2>1, <2>3, QueuePush, Names, Zenon
  <2> QED BY <2>2, <2>4, Zenon
<1> QED BY <1>0, <1>3, <1>6, <1>7, <1>8, <1>9, <1>10, <1>11, PipeMoves, Zenon

\* What a party has to make of the messages of the intersection threads.
InterDue(p, b, c) ==
  /\ GetsResult(p) => Due(link[Other(p)]["inter"], got[p]["inter"] + 1, b)
  /\ p = Receiver /\ cfg.broadcast => Due(link[p]["inter"], Len(link[p]["inter"]) + 1, b)
  /\ p # Receiver => Due(link[p]["inter"], Len(link[p]["inter"]) + 1, c)

LEMMA InterDueSkip ==
  ASSUME Counted, TypeOK, Resume \in Nat, NEW p \in Party, NEW b \in Nat, Null(b), InterDue(p, b, b)
  PROVE  InterDue(p, b + 1, b + 1)
<1> DEFINE q == Other(p)
           own == link[p]["inter"]
           s == link[q]["inter"]
           g == got[p]["inter"]
<1>0. LinkTypes /\ q \in Party /\ inp \in Inputs
  BY Parties, Zenon DEF TypeOK, ControlTypes
<1>1. Len(own) \in 0 .. Len(own) /\ g \in 0 .. Len(s)
  BY <1>0, Names DEF LinkTypes
<1>2. Before(own, Len(own) + 1) \in Int /\ Before(s, g + 1) \in Int
  BY <1>0, <1>1, BeforeInt, Names, Zenon
<1>3. (Due(own, Len(own) + 1, b) => Due(own, Len(own) + 1, b + 1))
      /\ (Due(s, g + 1, b) => Due(s, g + 1, b + 1))
  BY <1>0, <1>2, DueSkip, Zenon
<1> QED BY <1>3, Zenon DEF InterDue

\* InterInStep of the next state, from the parts that a step may change.
LEMMA InterHolds ==
  ASSUME inp' = inp, cfg' = cfg, NEW p \in Party, NEW r, Runner(p, "inter")' = r,
         \A x, k, b : Due(x, k, b)' <=> Due(x, k, b),
         NEW b, NEW c, UpTo(p, "inter", {"pop", "recv"})' = b, UpTo(p, "inter", {"pop"})' = c,
         r.b \in 0 .. BucketNum - 1,
         GetsResult(p) => Due(link'[Other(p)]["inter"], got'[p]["inter"] + 1, b),
         p = Receiver /\ cfg.broadcast => Due(link'[p]["inter"], Len(link'[p]["inter"]) + 1, b),
         p # Receiver => Due(link'[p]["inter"], Len(link'[p]["inter"]) + 1, c),
         th'[p]["inter"].at = "recv" => GetsResult(p) /\ ~Null(r.b),
         th'[p]["inter"].at \in {"post", "count"} =>
           r.hits = IF GetsResult(p) THEN Expected(p, r.b) ELSE {}
  PROVE  InterInStep(p)'
<1>1. BucketNum' = BucketNum /\ (GetsResult(p)' <=> GetsResult(p))
      /\ (\A x : Null(x)' <=> Null(x)) /\ \A x : Expected(p, x)' = Expected(p, x)
  BY Fixed, Zenon
<1>2. /\ GetsResult(p) =>
           Due(link[Other(p)]["inter"], got[p]["inter"] + 1, UpTo(p, "inter", {"pop", "recv"}))'
      /\ p = Receiver /\ cfg.broadcast =>
           Due(link[p]["inter"], Len(link[p]["inter"]) + 1, UpTo(p, "inter", {"pop", "recv"}))'
      /\ p # Receiver =>
           Due(link[p]["inter"], Len(link[p]["inter"]) + 1, UpTo(p, "inter", {"pop"}))'
  BY Zenon
<1> QED BY <1>1, <1>2, Zenon DEF InterInStep

\* The intersection thread takes a bucket, and the sender sends its masks.
LEMMA InterPopSteps ==
  ASSUME Counted, TypeOK, MainInv, PipeInv, NEW p \in Party, InterPop(p)
  PROVE  PipeOf(p)' /\ Grows /\ link'[Other(p)] = link[Other(p)] /\ got'[Other(p)] = got[Other(p)]
<1> DEFINE q == Other(p)
           r == Head(oprf[p])
           own == link[p]["inter"]
           m == Telling(p, "recv", r.b, Bucket(p, r.b))
           S == IF ~r.null /\ p # Receiver THEN {"inter"} ELSE {}
           place == IF r.null \/ (p # Receiver /\ ~cfg.broadcast) THEN "post" ELSE "recv"
<1>0. /\ inp' = inp /\ cfg' = cfg /\ pc' = pc /\ pc[p] = "AsyncRun" /\ ThTypes /\ LinkTypes
      /\ Settled /\ Resume \in Nat /\ BucketNum \in Nat /\ QueueTypes /\ inp \in Inputs
  BY ThreadFrame, TypeParts, AsyncSettled, Lists, Zenon DEF Inter, TaskTypes
<1>1. History(p) /\ Threads(p) /\ th[p]["inter"].at = "pop" /\ oprf[p] # <<>>
      /\ oprf[p] \in Seq(BucketRunner)
  BY <1>0, Zenon DEF PipeInv, InterPop, InPipe, QueueTypes
<1>2. InterDue(p, Runner(p, "inter").b, Runner(p, "inter").b)
  BY <1>1, Zenon DEF Threads, InterInStep, UpTo, InterDue
<1>3. place \in {"post", "recv"} /\ Move(p, "inter", place, r) /\ Exchange(p, {}, S, m)
  BY Zenon DEF InterPop
<1>4. S \in SUBSET {"inter"} /\ (S # {} <=> ~r.null /\ p # Receiver)
  BY Zenon
<1> HIDE DEF place, S
<1>5. /\ th'[p]["inter"].at = place /\ th'[p]["inter"].r = r
      /\ \A u \in Thread \ {"inter"} : th'[p][u] = th[p][u]
  BY <1>0, <1>3, Moved, Names
<1>6. /\ r.b = Runner(p, "inter").b /\ r.b \in 0 .. BucketNum - 1
      /\ (r.null <=> Null(r.b)) /\ r.hits = {}
      /\ \A a : a = Tail(oprf[p]) => Queued(p, a, "run", "inter")'
  <2>1. th'[p]["run"] = th[p]["run"] /\ Queued(p, oprf[p], "run", "inter")
    BY <1>1, <1>5, Names, Zenon DEF Threads
  <2> QED BY <1>0, <1>1, <1>3, <1>5, <2>1, QueuePop, Names
<1>7. m \in Message /\ m.at = "recv" /\ m.b = r.b /\ m.told = Told(p, Bucket(p, r.b))
  <2>1. r.b \in Int /\ Bucket(p, r.b) \in SUBSET Items(p)
    BY <1>0, <1>6, Lists
  <2> QED BY <2>1, Messages, Zenon DEF Place, TypeOK, Telling
<1> HIDE DEF m
<1>8. /\ Grows /\ link'[q] = link[q] /\ got'[q] = got[q]
      /\ \A d \in Ctx \ {"inter"} : link'[p][d] = link[p][d] /\ got'[p][d] = got[p][d]
      /\ IF S = {} THEN link'[p]["inter"] = own ELSE Adds(p, "inter", m)
      /\ got'[p]["inter"] = got[p]["inter"]
  BY <1>0, <1>3, <1>4, <1>7, OnContext, Names, Zenon
<1>9. \A x, k, b : Due(x, k, b)' <=> Due(x, k, b)
  BY <1>0, <1>8, GrowsOnMain, SettledKept, Zenon
<1>10. InterDue(p, r.b, r.b)
  BY <1>2, <1>6, Zenon
<1>11. ASSUME S # {}
       PROVE  /\ Chain(own)' /\ InterScript(p)'
              /\ Due(link'[p]["inter"], Len(link'[p]["inter"]) + 1, r.b + 1)
  <2>1. /\ Chain(own) /\ Adds(p, "inter", m) /\ ~Null(m.b) /\ m.b \in 0 .. BucketNum - 1
        /\ InterScript(p)
    BY <1>1, <1>4, <1>6, <1>7, <1>8, <1>11, Zenon DEF History
  <2>2. Due(own, Len(own) + 1, m.b)
    BY <1>4, <1>7, <1>10, <1>11, Zenon DEF InterDue
  <2>3. m.told = Told(p, Masked(p, m.b))
    BY <1>4, <1>7, <1>11, Zenon DEF Masked
  <2>4. Chain(own)' /\ Due(link'[p]["inter"], Len(link'[p]["inter"]) + 1, m.b + 1)
    BY <1>0, <1>7, <1>8, <2>1, <2>2, ChainGrows, Names, Zenon
  <2>5. InterScript(p)'
    BY <1>0, <2>1, <2>3, InterGrows, Zenon
  <2> QED BY <1>7, <2>4, <2>5, Zenon
<1>12. ASSUME S = {} PROVE Chain(own)' /\ InterScript(p)'
  <2>1. History(p)'
    BY <1>0, <1>1, <1>8, <1>12, GrowsOnMain, HistoryKept, Zenon DEF PipeContext, Ctx
  <2> QED BY <2>1, Zenon DEF History
<1>13. Runner(p, "inter")' = r
  BY <1>5, Zenon DEF Runner
<1>14. /\ UpTo(p, "inter", {"pop", "recv"})' = (IF place = "recv" THEN r.b ELSE r.b + 1)
       /\ UpTo(p, "inter", {"pop"})' = r.b + 1
  BY <1>3, <1>5, <1>13, Zenon DEF UpTo
<1>15. InterInStep(p)'
  <2>1. CASE r.null
    <3>1. InterDue(p, r.b + 1, r.b + 1) /\ Expected(p, r.b) = {}
      BY <1>0, <1>6, <1>10, <2>1, InterDueSkip, NullExpected
    <3>2. place = "post" /\ link'[p]["inter"] = own
      BY <1>4, <1>8, <2>1, Zenon DEF place
    <3>3. /\ GetsResult(p) => Due(link'[q]["inter"], got'[p]["inter"] + 1, r.b + 1)
          /\ p = Receiver /\ cfg.broadcast => Due(link'[p]["inter"], Len(link'[p]["inter"]) + 1, r.b + 1)
          /\ p # Receiver => Due(link'[p]["inter"], Len(link'[p]["inter"]) + 1, r.b + 1)
      BY <1>8, <3>1, <3>2, Zenon DEF InterDue
    <3>4. r.hits = IF GetsResult(p) THEN Expected(p, r.b) ELSE {}
      BY <1>6, <3>1, Zenon
    <3> HIDE DEF r, q
    <3> QED BY <1>0, <1>5, <1>6, <1>9, <1>13, <1>14, <3>2, <3>3, <3>4, InterHolds DEF q
  <2>2. CASE ~r.null
    <3>1. p # Receiver => Due(link'[p]["inter"], Len(link'[p]["inter"]) + 1, r.b + 1)
      BY <1>4, <1>11, <2>2, Zenon
    <3>2. p = Receiver /\ cfg.broadcast => Due(link'[p]["inter"], Len(link'[p]["inter"]) + 1, r.b)
      BY <1>4, <1>8, <1>10, Zenon DEF InterDue
    <3>3. GetsResult(p) => Due(link'[q]["inter"], got'[p]["inter"] + 1, r.b)
      BY <1>8, <1>10, Zenon DEF InterDue
    <3>4. place = IF GetsResult(p) THEN "recv" ELSE "post"
      BY <2>2, Zenon DEF place, GetsResult
    <3>5. p = Receiver => GetsResult(p)
      BY Zenon DEF GetsResult
    <3> HIDE DEF r, q
    <3>6. CASE GetsResult(p)
      BY <1>0, <1>5, <1>6, <1>9, <1>13, <1>14, <2>2, <3>1, <3>2, <3>3, <3>4, <3>6, InterHolds, Zenon DEF q
    <3>7. CASE ~GetsResult(p)
      BY <1>0, <1>5, <1>6, <1>9, <1>13, <1>14, <2>2, <3>1, <3>4, <3>5, <3>7, InterHolds DEF q
    <3> QED BY <3>6, <3>7, Zenon
  <2> QED BY <2>1, <2>2, Zenon
<1>16. QuietOn(p, "prep", "read") /\ QuietOn(p, "run", "run")
  BY <1>5, <1>8, Names, Zenon DEF QuietOn
<1>17. ThreadsRight(p)'
  BY <1>0, <1>1, <1>3, <1>5, Fixed, Zenon DEF Threads, ThreadsRight, Thread, Runner
<1>18. Queued(p, oprf[p], "run", "inter")'
  <2>1. oprf'[p] = Tail(oprf[p])
    BY <1>0, Zenon DEF InterPop, QueueTypes
  <2> QED BY <1>6, <2>1, Zenon
<1>19. Queued(p, prepared[p], "prep", "run")'
  <2>1. th'[p]["prep"] = th[p]["prep"] /\ th'[p]["run"] = th[p]["run"] /\ prepared' = prepared
    BY <1>5, Names, Zenon DEF InterPop
  <2>2. \A x : Queued(p, x, "prep", "run") => Queued(p, x, "prep", "run")'
    BY <1>0, <2>1, QueuedKept, Names
  <2> QED BY <1>1, <2>1, <2>2, Zenon DEF Threads
<1> QED BY <1>0, <1>8, <1>11, <1>12, <1>15, <1>16, <1>17, <1>18, <1>19, PipeMoves, Zenon

\* The masks, or the broadcast result, have come.
LEMMA InterRecvSteps ==
  ASSUME Counted, TypeOK, MainInv, PipeInv, NEW p \in Party, InterRecv(p)
  PROVE  PipeOf(p)' /\ Grows /\ link'[Other(p)] = link[Other(p)] /\ got'[Other(p)] = got[Other(p)]
<1> DEFINE q == Other(p)
           r == Runner(p, "inter")
           own == link[p]["inter"]
           s == link[q]["inter"]
           g == got[p]["inter"]
           hits == Hits(p, Bucket(p, r.b), Msg(p, "inter").told)
           m == Telling(p, "recv", r.b, {h.idx : h \in hits})
           S == IF cfg.broadcast /\ p = Receiver THEN {"inter"} ELSE {}
           n == [r EXCEPT !.hits = hits]
<1>0. /\ inp' = inp /\ cfg' = cfg /\ pc' = pc /\ pc[p] = "AsyncRun" /\ ThTypes /\ LinkTypes
      /\ Settled /\ BucketNum \in Nat /\ inp \in Inputs /\ q \in Party
  BY ThreadFrame, TypeParts, AsyncSettled, Lists, Parties, Zenon DEF Inter, TaskTypes
<1>1. /\ History(p) /\ Threads(p) /\ InPipe(p, "inter", "recv") /\ th[p]["inter"].at = "recv"
      /\ Arrived(p, "inter")
  BY Zenon DEF PipeInv, InterRecv, InPipe
<1>2. /\ r.b \in 0 .. BucketNum - 1 /\ GetsResult(p) /\ ~Null(r.b) /\ r \in BucketRunner
      /\ p = Receiver /\ cfg.broadcast => Due(own, Len(own) + 1, r.b)
      /\ p # Receiver => Due(own, Len(own) + 1, r.b + 1)
  <2>1. r \in BucketRunner
    BY <1>0, RunnerTypes, Names, Zenon
  <2> QED BY <1>1, <2>1, Zenon DEF Threads, InterInStep, UpTo
<1>3. hits = Expected(p, r.b)
  <2>1. Msg(p, "inter").told = Told(q, Masked(q, r.b))
    BY <1>1, InterReceived, Zenon
  <2>2. hits = Matches(p, Bucket(p, r.b), Masked(q, r.b))
    BY <2>1, HitsMatch, Zenon
  <2>3. CASE p = Receiver
    <3>1. q # Receiver
      BY <2>3 DEF Other, Receiver
    <3> QED BY <2>2, <3>1, Zenon DEF Masked, Expected
  <2>4. CASE p # Receiver
    <3>1. q = Receiver
      BY <2>4 DEF Other, Receiver, Party
    <3>2. Masked(q, r.b) = {h.idx : h \in Expected(q, r.b)}
      BY <3>1, Zenon DEF Masked
    <3> QED BY <2>2, <3>2, MatchBack, Zenon
  <2> QED BY <2>3, <2>4, Zenon
<1>4. Due(s, g + 2, r.b + 1) /\ (g + 1) + 1 = g + 2
  BY <1>0, <1>1, InterReceived, Names DEF LinkTypes
<1>5. Exchange(p, {"inter"}, S, m) /\ Move(p, "inter", "post", n)
  BY Zenon DEF InterRecv
<1>6. S \in SUBSET {"inter"} /\ (S # {} <=> cfg.broadcast /\ p = Receiver)
  BY Zenon
<1>7. m.at = "recv" /\ m.b = r.b /\ m.told = Told(p, {h.idx : h \in hits})
  BY Zenon DEF Telling
<1>8. m \in Message
  <2>1. r.b \in Int /\ {h.idx : h \in Expected(p, r.b)} \in SUBSET Items(p)
    <3>1. {h.idx : h \in Expected(p, r.b)} \subseteq Bucket(p, r.b)
      BY ExpectedItems, Zenon
    <3>2. Bucket(p, r.b) \subseteq Items(p)
      BY <1>0, Lists, Zenon
    <3> QED BY <1>0, <1>2, <3>1, <3>2
  <2>2. {h.idx : h \in hits} \in SUBSET Items(p)
    BY <1>3, <2>1, Zenon
  <2> HIDE DEF hits
  <2> QED BY <2>1, <2>2, Messages, Zenon DEF Place, TypeOK
<1>9. n.b = r.b /\ n.hits = Expected(p, r.b)
  BY <1>2, <1>3, Zenon DEF BucketRunner
<1> HIDE DEF m, S, n, hits
<1>10. /\ Grows /\ link'[q] = link[q] /\ got'[q] = got[q]
       /\ \A d \in Ctx \ {"inter"} : link'[p][d] = link[p][d] /\ got'[p][d] = got[p][d]
       /\ IF S = {} THEN link'[p]["inter"] = own ELSE Adds(p, "inter", m)
       /\ got'[p]["inter"] = g + 1
  BY <1>0, <1>5, <1>6, <1>8, OnContext, Names
<1>11. /\ th'[p]["inter"].at = "post" /\ th'[p]["inter"].r = n
       /\ \A u \in Thread \ {"inter"} : th'[p][u] = th[p][u]
  BY <1>0, <1>5, Moved, Names
<1>12. \A x, k, b : Due(x, k, b)' <=> Due(x, k, b)
  BY <1>0, <1>10, GrowsOnMain, SettledKept, Zenon
<1>13. ASSUME S # {}
       PROVE  /\ Chain(own)' /\ InterScript(p)'
              /\ Due(link'[p]["inter"], Len(link'[p]["inter"]) + 1, r.b + 1)
  <2>1. /\ Chain(own) /\ Adds(p, "inter", m) /\ ~Null(m.b) /\ m.b \in 0 .. BucketNum - 1
        /\ InterScript(p) /\ Due(own, Len(own) + 1, m.b)
    BY <1>1, <1>2, <1>6, <1>7, <1>10, <1>13, Zenon DEF History
  <2>2. m.told = Told(p, Masked(p, m.b))
    BY <1>3, <1>6, <1>7, <1>13, Zenon DEF Masked
  <2>3. Chain(own)' /\ Due(link'[p]["inter"], Len(link'[p]["inter"]) + 1, m.b + 1)
    BY <1>0, <1>7, <1>10, <2>1, ChainGrows, Names, Zenon
  <2>4. InterScript(p)'
    BY <1>0, <2>1, <2>2, InterGrows, Zenon
  <2> QED BY <1>7, <2>3, <2>4, Zenon
<1>14. ASSUME S = {} PROVE Chain(own)' /\ InterScript(p)'
  <2>1. History(p)'
    BY <1>0, <1>1, <1>10, <1>14, GrowsOnMain, HistoryKept, Zenon DEF PipeContext, Ctx
  <2> QED BY <2>1, Zenon DEF History
<1>15. InterInStep(p)'
  <2>1. Runner(p, "inter")' = n
    BY <1>11, Zenon DEF Runner
  <2>2. UpTo(p, "inter", {"pop", "recv"})' = r.b + 1 /\ UpTo(p, "inter", {"pop"})' = r.b + 1
    BY <1>9, <1>11, <2>1, Zenon DEF UpTo
  <2>3. Due(link'[q]["inter"], got'[p]["inter"] + 1, r.b + 1)
    BY <1>4, <1>10, Zenon
  <2>4. p = Receiver /\ cfg.broadcast => Due(link'[p]["inter"], Len(link'[p]["inter"]) + 1, r.b + 1)
    BY <1>6, <1>13, Zenon
  <2>5. p # Receiver => Due(link'[p]["inter"], Len(link'[p]["inter"]) + 1, r.b + 1)
    BY <1>2, <1>6, <1>10, Zenon
  <2>6. n.hits = IF GetsResult(p) THEN Expected(p, n.b) ELSE {}
    BY <1>2, <1>9, Zenon
  <2>7. n.b \in 0 .. BucketNum - 1
    BY <1>2, <1>9, Zenon
  <2> HIDE DEF r, q
  <2> QED BY <1>0, <1>11, <1>12, <2>1, <2>2, <2>3, <2>4, <2>5, <2>6, <2>7, InterHolds, Zenon DEF q
<1>16. QuietOn(p, "prep", "read") /\ QuietOn(p, "run", "run")
  BY <1>10, <1>11, Names, Zenon DEF QuietOn
<1>17. ThreadsRight(p)'
  BY <1>0, <1>1, <1>11, Fixed, Zenon DEF Threads, ThreadsRight, Thread, Runner
<1>18. Queued(p, prepared[p], "prep", "run")' /\ Queued(p, oprf[p], "run", "inter")'
  <2>1. th'[p]["inter"].r.b = th[p]["inter"].r.b
    BY <1>9, <1>11, Zenon DEF Runner
  <2> QED BY <1>0, <1>1, <1>11, <2>1, Stays, Names, Zenon DEF InterRecv
<1> QED BY <1>0, <1>10, <1>13, <1>14, <1>15, <1>16, <1>17, <1>18, PipeMoves, Zenon

\* post_f, and the count.
LEMMA InterPostSteps ==
  ASSUME Counted, TypeOK, MainInv, PipeInv, NEW p \in Party, InterPost(p) \/ InterCount(p)
  PROVE  PipeOf(p)' /\ Grows /\ link'[Other(p)] = link[Other(p)] /\ got'[Other(p)] = got[Other(p)]
<1> DEFINE q == Other(p)
           r == Runner(p, "inter")
<1>0. /\ inp' = inp /\ cfg' = cfg /\ pc' = pc /\ pc[p] = "AsyncRun" /\ ThTypes /\ LinkTypes
      /\ Settled /\ BucketNum \in Nat
  BY ThreadFrame, TypeParts, AsyncSettled, Lists, Zenon DEF Inter, TaskTypes
<1>1. History(p) /\ Threads(p) /\ th[p]["inter"].at \in {"post", "count"}
      /\ prepared' = prepared /\ oprf' = oprf
  BY Zenon DEF PipeInv, InterPost, InterCount, InPipe
<1>2. /\ r.b \in 0 .. BucketNum - 1 /\ r.hits = (IF GetsResult(p) THEN Expected(p, r.b) ELSE {})
      /\ GetsResult(p) => Due(link[q]["inter"], got[p]["inter"] + 1, r.b + 1)
      /\ p = Receiver /\ cfg.broadcast => Due(link[p]["inter"], Len(link[p]["inter"]) + 1, r.b + 1)
      /\ p # Receiver => Due(link[p]["inter"], Len(link[p]["inter"]) + 1, r.b + 1)
  BY <1>1, Zenon DEF Threads, InterInStep, UpTo
<1>3. Grows /\ link' = link /\ got' = got
  BY <1>0, NoContext, Zenon DEF InterPost, InterCount
<1>4. \A x, k, b : Due(x, k, b)' <=> Due(x, k, b)
  BY <1>0, <1>3, GrowsOnMain, SettledKept, Zenon
<1>5. \A u \in Thread \ {"inter"} : th'[p][u] = th[p][u]
  <2>1. Move(p, "inter", "count", r) \/ NextRunner(p, "inter", "pop")
    BY Zenon DEF InterPost, InterCount
  <2>2. CASE Move(p, "inter", "count", r)
    BY <1>0, <2>2, Moved, Names, Zenon
  <2>3. CASE NextRunner(p, "inter", "pop")
    BY <1>0, <2>3, Turned, Names, Zenon
  <2> QED BY <2>1, <2>2, <2>3, Zenon
<1>6. /\ GetsResult(p) => Due(link'[q]["inter"], got'[p]["inter"] + 1, r.b + 1)
      /\ p = Receiver /\ cfg.broadcast => Due(link'[p]["inter"], Len(link'[p]["inter"]) + 1, r.b + 1)
      /\ p # Receiver => Due(link'[p]["inter"], Len(link'[p]["inter"]) + 1, r.b + 1)
  BY <1>2, <1>3, Zenon
<1>7. Chain(link[p]["inter"])' /\ InterScript(p)'
  <2>1. History(p)'
    BY <1>0, <1>1, <1>3, GrowsOnMain, HistoryKept, Zenon
  <2> QED BY <2>1, Zenon DEF History
<1>8. QuietOn(p, "prep", "read") /\ QuietOn(p, "run", "run")
  BY <1>3, <1>5, Names DEF QuietOn
<1>9. CASE InterPost(p)
  <2>1. th'[p]["inter"].at = "count" /\ th'[p]["inter"].r = r
    <3>1. Move(p, "inter", "count", r)
      BY <1>9, Zenon DEF InterPost
    <3> QED BY <1>0, <3>1, Moved, Names
  <2>2. Runner(p, "inter")' = r /\ UpTo(p, "inter", {"pop", "recv"})' = r.b + 1
        /\ UpTo(p, "inter", {"pop"})' = r.b + 1
    BY <2>1, Zenon DEF Runner, UpTo
  <2>3. InterInStep(p)'
    <3> HIDE DEF r, q
    <3> QED BY <1>0, <1>2, <1>4, <1>6, <2>1, <2>2, InterHolds, Zenon DEF q
  <2>4. ThreadsRight(p)'
    BY <1>0, <1>1, <1>5, <2>1, Fixed, Zenon DEF Threads, ThreadsRight, Thread, Runner
  <2>5. Queued(p, prepared[p], "prep", "run")' /\ Queued(p, oprf[p], "run", "inter")'
    <3>1. th'[p]["inter"].r.b = th[p]["inter"].r.b
      BY <2>1, Zenon DEF Runner
    <3> QED BY <1>0, <1>1, <1>5, <2>1, <3>1, Stays, Names, Zenon
  <2> QED BY <1>0, <1>3, <1>7, <1>8, <2>3, <2>4, <2>5, PipeMoves, Zenon
<1>10. CASE InterCount(p)
  <2>1. th'[p]["inter"].at = (IF r.b + 1 >= BucketNum THEN "done" ELSE "pop")
        /\ th'[p]["inter"].r.b = r.b + 1
    <3>1. NextRunner(p, "inter", "pop")
      BY <1>10, Zenon DEF InterCount
    <3>2. "inter" \in Thread
      BY Names, Zenon
    <3> QED BY <1>0, <3>1, <3>2, Turned, Zenon
  <2>2. InterInStep(p)'
    <3> SUFFICES ASSUME th'[p]["inter"].at \in {"pop", "recv", "post", "count"} PROVE InterInStep(p)'
      BY Zenon DEF InterInStep
    <3>1. th'[p]["inter"].at = "pop" /\ r.b + 1 \in 0 .. BucketNum - 1
      BY <1>0, <1>2, <2>1
    <3> DEFINE n == Runner(p, "inter")'
    <3>2. n.b = r.b + 1 /\ UpTo(p, "inter", {"pop", "recv"})' = r.b + 1
          /\ UpTo(p, "inter", {"pop"})' = r.b + 1 /\ n.b \in 0 .. BucketNum - 1
      BY <2>1, <3>1, Zenon DEF Runner, UpTo
    <3>3. Runner(p, "inter")' = n
      BY Zenon
    <3> HIDE DEF r, q, n
    <3> QED BY <1>0, <1>4, <1>6, <3>1, <3>2, <3>3, InterHolds, Zenon DEF q
  <2>3. ThreadsRight(p)'
    BY <1>0, <1>1, <1>2, <1>5, <2>1, Fixed, Zenon DEF Threads, ThreadsRight, Thread, Runner
  <2>4. Queued(p, oprf[p], "run", "inter")'
    <3>1. /\ th'[p]["inter"].at # "threw" /\ th[p]["inter"].at # "threw"
          /\ UpTo(p, "inter", {"pop", "done"})' = UpTo(p, "inter", {"pop", "done"})
          /\ th'[p]["run"] = th[p]["run"] /\ Runner(p, "run").b' = Runner(p, "run").b
      BY <1>1, <1>5, <2>1, Names, Zenon DEF UpTo, Runner
    <3>2. \A x : Queued(p, x, "run", "inter") => Queued(p, x, "run", "inter")'
      BY <1>0, <3>1, QueuedAs, Names, Zenon
    <3> QED BY <1>1, <3>2, Zenon DEF Threads
  <2>5. Queued(p, prepared[p], "prep", "run")'
    <3>1. th'[p]["prep"] = th[p]["prep"] /\ th'[p]["run"] = th[p]["run"]
      BY <1>5, Names, Zenon
    <3>2. \A x : Queued(p, x, "prep", "run") => Queued(p, x, "prep", "run")'
      BY <1>0, <3>1, QueuedKept, Names, Zenon
    <3> QED BY <1>1, <3>2, Zenon DEF Threads
  <2> QED BY <1>0, <1>3, <1>7, <1>8, <2>2, <2>3, <2>4, <2>5, PipeMoves
<1> QED BY <1>9, <1>10, Zenon

\* A step of one of the threads.
LEMMA PipeThreads ==
  ASSUME Counted, TypeOK, MainInv, PipeInv, NEW p \in Party, Prep(p) \/ RunTh(p) \/ Inter(p)
  PROVE  PipeInv'
<1>1. /\ inp' = inp /\ cfg' = cfg /\ pc' = pc
      /\ prepared'[Other(p)] = prepared[Other(p)] /\ oprf'[Other(p)] = oprf[Other(p)]
      /\ th'[Other(p)] = th[Other(p)]
  BY ThreadFrame, Zenon
<1>2. PipeOf(p)' /\ Grows /\ link'[Other(p)] = link[Other(p)] /\ got'[Other(p)] = got[Other(p)]
  <2>1. CASE Prep(p)
    BY <2>1, LoadSteps, SizeSteps, VoleSteps, PushSteps, Zenon DEF Prep
  <2>2. CASE RunTh(p)
    BY <2>2, RunPopSteps, RunOprfSteps, RunPushSteps, Zenon DEF RunTh
  <2>3. CASE Inter(p)
    BY <2>3, InterPopSteps, InterRecvSteps, InterPostSteps, Zenon DEF Inter
  <2> QED BY <2>1, <2>2, <2>3, Zenon
<1> QED BY <1>1, <1>2, PeerPipe, Zenon

\* A thread that throws has nothing more to keep.
LEMMA PipeThrows ==
  ASSUME Counted, TypeOK, MainInv, PipeInv, NEW p \in Party, NEW t \in Thread, ThreadThrows(p, t)
  PROVE  PipeInv'
<1>0. /\ inp' = inp /\ cfg' = cfg /\ pc' = pc /\ pc[p] = "AsyncRun" /\ prepared' = prepared
      /\ oprf' = oprf /\ LinkTypes /\ ThTypes
  BY TypeParts, Zenon DEF ThreadThrows, taskVars
<1>1. Grows /\ link' = link /\ got' = got
  BY <1>0, NoContext, Zenon DEF ThreadThrows
<1>2. /\ th'[Other(p)] = th[Other(p)]
      /\ \A u \in Thread : th'[p][u] = th[p][u] \/ th'[p][u] = [th[p][u] EXCEPT !.at = "threw"]
  <2>1. th \in [Party -> [Thread -> [at : Place, r : BucketRunner]]]
    BY <1>0, Zenon DEF ThTypes
  <2> QED BY <2>1, Parties, Zenon DEF ThreadThrows
<1>3. \A u \in Thread : \/ th'[p][u] = th[p][u]
                        \/ th'[p][u].at = "threw" /\ th'[p][u].r = th[p][u].r
  <2>1. \A u \in Thread : th[p][u] \in [at : Place, r : BucketRunner]
    BY <1>0, Zenon DEF ThTypes
  <2> QED BY <1>2, <2>1, Zenon
<1>4. History(p) /\ Threads(p)
  BY <1>0, Zenon DEF PipeInv
<1>5. ReadScript(p)' /\ InterScript(p)' /\ Chain(link[p]["run"])' /\ Chain(link[p]["inter"])'
  <2>1. History(p)'
    BY <1>0, <1>1, <1>4, GrowsOnMain, HistoryKept, Zenon
  <2> QED BY <2>1, Zenon DEF History
<1>6. QuietOn(p, "prep", "read") \/ PrepInStep(p)'
  BY <1>1, <1>3, Names, Zenon DEF QuietOn, PrepInStep
<1>7. QuietOn(p, "run", "run") \/ RunInStep(p)'
  BY <1>1, <1>3, Names, Zenon DEF QuietOn, RunInStep
<1>8. QuietOn(p, "inter", "inter") \/ InterInStep(p)'
  BY <1>1, <1>3, Names, Zenon DEF QuietOn, InterInStep
<1>9. ThreadsRight(p)'
  <2>1. BucketNum' = BucketNum
    BY <1>0, Fixed, Zenon
  <2> QED BY <1>3, <1>4, <2>1, Names, Zenon DEF Threads, ThreadsRight, Runner
<1>10. Queued(p, prepared[p], "prep", "run")' /\ Queued(p, oprf[p], "run", "inter")'
  <2>1. \A u \in Thread : th'[p][u].at # "threw" =>
          /\ th[p][u].at # "threw" /\ Runner(p, u).b' = Runner(p, u).b
          /\ UpTo(p, u, {"pop", "done"})' = UpTo(p, u, {"pop", "done"})
    BY <1>3 DEF Runner, UpTo
  <2>2. /\ \A q : Queued(p, q, "prep", "run") => Queued(p, q, "prep", "run")'
        /\ \A q : Queued(p, q, "run", "inter") => Queued(p, q, "run", "inter")'
    BY <1>0, <2>1, QueuedAs, Names, Zenon
  <2> QED BY <1>0, <1>4, <2>2, Zenon DEF Threads
<1>11. PipeOf(p)'
  BY <1>0, <1>1, <1>5, <1>6, <1>7, <1>8, <1>9, <1>10, PipeMoves
<1> QED BY <1>0, <1>1, <1>2, <1>11, PeerPipe, Zenon

-----------------------------------------------------------------------------
(* The main threads and AsyncRun.                                            *)

LEMMA MainStepGrows ==
  ASSUME Counted, TypeOK, NEW p \in Party, MainStep(p)
  PROVE  Grows
<1>1. link \in [Party -> [Ctx -> Seq(Message)]]
  BY Zenon DEF TypeOK, LinkTypes
<1>2. ASSUME NEW T, NEW S, NEW m, Exchange(p, T, S, m), NEW r \in Party, NEW c \in Ctx
      PROVE  /\ Len(link'[r][c]) \in Nat /\ Len(link'[r][c]) >= Len(link[r][c])
             /\ \A k \in 1 .. Len(link[r][c]) : link'[r][c][k] = link[r][c][k]
  <2> DEFINE s == link[r][c]
  <2>1. s \in Seq(Message) /\ Len(s) \in Nat
    BY <1>1
  <2>2. link'[r][c] = s \/ link'[r][c] = Append(s, m)
    BY <1>1, <1>2, Zenon DEF Exchange
  <2>3. s \in Seq(Message \cup {m}) /\ m \in Message \cup {m}
    <3> HIDE DEF s
    <3> QED BY <2>1
  <2>4. /\ Len(Append(s, m)) = Len(s) + 1
        /\ \A k \in 1 .. Len(s) : Append(s, m)[k] = s[k]
    <3> HIDE DEF s
    <3>1. \A e \in Message \cup {m} :
            /\ Len(Append(s, e)) = Len(s) + 1
            /\ \A k \in 1 .. Len(s) : Append(s, e)[k] = s[k]
      BY <2>3, Appended
    <3> QED BY <2>3, <3>1, Zenon
  <2> HIDE DEF s
  <2>5. CASE link'[r][c] = s
    BY <2>1, <2>5 DEF s
  <2>6. CASE link'[r][c] = Append(s, m)
    BY <2>1, <2>4, <2>6 DEF s
  <2> QED BY <2>2, <2>5, <2>6, Zenon
<1>3. CASE UNCHANGED linkVars
  BY <1>1, <1>3 DEF Grows, linkVars
<1>4. CASE \E T, S \in SUBSET {"main"} : \E m : Exchange(p, T, S, m)
  BY <1>2, <1>4, Zenon DEF Grows
<1> QED BY <1>3, <1>4, StepOnMain, Zenon DEF OnMain

\* AsyncRun starts with nothing sent and nothing queued, at the bucket both
\* parties resume at.
LEMMA EnterPipe ==
  ASSUME Counted, TypeOK, MainInv', NEW p \in Party, Unused(p), NEW b \in Nat, EnterLoop(p, b),
         inp' = inp, cfg' = cfg, prepared' = prepared, oprf' = oprf, pc'[p] = "AsyncRun",
         \A c \in PipeContext : \A r \in Party : link'[r][c] = link[r][c] /\ got'[r][c] = got[r][c]
  PROVE  Threads(p)'
<1> DEFINE n == BucketNum
<1>0. n \in Nat /\ BucketNum' = n
  BY Lists, Fixed, Constants DEF TypeOK
<1>1. cfg.protocol = "RR22"
  <2>1. pc'[p] = LoopPlace(b)
    BY TypeParts DEF EnterLoop, Goto, PcTypes
  <2> QED BY <2>1, Zenon DEF LoopPlace
<1>2. /\ \A t \in Thread : /\ th'[p][t].at = (IF b >= n THEN "done"
                                              ELSE IF t = "prep" THEN "load" ELSE "pop")
                           /\ th'[p][t].r.b = b /\ th'[p][t].r.hits = {}
      /\ idx'[p] = b
  <2>1. th'[p] = ThreadsAt(b) /\ idx'[p] = b
    BY TypeParts DEF EnterLoop, ThTypes, IdxTypes
  <2> QED BY <1>1, <2>1 DEF ThreadsAt, NoRunner
<1>3. Resume' = b
  <2>1. PlaceRight(p)'
    BY Zenon DEF MainInv, Working
  <2> QED BY <1>2, <2>1, Zenon DEF PlaceRight, Begun
<1>4. /\ \A c \in PipeContext : Len(link'[p][c]) = 0 /\ got'[p][c] = 0
      /\ Len(prepared'[p]) = 0 /\ Len(oprf'[p]) = 0
  BY Zenon DEF Unused
<1> HIDE DEF n
<1>5. ThreadsRight(p)'
  BY <1>0, <1>2, Names DEF ThreadsRight, Runner
<1>6. PrepInStep(p)'
  BY <1>0, <1>2, <1>3, <1>4, Names DEF PrepInStep, PrepNext, AfterRead, Runner, PipeContext
<1>7. \A s : Due(s, 1, b)'
  BY <1>0, <1>3 DEF Due, Before
<1>8. RunInStep(p)'
  <2>1. th'[p]["run"].at \in {"done", "pop"} /\ th'[p]["run"].r.b = b
        /\ (th'[p]["run"].at = "pop" => b \in 0 .. n - 1)
    BY <1>0, <1>2, Names
  <2>2. "run" \in PipeContext /\ 0 + 1 = 1
    BY DEF PipeContext
  <2> QED BY <1>0, <1>4, <1>7, <2>1, <2>2, Zenon DEF RunInStep, UpTo, Runner
<1>9. InterInStep(p)'
  <2>1. th'[p]["inter"].at \in {"done", "pop"} /\ th'[p]["inter"].r.b = b
        /\ (th'[p]["inter"].at = "pop" => b \in 0 .. n - 1)
    BY <1>0, <1>2, Names
  <2>2. "inter" \in PipeContext /\ 0 + 1 = 1
    BY DEF PipeContext
  <2> QED BY <1>0, <1>4, <1>7, <2>1, <2>2, Zenon DEF InterInStep, UpTo, Runner
<1>10. Queued(p, prepared[p], "prep", "run")' /\ Queued(p, oprf[p], "run", "inter")'
  BY <1>2, <1>4, Names DEF Queued, Ordered, UpTo, Runner
<1> QED BY <1>5, <1>6, <1>8, <1>9, <1>10, Zenon DEF Threads

\* The main thread enters AsyncRun from Online and goes to the first places
\* from each other only.
LEMMA MainEntries ==
  ASSUME Counted, TypeOK, MainInv, NEW p \in Party, MainStep(p)
  PROVE  /\ pc'[p] \in EarlyPlaces => pc[p] \in EarlyPlaces
         /\ pc'[p] = "AsyncRun" =>
              /\ pc[p] \in EarlyPlaces
              /\ \E b : EnterLoop(p, b)
<1>0. \A place : Goto(p, place) => pc'[p] = place
  BY TypeParts DEF Goto, PcTypes
<1>1. \A b : EnterLoop(p, b) => pc'[p] = LoopPlace(b)
  BY <1>0, Zenon DEF EnterLoop
<1>2. \A b : LoopPlace(b) \notin EarlyPlaces /\ (LoopPlace(b) = "AsyncRun" => cfg.protocol = "RR22")
  BY DEF LoopPlace, EarlyPlaces
<1>3. CASE InitEnd(p) \/ PreProcess(p)
  <2>1. pc[p] \in EarlyPlaces
    BY <1>3 DEF InitEnd, PreProcess, EarlyPlaces
  <2>2. pc'[p] # "AsyncRun"
    <3>1. CASE InitEnd(p)
      <4>1. pc'[p] = "Close" \/ pc'[p] = "PreProcess"
        BY <1>0, <3>1, Zenon DEF InitEnd
      <4> QED BY <4>1
    <3>2. CASE PreProcess(p)
      BY <1>0, <3>2 DEF PreProcess
    <3> QED BY <1>3, <3>1, <3>2
  <2> QED BY <2>1, <2>2
<1>4. CASE OnlineStart(p)
  <2>1. pc[p] \in EarlyPlaces
    BY <1>4 DEF OnlineStart, EarlyPlaces
  <2>2. Goto(p, "PostProcess") \/ Goto(p, "OnlineGather") \/ EnterLoop(p, 0)
    BY <1>4, Zenon DEF OnlineStart
  <2> QED BY <1>0, <2>1, <2>2
<1>5. CASE OnlineGather(p)
  <2>1. pc[p] = "OnlineGather" /\ pc[p] \in EarlyPlaces /\ Arrived(p, "main")
    BY <1>5 DEF OnlineGather, EarlyPlaces
  <2>2. Goto(p, "PostProcess") \/ EnterLoop(p, ResumeAt(p, Msg(p, "main")))
    BY <1>5, Zenon DEF OnlineGather
  <2> QED BY <1>0, <2>1, <2>2
<1>6. CASE Kkrt(p)
  <2>1. pc[p] \in LoopPlaces
    BY <1>6 DEF Kkrt, KkrtSize, KkrtSetSize, KkrtPsiSend, KkrtPsiRecv, KkrtSync, BroadcastResult,
                KkrtWrite, KkrtNext, LoopPlaces
  <2>2. cfg.protocol # "RR22"
    <3>1. Working(p)
      BY <2>1 DEF LoopPlaces, Working
    <3> QED BY <2>1, <3>1 DEF MainInv, PlaceRight
  <2>3. \/ \E place \in {"SetSize", "Kkrt", "Sync", "Broadcast", "Write", "Handled"} : Goto(p, place)
        \/ \E b : EnterLoop(p, b)
    <3> DEFINE P == {"SetSize", "Kkrt", "Sync", "Broadcast", "Write", "Handled"}
    <3>1. "SetSize" \in P /\ "Kkrt" \in P /\ "Sync" \in P /\ "Broadcast" \in P /\ "Write" \in P
          /\ "Handled" \in P
      OBVIOUS
    <3> HIDE DEF P
    <3>2. CASE KkrtSize(p) \/ KkrtSetSize(p) \/ KkrtPsiSend(p)
      BY <3>1, <3>2, Zenon DEF KkrtSize, KkrtSetSize, KkrtPsiSend
    <3>3. CASE KkrtPsiRecv(p) \/ KkrtSync(p)
      BY <3>1, <3>3, Zenon DEF KkrtPsiRecv, KkrtSync
    <3>4. CASE BroadcastResult(p) \/ KkrtWrite(p) \/ KkrtNext(p)
      BY <3>1, <3>4, Zenon DEF BroadcastResult, KkrtWrite, KkrtNext
    <3> QED BY <1>6, <3>2, <3>3, <3>4, Zenon DEF Kkrt, P
  <2>4. pc'[p] \notin EarlyPlaces /\ pc'[p] # "AsyncRun"
    <3>1. CASE \E b : EnterLoop(p, b)
      BY <1>1, <1>2, <2>2, <3>1, Zenon
    <3>2. ASSUME NEW place \in {"SetSize", "Kkrt", "Sync", "Broadcast", "Write", "Handled"},
                 Goto(p, place)
          PROVE  pc'[p] \notin EarlyPlaces /\ pc'[p] # "AsyncRun"
      BY <1>0, <3>2 DEF EarlyPlaces
    <3> QED BY <2>3, <3>1, <3>2, Zenon
  <2> QED BY <2>4, Zenon
<1>7. CASE \/ Join(p) \/ OnlineSync(p) \/ PostProcess(p) \/ Close(p)
           \/ FinalizeWrite(p) \/ FinalizeThrows(p) \/ FinalizeSync(p)
  <2>1. \/ Goto(p, "OnlineSync") \/ Goto(p, "PostProcess") \/ Goto(p, "Finalize")
        \/ Goto(p, "FinalizeSync") \/ Goto(p, "down") \/ Goto(p, "done")
    BY <1>7, Zenon DEF Join, OnlineSync, PostProcess, Close, FinalizeWrite, FinalizeThrows,
       FinalizeSync
  <2>2. pc'[p] \in {"OnlineSync", "PostProcess", "Finalize", "FinalizeSync", "down", "done"}
    BY <1>0, <2>1
  <2> QED BY <2>2 DEF EarlyPlaces
<1> QED BY <1>3, <1>4, <1>5, <1>6, <1>7, Zenon DEF MainStep

LEMMA PipeMain ==
  ASSUME Counted, TypeOK, MainInv, PipeInv, TypeOK', MainInv', NEW p \in Party, MainStep(p)
  PROVE  PipeInv'
<1> DEFINE q == Other(p)
<1>0. q \in Party /\ PipeOf(p) /\ PipeOf(q) /\ \A r \in Party : r = p \/ r = q
  BY Parties, PipeOfAll, Zenon
<1>1. /\ inp' = inp /\ cfg' = cfg /\ prepared' = prepared /\ oprf' = oprf
      /\ \A c \in PipeContext : \A r \in Party : link'[r][c] = link[r][c] /\ got'[r][c] = got[r][c]
      /\ pc'[q] = pc[q] /\ th'[q] = th[q]
  BY MainLinks, Zenon
<1>2. Grows /\ MainGrows
  BY MainStepGrows, GrowsOnMain, Zenon
<1>3. /\ pc'[p] \in EarlyPlaces => pc[p] \in EarlyPlaces
      /\ pc'[p] = "AsyncRun" => pc[p] \in EarlyPlaces /\ \E b : EnterLoop(p, b)
  BY MainEntries, Zenon
<1>4. PipeOf(q)'
  <2>1. Quiet(q)
    BY <1>0, <1>1, Zenon DEF Quiet
  <2> QED BY <1>0, <1>1, <1>2, <2>1, QuietPipe, Zenon
<1>5. History(p)'
  BY <1>0, <1>1, <1>2, HistoryKept, Zenon DEF PipeOf
<1>6. ASSUME pc[p] \in EarlyPlaces PROVE Unused(p) /\ Unused(p)'
  <2>1. Unused(p)
    BY <1>0, <1>6, Zenon DEF PipeOf, EarlyPlaces
  <2> QED BY <1>1, <2>1, Zenon DEF Unused
<1>7. ASSUME pc'[p] = "AsyncRun" PROVE Threads(p)'
  <2>1. PICK b : EnterLoop(p, b)
    BY <1>3, <1>7, Zenon
  <2>2. b \in Nat
    <3>1. idx'[p] = b
      BY <2>1, TypeParts DEF EnterLoop, IdxTypes
    <3> QED BY <3>1 DEF TypeOK, ControlTypes
  <2> QED BY <1>1, <1>3, <1>6, <1>7, <2>1, <2>2, EnterPipe, Zenon
<1>8. PipeOf(p)'
  BY <1>3, <1>5, <1>6, <1>7, Zenon DEF PipeOf, EarlyPlaces
<1> QED BY <1>0, <1>4, <1>8, PipeOfAll, Zenon

\* A party that stops leaves the contexts as they are.
LEMMA PipeEnds ==
  ASSUME Counted, TypeOK, MainInv, PipeInv, NEW p \in Party, Ends(p)
  PROVE  PipeInv'
<1>1. UNCHANGED <<inp, cfg, pipeVars, linkVars>>
  BY EndsFrame, Zenon
<1>2. \A r \in Party : pc'[r] = pc[r] \/ pc'[r] \in {"down", "Spin"}
  <2>1. pc \in [Party -> Place]
    BY TypeParts, Zenon DEF PcTypes
  <2> QED BY <2>1, EndsFrame DEF Goto
<1>3. Grows
  BY <1>1 DEF Grows, TypeOK, LinkTypes, linkVars
<1>4. ASSUME NEW r \in Party PROVE PipeOf(r)'
  <2>1. PipeOf(r) /\ Quiet(r)
    BY <1>1, PipeOfAll, Zenon DEF Quiet, pipeVars, linkVars
  <2>2. /\ pc'[r] = "AsyncRun" => pc[r] = "AsyncRun"
        /\ pc'[r] \in {"Init", "PreProcess", "OnlineStart", "OnlineGather"} =>
             pc[r] \in {"Init", "PreProcess", "OnlineStart", "OnlineGather"}
    BY <1>2
  <2> QED BY <1>1, <1>3, <2>1, <2>2, QuietPipe, Zenon
<1> QED BY <1>4, PipeOfAll, Zenon

\* A task that starts has sent nothing on the contexts of AsyncRun.
LEMMA PipeFirst ==
  ASSUME Init
  PROVE  PipeInv
<1>1. ASSUME NEW p \in Party PROVE PipeOf(p)
  <2>1. /\ \A c \in PipeContext : link[p][c] = <<>> /\ got[p][c] = 0
        /\ prepared[p] = <<>> /\ oprf[p] = <<>> /\ pc[p] = "Init"
    BY DEF Init, PipeContext, Ctx
  <2>2. Len(<<>>) = 0 /\ 1 .. 0 = {}
    OBVIOUS
  <2>3. "read" \in PipeContext /\ "run" \in PipeContext /\ "inter" \in PipeContext
    BY DEF PipeContext
  <2>4. History(p)
    BY <2>1, <2>2, <2>3, Zenon DEF History, ReadScript, InterScript, Chain
  <2>5. Unused(p)
    BY <2>1, <2>2, Zenon DEF Unused
  <2> QED BY <2>1, <2>4, <2>5 DEF PipeOf
<1> QED BY <1>1, PipeOfAll, Zenon

LEMMA PipeRestart ==
  ASSUME Restart
  PROVE  PipeInv'
<1>1. ASSUME NEW p \in Party PROVE PipeOf(p)'
  <2>1. /\ \A c \in PipeContext : link'[p][c] = <<>> /\ got'[p][c] = 0
        /\ prepared'[p] = <<>> /\ oprf'[p] = <<>> /\ pc'[p] = "Init"
    BY DEF Restart, Start, PipeContext, Ctx
  <2>2. Len(<<>>) = 0 /\ 1 .. 0 = {}
    OBVIOUS
  <2>3. "read" \in PipeContext /\ "run" \in PipeContext /\ "inter" \in PipeContext
    BY DEF PipeContext
  <2>4. History(p)'
    BY <2>1, <2>2, <2>3, Zenon DEF History, ReadScript, InterScript, Chain
  <2>5. Unused(p)'
    BY <2>1, <2>2, Zenon DEF Unused
  <2> QED BY <2>1, <2>4, <2>5 DEF PipeOf
<1> QED BY <1>1, PipeOfAll, Zenon

LEMMA PipeInvStep ==
  ASSUME Counted, TypeOK, MainInv, PipeInv, TypeOK', MainInv', [Next]_vars
  PROVE  PipeInv'
<1>1. ASSUME NEW p \in Party, MainStep(p) PROVE PipeInv'
  BY <1>1, PipeMain, Zenon
<1>2. ASSUME NEW p \in Party, Prep(p) \/ RunTh(p) \/ Inter(p) PROVE PipeInv'
  BY <1>2, PipeThreads, Zenon
<1>3. ASSUME NEW p \in Party, Crash(p) \/ Fails(p) \/ Kill(p) PROVE PipeInv'
  <2>1. Ends(p) \/ \E t \in Thread : ThreadThrows(p, t)
    BY <1>3, Zenon DEF Ends, Fails
  <2> QED BY <2>1, PipeEnds, PipeThrows, Zenon
<1>4. ASSUME UNCHANGED vars PROVE PipeInv'
  <2>1. Grows
    BY <1>4 DEF Grows, TypeOK, LinkTypes, vars
  <2>2. ASSUME NEW r \in Party PROVE PipeOf(r)'
    <3>1. inp' = inp /\ cfg' = cfg /\ pc' = pc /\ PipeOf(r) /\ Quiet(r)
      BY <1>4, PipeOfAll, Zenon DEF Quiet, vars
    <3> QED BY <2>1, <3>1, QuietPipe, Zenon
  <2> QED BY <2>2, PipeOfAll, Zenon
<1> QED BY <1>1, <1>2, <1>3, <1>4, PipeRestart, Zenon DEF Next, Terminated

=============================================================================
