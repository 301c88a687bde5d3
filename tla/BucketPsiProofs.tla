-------------------------- MODULE BucketPsiProofs ---------------------------
(* Proofs about BucketPsi, for lists, buckets and numbers of crashes of any  *)
(* size, first part: types, what an exchange does to the links, and what     *)
(* the steps of the main threads and of the threads of AsyncRun leave alone. *)
EXTENDS BucketPsi, TLAPS

HIDE BucketAssumption

LEMMA Parties ==
  /\ \A p \in Party : Other(p) \in Party /\ Other(p) # p /\ Other(Other(p)) = p
  /\ \A p, q \in Party : q = p \/ q = Other(p)
BY DEF Party, Other

LEMMA InSeq ==
  \A S : \A s \in Seq(S) : \A k \in 1 .. Len(s) : s[k] \in S
OBVIOUS

LEMMA Appended ==
  \A S : \A s \in Seq(S) : \A e \in S :
    /\ Append(s, e) \in Seq(S) /\ Len(Append(s, e)) = Len(s) + 1
    /\ Append(s, e)[Len(s) + 1] = e
    /\ \A k \in 1 .. Len(s) : Append(s, e)[k] = s[k]
OBVIOUS

LEMMA HeadTail ==
  \A S : \A s \in Seq(S) : s # <<>> =>
    /\ Head(s) \in S /\ Head(s) = s[1] /\ Len(s) \in Nat /\ Len(s) > 0
    /\ Tail(s) \in Seq(S) /\ Len(Tail(s)) = Len(s) - 1
    /\ \A k \in 1 .. Len(Tail(s)) : Tail(s)[k] = s[k + 1]
OBVIOUS

\* Lists, buckets and their number.
LEMMA Lists ==
  ASSUME inp \in Inputs
  PROVE  /\ BucketNum \in Nat
         /\ \A p \in Party :
              /\ Len(inp.key[p]) \in Nat
              /\ \A i \in Items(p) : i \in Nat /\ Key(p, i) \in Nat /\ Dup(p, i) \in Nat
              /\ \A i, j \in Items(p) : Key(p, i) = Key(p, j) => i = j
              /\ \A b : Bucket(p, b) \subseteq Items(p)
<1>1. ASSUME NEW p \in Party
      PROVE  /\ inp.key[p] \in Seq(Nat) /\ inp.dup[p] \in Seq(Nat)
             /\ Len(inp.dup[p]) = Len(inp.key[p])
             /\ \A i, j \in 1 .. Len(inp.key[p]) : inp.key[p][i] = inp.key[p][j] => i = j
  BY BucketAssumption, Zenon
<1>2. ASSUME NEW p \in Party
      PROVE  /\ Len(inp.key[p]) \in Nat
             /\ \A i \in Items(p) : i \in Nat /\ Key(p, i) \in Nat /\ Dup(p, i) \in Nat
             /\ \A i, j \in Items(p) : Key(p, i) = Key(p, j) => i = j
  <2> DEFINE n == Len(inp.key[p])
  <2>1. n \in Nat /\ Items(p) = 0 .. n - 1
    BY <1>1 DEF Items
  <2>2. \A i \in Items(p) : i \in Nat /\ i + 1 \in 1 .. n
    BY <2>1
  <2>3. \A k \in 1 .. n : inp.key[p][k] \in Nat /\ inp.dup[p][k] \in Nat
    BY <1>1, InSeq, Zenon
  <2>4. \A i \in Items(p) : Key(p, i) \in Nat /\ Dup(p, i) \in Nat
    BY <2>2, <2>3, Zenon DEF Key, Dup
  <2>5. ASSUME NEW i \in Items(p), NEW j \in Items(p), Key(p, i) = Key(p, j) PROVE i = j
    <3>1. i + 1 = j + 1
      BY <1>1, <2>2, <2>5, Zenon DEF Key
    <3> QED BY <3>1, <2>2
  <2> QED BY <2>1, <2>2, <2>4, <2>5, Zenon
<1>3. ASSUME NEW p \in Party PROVE \A b : Bucket(p, b) \subseteq Items(p)
  BY Zenon DEF Bucket
<1>4. BucketNum \in Nat
  <2> DEFINE n == Len(inp.key[0])
             m == Len(inp.key[1])
  <2>1. n \in Nat /\ m \in Nat /\ BucketSize \in Nat \ {0}
    BY <1>2, BucketAssumption, Zenon DEF Party
  <2> HIDE DEF n, m
  <2>2. CeilDiv(n, BucketSize) \in Nat /\ CeilDiv(m, BucketSize) \in Nat
    BY <2>1 DEF CeilDiv
  <2>3. NegotiateBucketNum(n, m) \in Nat
    BY <2>2, Zenon DEF NegotiateBucketNum, Larger
  <2> QED BY <2>3, Zenon DEF BucketNum, n, m
<1> QED BY <1>2, <1>3, <1>4, Zenon

\* The task is fixed, and with it everything that depends on it alone.
LEMMA Fixed ==
  ASSUME inp' = inp, cfg' = cfg
  PROVE  /\ BucketNum' = BucketNum /\ (Skips' <=> Skips)
         /\ \A p : /\ Items(p)' = Items(p) /\ Hello(p)' = Hello(p)
                   /\ (GetsResult(p)' <=> GetsResult(p))
         /\ \A p, b : /\ Bucket(p, b)' = Bucket(p, b)
                      /\ Expected(p, b)' = Expected(p, b)
                      /\ Masked(p, b)' = Masked(p, b)
         /\ \A b : (Null(b)' <=> Null(b)) /\ LoopNote(b)' = LoopNote(b)
         /\ \A p, S : Told(p, S)' = Told(p, S)
<1>1. BucketNum' = BucketNum
  BY Zenon DEF BucketNum
<1>2. \A p : Items(p)' = Items(p) /\ \A i : Key(p, i)' = Key(p, i) /\ Dup(p, i)' = Dup(p, i)
  BY Zenon DEF Items, Key, Dup
<1>3. \A p, b : Bucket(p, b)' = Bucket(p, b)
  BY <1>1, <1>2, Zenon DEF Bucket
<1>4. \A p, S, T : Matches(p, S, T)' = Matches(p, S, T)
  BY <1>2, Zenon DEF Matches
<1>5. \A p, b : Expected(p, b)' = Expected(p, b)
  BY <1>3, <1>4, Zenon DEF Expected
<1>6. \A p : Hello(p)' = Hello(p)
  BY <1>2, Zenon DEF Hello
<1>7. Skips' <=> Skips
  BY <1>6, Zenon DEF Skips, DigestEqual
<1>8. \A p, S : Told(p, S)' = Told(p, S)
  BY <1>2, Zenon DEF Told
<1>9. \A b : (Null(b)' <=> Null(b)) /\ LoopNote(b)' = LoopNote(b)
  BY <1>1, <1>3, Zenon DEF Null, LoopNote
<1>10. \A p : GetsResult(p)' <=> GetsResult(p)
  BY Zenon DEF GetsResult
<1>11. \A p, b : Masked(p, b)' = Masked(p, b)
  BY <1>3, <1>5, Zenon DEF Masked
<1> QED BY <1>1, <1>2, <1>3, <1>5, <1>6, <1>7, <1>8, <1>9, <1>10, <1>11, Zenon

-----------------------------------------------------------------------------
(* What an exchange does to the links.                                       *)

LEMMA Exchanged ==
  ASSUME LinkTypes, NEW p \in Party, NEW T \in SUBSET Ctx, NEW S \in SUBSET Ctx,
         NEW m, S # {} => m \in Message, Exchange(p, T, S, m)
  PROVE  /\ LinkTypes'
         /\ link'[Other(p)] = link[Other(p)] /\ got'[Other(p)] = got[Other(p)]
         /\ \A c \in Ctx \ S : link'[p][c] = link[p][c]
         /\ \A c \in S : /\ Len(link'[p][c]) = Len(link[p][c]) + 1
                         /\ link'[p][c][Len(link[p][c]) + 1] = m
                         /\ \A k \in 1 .. Len(link[p][c]) : link'[p][c][k] = link[p][c][k]
         /\ \A c \in T : got'[p][c] = got[p][c] + 1 /\ got[p][c] < Len(link[Other(p)][c])
         /\ \A c \in Ctx \ T : got'[p][c] = got[p][c]
<1> DEFINE q == Other(p)
           F == [c \in Ctx |-> IF c \in S THEN Append(link[p][c], m) ELSE link[p][c]]
           G == [c \in Ctx |-> IF c \in T THEN got[p][c] + 1 ELSE got[p][c]]
<1>1. link' = [link EXCEPT ![p] = F] /\ got' = [got EXCEPT ![p] = G]
  BY Zenon DEF Exchange
<1>2. \A c \in T : got[p][c] < Len(link[q][c])
  BY Zenon DEF Exchange, Arrived
<1>3. q \in Party /\ q # p /\ Other(q) = p
  BY Parties, Zenon
<1>4. link \in [Party -> [Ctx -> Seq(Message)]] /\ got \in [Party -> [Ctx -> Nat]]
  BY Zenon DEF LinkTypes
<1>5. ASSUME NEW c \in S
      PROVE  /\ F[c] \in Seq(Message)
             /\ Len(F[c]) = Len(link[p][c]) + 1 /\ F[c][Len(link[p][c]) + 1] = m
             /\ \A k \in 1 .. Len(link[p][c]) : F[c][k] = link[p][c][k]
  <2>1. link[p][c] \in Seq(Message) /\ m \in Message /\ c \in Ctx
    BY <1>4, Zenon
  <2>2. F[c] = Append(link[p][c], m)
    BY <2>1, Zenon
  <2> HIDE DEF F
  <2> QED BY <2>1, <2>2, Appended
<1>6. \A c \in Ctx \ S : F[c] = link[p][c]
  BY Zenon
<1>7. F \in [Ctx -> Seq(Message)]
  <2>1. \A c \in Ctx : F[c] \in Seq(Message)
    BY <1>4, <1>5, <1>6, Zenon
  <2> QED BY <2>1, Zenon
<1>8. G \in [Ctx -> Nat] /\ (\A c \in T : G[c] = got[p][c] + 1) /\ \A c \in Ctx \ T : G[c] = got[p][c]
  BY <1>4
<1> HIDE DEF F, G
<1>9. link'[p] = F /\ link'[q] = link[q] /\ got'[p] = G /\ got'[q] = got[q]
  BY <1>1, <1>3, <1>4, Zenon
<1>10. link' \in [Party -> [Ctx -> Seq(Message)]] /\ got' \in [Party -> [Ctx -> Nat]]
  BY <1>1, <1>4, <1>7, <1>8, Zenon
<1>11. \A c \in Ctx : got'[p][c] <= Len(link'[q][c])
  <2> SUFFICES ASSUME NEW c \in Ctx PROVE G[c] <= Len(link[q][c])
    BY <1>9, Zenon
  <2>1. got[p][c] <= Len(link[q][c]) /\ got[p][c] \in Nat /\ Len(link[q][c]) \in Nat
    BY <1>3, <1>4 DEF LinkTypes
  <2>2. CASE c \in T
    BY <2>1, <2>2, <1>2, <1>8
  <2>3. CASE c \notin T
    BY <2>1, <2>3, <1>8, Zenon
  <2> QED BY <2>2, <2>3, Zenon
<1>12. \A c \in Ctx : got'[q][c] <= Len(link'[p][c])
  <2> SUFFICES ASSUME NEW c \in Ctx PROVE got[q][c] <= Len(F[c])
    BY <1>9, Zenon
  <2>1. got[q][c] <= Len(link[p][c]) /\ got[q][c] \in Nat /\ Len(link[p][c]) \in Nat
    BY <1>3, <1>4 DEF LinkTypes
  <2>2. CASE c \in S
    BY <2>1, <2>2, <1>5
  <2>3. CASE c \notin S
    BY <2>1, <2>3, <1>6, Zenon
  <2> QED BY <2>2, <2>3, Zenon
<1>13. LinkTypes'
  BY <1>10, <1>11, <1>12, <1>3, Parties, Zenon DEF LinkTypes
<1> QED BY <1>2, <1>5, <1>6, <1>8, <1>9, <1>13, Zenon

-----------------------------------------------------------------------------
(* Types.                                                                    *)

LEMMA Constants ==
  ASSUME ControlTypes
  PROVE  /\ cfg.protocol \in {"KKRT", "RR22"}
         /\ cfg.broadcast \in BOOLEAN /\ cfg.recovery \in BOOLEAN
         /\ inp \in Inputs
BY BucketAssumption, Zenon DEF ControlTypes

\* What the sizes of buckets and results tell: the messages and the branches of
\* the code that use sizes rest on this.  It holds of finite lists with unique
\* keys (LEMMA Sizes); the steps are proved from it.
Counted ==
  \A p \in Party : \A b :
    /\ Cardinality(Bucket(p, b)) \in Nat
    /\ Cardinality(Bucket(p, b)) = 0 <=> Bucket(p, b) = {}
    /\ Cardinality(Expected(p, b)) \in Nat
    /\ Cardinality(Expected(p, b)) = 0 <=> Expected(p, b) = {}
    /\ Cardinality(Told(Other(p), {h.idx : h \in Expected(Other(p), b)})) = Cardinality(Bucket(p, b))
         => Bucket(p, b) \subseteq {h.idx : h \in Expected(p, b)}

\* The messages of all actions.
LEMMA Messages ==
  ASSUME Counted, ControlTypes, NEW p \in Party
  PROVE  /\ \A place \in Place, b \in Int :
              /\ Note(place, b) \in Message
              /\ Size(p, place, b) \in Message
              /\ \A n \in Nat : [at |-> place, b |-> b, size |-> n] \in Message
              /\ \A S \in SUBSET Items(p) : Telling(p, place, b, S) \in Message
         /\ Hello(p) \in Message /\ ListSize(p) \in Message /\ Record(p) \in Message
<1>1. inp \in Inputs
  BY Zenon DEF ControlTypes
<1>2. ASSUME NEW place \in Place, NEW b \in Int
      PROVE  Note(place, b) \in Message /\ Size(p, place, b) \in Message
  <2>1. Cardinality(Bucket(p, b)) \in Nat
    BY Zenon DEF Counted
  <2> QED BY <2>1, Zenon DEF Note, Size, Message
<1>3. ASSUME NEW place \in Place, NEW b \in Int, NEW n \in Nat
      PROVE  [at |-> place, b |-> b, size |-> n] \in Message
  BY Zenon DEF Message
<1>4. ASSUME NEW place \in Place, NEW b \in Int, NEW S \in SUBSET Items(p)
      PROVE  Telling(p, place, b, S) \in Message
  <2>1. Told(p, S) \in SUBSET [key : Nat, dup : Nat]
    BY <1>1, Lists DEF Told
  <2> QED BY <2>1, Zenon DEF Telling, Message
<1>5. Hello(p) \in Message
  <2>1. {Key(p, i) : i \in Items(p)} \in SUBSET Nat /\ Len(inp.key[p]) \in Nat
    BY <1>1, Lists
  <2>2. (\A i \in Items(p) : Dup(p, i) = 0) \in BOOLEAN
    BY Zenon
  <2> QED BY <2>1, <2>2 DEF Hello, Message, Place
<1>6. ListSize(p) \in Message
  <2>1. Len(inp.key[p]) \in Nat
    BY <1>1, Lists, Zenon
  <2> QED BY <2>1 DEF ListSize, Message, Place
<1>7. Record(p) \in Message
  <2>1. ckpt[p].stage \in Nat /\ ckpt[p].cnt \in Nat
    BY Zenon DEF ControlTypes
  <2> QED BY <2>1 DEF Record, Message, Place
<1> QED BY <1>2, <1>3, <1>4, <1>5, <1>6, <1>7, Zenon

-----------------------------------------------------------------------------
(* What arrives is what is waited for.                                       *)

LEMMA NoteParts ==
  \A a, b, c, d : Note(a, b) = Note(c, d) <=> a = c /\ b = d
BY Zenon DEF Note

LEMMA LinkParts ==
  ASSUME TypeOK, NEW p \in Party
  PROVE  /\ LinkTypes /\ Other(p) \in Party
         /\ \A c \in Ctx : /\ link[p][c] \in Seq(Message) /\ Len(link[p][c]) \in Nat
                           /\ got[p][c] \in Nat /\ got[p][c] <= Len(link[Other(p)][c])
         /\ \A c \in Ctx : Len(link[Other(p)][c]) \in Nat
         /\ "main" \in Ctx /\ "read" \in Ctx /\ "run" \in Ctx /\ "inter" \in Ctx
<1>1. LinkTypes /\ Other(p) \in Party
  BY Parties, Zenon DEF TypeOK
<1>2. \A r \in Party : \A c \in Ctx : link[r][c] \in Seq(Message)
  BY <1>1, Zenon DEF LinkTypes
<1>3. \A s \in Seq(Message) : Len(s) \in Nat
  OBVIOUS
<1>4. \A c \in Ctx : got[p][c] \in Nat /\ got[p][c] <= Len(link[Other(p)][c])
  BY <1>1, Zenon DEF LinkTypes
<1>5. "main" \in Ctx /\ "read" \in Ctx /\ "run" \in Ctx /\ "inter" \in Ctx
  BY Zenon DEF Ctx
<1> QED BY <1>1, <1>2, <1>3, <1>4, <1>5, Zenon

LEMMA Arriving ==
  ASSUME LinkTypes, NEW p \in Party, NEW c \in Ctx, Arrived(p, c)
  PROVE  /\ got[p][c] \in Nat /\ got[p][c] + 1 \in 1 .. Len(link[Other(p)][c])
         /\ link[Other(p)][c] \in Seq(Message) /\ Msg(p, c) \in Message
         /\ Msg(p, c) = link[Other(p)][c][got[p][c] + 1]
<1>1. link[Other(p)][c] \in Seq(Message) /\ got[p][c] \in Nat
  BY Parties, Zenon DEF LinkTypes
<1>2. got[p][c] + 1 \in 1 .. Len(link[Other(p)][c])
  BY <1>1 DEF Arrived
<1> QED BY <1>1, <1>2, InSeq, Zenon DEF Msg

\* On the main context.
LEMMA Received ==
  ASSUME Counted, TypeOK, MainInv, NEW p \in Party, Working(p), Arrived(p, "main")
  PROVE  /\ Msg(p, "main").at = Awaits(pc[p]) /\ Msg(p, "main").b = idx[p]
         /\ Content(Other(p), Msg(p, "main"))
         /\ Early(Msg(p, "main"), got[p]["main"] + 1)
<1> DEFINE q == Other(p)
           s == link[q]["main"]
           g == got[p]["main"]
           m == Msg(p, "main")
<1>1. q \in Party /\ "main" \in Ctx /\ LinkTypes
  BY Parties, Zenon DEF Ctx, TypeOK
<1>2. g \in Nat /\ g + 1 \in 1 .. Len(s) /\ m = s[g + 1] /\ Len(s) \in Nat
  BY <1>1, Arriving
<1>3. Script(q) /\ ReadsInStep(p)
  BY <1>1, Zenon DEF MainInv
<1>4. Content(q, m) /\ Early(m, g + 1)
  BY <1>2, <1>3, Zenon DEF Script
<1>5. CASE g = 0
  <2>1. m.at = "Init" /\ m = Hello(q)
    <3>1. g + 1 = 1
      BY <1>5
    <3> QED BY <1>2, <1>3, <1>4, <3>1, Zenon DEF Script, Content
  <2>2. m.b = 0
    BY <2>1 DEF Hello
  <2>3. pc[p] = "Init" /\ idx[p] = 0
    BY <1>3, <1>5, Zenon DEF ReadsInStep
  <2> QED BY <1>4, <2>1, <2>2, <2>3, Zenon DEF Awaits
<1>6. CASE g # 0
  <2>1. g \in 1 .. Len(s) - 1
    BY <1>2, <1>6
  <2>2. Then(q, s[g], Note(m.at, m.b))
    BY <1>2, <1>3, <2>1, Zenon DEF Script
  <2>3. Then(q, s[g], Note(Awaits(pc[p]), idx[p]))
    BY <1>3, <1>6, Zenon DEF ReadsInStep
  <2>4. Note(m.at, m.b) = Note(Awaits(pc[p]), idx[p])
    BY <2>2, <2>3, Zenon DEF Then
  <2> QED BY <1>4, <2>4, NoteParts
<1> QED BY <1>5, <1>6, Zenon

\* Two buckets that are due after the same message, and not null, are one.
LEMMA DueOnce ==
  ASSUME inp \in Inputs, NEW s, NEW k, NEW b \in 0 .. BucketNum - 1, NEW d \in 0 .. BucketNum - 1,
         Due(s, k, b), Due(s, k, d), ~Null(b), ~Null(d)
  PROVE  b = d
<1>1. BucketNum \in Nat
  BY Lists, Zenon
<1>2. ~(b < d) /\ ~(d < b)
  BY Zenon DEF Due
<1> QED BY <1>1, <1>2

\* After a message about bucket b the next bucket is due.
LEMMA DueNext ==
  ASSUME inp \in Inputs, NEW s, NEW k \in Nat, NEW b \in Int, s[k + 1].b = b
  PROVE  Due(s, k + 2, b + 1)
<1>1. k + 2 # 1 /\ (k + 2) - 1 = k + 1
  OBVIOUS
<1>2. Before(s, k + 2) = b
  BY <1>1, Zenon DEF Before
<1> QED BY <1>2, Lists DEF Due

LEMMA RunReceived ==
  ASSUME Counted, TypeOK, PipeInv, NEW p \in Party, InPipe(p, "run", "recv"), Arrived(p, "run")
  PROVE  /\ Msg(p, "run").at = "recv" /\ Msg(p, "run").b = Runner(p, "run").b
         /\ Due(link[Other(p)]["run"], got[p]["run"] + 2, Runner(p, "run").b + 1)
<1> DEFINE q == Other(p)
           s == link[q]["run"]
           g == got[p]["run"]
           m == Msg(p, "run")
           r == Runner(p, "run")
<1>1. q \in Party /\ "run" \in Ctx /\ LinkTypes /\ inp \in Inputs
  BY Parties, Zenon DEF Ctx, TypeOK, ControlTypes
<1>2. g \in Nat /\ g + 1 \in 1 .. Len(s) /\ m = s[g + 1]
  BY <1>1, Arriving, Zenon
<1>3. Chain(s) /\ RunInStep(p) /\ th[p]["run"].at = "recv"
  BY <1>1, Zenon DEF PipeInv, InPipe, History, Threads
<1>4. m.at = "recv" /\ m.b \in 0 .. BucketNum - 1 /\ ~Null(m.b) /\ Due(s, g + 1, m.b)
  BY <1>2, <1>3, Zenon DEF Chain
<1>5. r.b \in 0 .. BucketNum - 1 /\ ~Null(r.b) /\ p # Receiver
  BY <1>3, Zenon DEF RunInStep
<1>6. Due(s, g + 1, r.b)
  BY <1>3, <1>5, Zenon DEF RunInStep, UpTo
<1>7. m.b = r.b
  BY <1>1, <1>4, <1>5, <1>6, DueOnce, Zenon
<1>8. Due(s, g + 2, r.b + 1)
  <2>1. s[g + 1].b = r.b /\ r.b \in Int
    BY <1>1, <1>2, <1>5, <1>7, Lists
  <2> QED BY <1>1, <1>2, <2>1, DueNext, Zenon
<1> QED BY <1>4, <1>7, <1>8, Zenon

LEMMA InterReceived ==
  ASSUME Counted, TypeOK, PipeInv, NEW p \in Party, InPipe(p, "inter", "recv"), Arrived(p, "inter")
  PROVE  /\ Msg(p, "inter").at = "recv" /\ Msg(p, "inter").b = Runner(p, "inter").b
         /\ Msg(p, "inter").told = Told(Other(p), Masked(Other(p), Runner(p, "inter").b))
         /\ Due(link[Other(p)]["inter"], got[p]["inter"] + 2, Runner(p, "inter").b + 1)
<1> DEFINE q == Other(p)
           s == link[q]["inter"]
           g == got[p]["inter"]
           m == Msg(p, "inter")
           r == Runner(p, "inter")
<1>1. q \in Party /\ "inter" \in Ctx /\ LinkTypes /\ inp \in Inputs
  BY Parties, Zenon DEF Ctx, TypeOK, ControlTypes
<1>2. g \in Nat /\ g + 1 \in 1 .. Len(s) /\ m = s[g + 1]
  BY <1>1, Arriving, Zenon
<1>3. Chain(s) /\ InterInStep(p) /\ InterScript(q) /\ th[p]["inter"].at = "recv"
  BY <1>1, Zenon DEF PipeInv, InPipe, History, Threads
<1>4. m.at = "recv" /\ m.b \in 0 .. BucketNum - 1 /\ ~Null(m.b) /\ Due(s, g + 1, m.b)
  BY <1>2, <1>3, Zenon DEF Chain
<1>5. r.b \in 0 .. BucketNum - 1 /\ ~Null(r.b) /\ GetsResult(p)
  BY <1>3, Zenon DEF InterInStep
<1>6. Due(s, g + 1, r.b)
  BY <1>3, <1>5, Zenon DEF InterInStep, UpTo
<1>7. m.b = r.b
  BY <1>1, <1>4, <1>5, <1>6, DueOnce, Zenon
<1>8. m.told = Told(q, Masked(q, m.b))
  BY <1>2, <1>3, Zenon DEF InterScript
<1>9. Due(s, g + 2, r.b + 1)
  <2>1. s[g + 1].b = r.b /\ r.b \in Int
    BY <1>1, <1>2, <1>5, <1>7, Lists
  <2> QED BY <1>1, <1>2, <2>1, DueNext, Zenon
<1> QED BY <1>4, <1>7, <1>8, <1>9, Zenon

\* On the context of the prepare threads.
LEMMA PrepReceived ==
  ASSUME Counted, TypeOK, PipeInv, NEW p \in Party, pc[p] = "AsyncRun",
         th[p]["prep"].at \in {"size", "vole"}, Arrived(p, "read")
  PROVE  /\ Msg(p, "read").at = th[p]["prep"].at /\ Msg(p, "read").b = Runner(p, "prep").b
         /\ Msg(p, "read").at = "size"
              => Msg(p, "read").size = Cardinality(Bucket(Other(p), Msg(p, "read").b))
<1> DEFINE q == Other(p)
           s == link[q]["read"]
           g == got[p]["read"]
           m == Msg(p, "read")
           r == Runner(p, "prep")
<1>1. q \in Party /\ "read" \in Ctx /\ LinkTypes
  BY Parties, Zenon DEF Ctx, TypeOK
<1>2. g \in Nat /\ g + 1 \in 1 .. Len(s) /\ m = s[g + 1]
  BY <1>1, Arriving, Zenon
<1>3. ReadScript(q) /\ PrepInStep(p)
  BY <1>1, Zenon DEF PipeInv, History, Threads
<1>4. Note(m.at, m.b) = AfterRead(s, g) /\ (m.at = "size" => m.size = Cardinality(Bucket(q, m.b)))
  <2>1. g + 1 - 1 = g
    BY <1>2
  <2>2. \A k \in 1 .. Len(s) :
          /\ Note(s[k].at, s[k].b) = AfterRead(s, k - 1)
          /\ s[k].at = "size" => s[k].size = Cardinality(Bucket(q, s[k].b))
    BY <1>3, Zenon DEF ReadScript
  <2> HIDE DEF s, g, m
  <2> QED BY <1>2, <2>1, <2>2
<1>5. AfterRead(s, g) = Note(th[p]["prep"].at, r.b)
  BY <1>3, Zenon DEF PrepInStep, PrepNext
<1> QED BY <1>4, <1>5, NoteParts

\* The invariants imply SameBucket.
LEMMA MeetAtBucket ==
  ASSUME Counted, TypeOK, MainInv, PipeInv
  PROVE  SameBucket
<1>1. ASSUME NEW p \in Party, pc[p] \in MainReceives(p) \cup {"Kkrt"}, Arrived(p, "main")
      PROVE  Msg(p, "main").at = pc[p] /\ Msg(p, "main").b = idx[p]
  <2>1. Working(p) /\ Awaits(pc[p]) = pc[p]
    BY <1>1, Zenon DEF MainReceives, Working, Awaits
  <2> QED BY <1>1, <2>1, Received, Zenon
<1>2. ASSUME NEW p \in Party, pc[p] = "AsyncRun", NEW t \in Thread,
             WaitsOn(p, t) # "none", Arrived(p, WaitsOn(p, t))
      PROVE  /\ Msg(p, WaitsOn(p, t)).at = th[p][t].at
             /\ Msg(p, WaitsOn(p, t)).b = Runner(p, t).b
  <2>1. CASE t = "prep"
    <3>1. th[p][t].at \in {"size", "vole"} /\ WaitsOn(p, t) = "read"
      BY <1>2, <2>1, Zenon DEF WaitsOn
    <3> QED BY <1>2, <2>1, <3>1, PrepReceived, Zenon
  <2>2. CASE t = "run"
    <3>1. th[p][t].at = "recv" /\ WaitsOn(p, t) = "run"
      BY <1>2, <2>2, Zenon DEF WaitsOn
    <3> QED BY <1>2, <2>2, <3>1, RunReceived, Zenon DEF InPipe
  <2>3. CASE t = "inter"
    <3>1. th[p][t].at = "recv" /\ WaitsOn(p, t) = "inter"
      BY <1>2, <2>3, Zenon DEF WaitsOn
    <3> QED BY <1>2, <2>3, <3>1, InterReceived, Zenon DEF InPipe
  <2> QED BY <2>1, <2>2, <2>3, Zenon DEF Thread
<1> QED BY <1>1, <1>2, Zenon DEF SameBucket

-----------------------------------------------------------------------------
(* Type correctness, given the scripts.                                      *)

PcTypes == pc \in [Party -> Place]

CkptTypes == ckpt \in [Party -> [stage : Nat, cnt : Nat]]

LinesTypes == lines \in [Party -> SUBSET [run : Nat, idx : Nat, dup : Nat]]

IdxTypes == idx \in [Party -> Nat]

ResTypes == res \in [Party -> SUBSET Line]

TaskTypes == inp \in Inputs /\ cfg \in Configs /\ run \in Nat /\ crashes \in Nat

ThTypes == th \in [Party -> [Thread -> [at : Place, r : BucketRunner]]]

QueueTypes == prepared \in [Party -> Seq(BucketRunner)] /\ oprf \in [Party -> Seq(BucketRunner)]

LEMMA TypeParts ==
  TypeOK <=> /\ TaskTypes /\ PcTypes /\ CkptTypes /\ LinesTypes /\ IdxTypes /\ ResTypes
             /\ ThTypes /\ QueueTypes /\ LinkTypes
BY Zenon DEF TypeOK, ControlTypes, PipeTypes, TaskTypes, PcTypes, CkptTypes, LinesTypes, IdxTypes,
       ResTypes, ThTypes, QueueTypes

LEMMA TypesKept ==
  TaskTypes' /\ PcTypes' /\ CkptTypes' /\ LinesTypes' /\ IdxTypes' /\ ResTypes'
    /\ ThTypes' /\ QueueTypes' /\ LinkTypes' => TypeOK'
BY Zenon DEF TypeOK, ControlTypes, PipeTypes, TaskTypes, PcTypes, CkptTypes, LinesTypes, IdxTypes,
       ResTypes, ThTypes, QueueTypes

LEMMA GotoTypes ==
  ASSUME PcTypes, NEW p \in Party, NEW place \in Place, Goto(p, place)
  PROVE  PcTypes'
BY Zenon DEF PcTypes, Goto

LEMMA MarkTypes ==
  ASSUME CkptTypes, NEW p \in Party, NEW s \in Nat,
         MarkStage(p, s) \/ UpdateParsedBucketCount(p, s)
  PROVE  CkptTypes'
<1>1. CASE MarkStage(p, s)
  <2>1. ckpt[p].stage \in Nat /\ ckpt[p].cnt \in Nat
    BY Zenon DEF CkptTypes
  <2>2. (IF cfg.recovery THEN Larger(ckpt[p].stage, s) ELSE ckpt[p].stage) \in Nat
    BY <2>1, Zenon DEF Larger
  <2> QED BY <1>1, <2>1, <2>2, Zenon DEF MarkStage, CkptTypes
<1>2. CASE UpdateParsedBucketCount(p, s)
  <2>1. [stage |-> ONLINE_START, cnt |-> s] \in [stage : Nat, cnt : Nat]
    BY Zenon DEF ONLINE_START
  <2> QED BY <1>2, <2>1, Zenon DEF UpdateParsedBucketCount, CkptTypes
<1> QED BY <1>1, <1>2, Zenon

LEMMA WriteTypes ==
  ASSUME LinesTypes, TaskTypes, NEW p \in Party, NEW hits \in SUBSET Line, WriteLines(p, hits)
  PROVE  LinesTypes'
<1>1. {[run |-> run, idx |-> h.idx, dup |-> h.dup] : h \in hits}
        \in SUBSET [run : Nat, idx : Nat, dup : Nat]
  BY DEF TaskTypes, Line
<1> QED BY <1>1, Zenon DEF WriteLines, LinesTypes

LEMMA HitsTypes ==
  ASSUME TaskTypes, NEW p \in Party, NEW S \in SUBSET Items(p),
         NEW told \in SUBSET [key : Nat, dup : Nat]
  PROVE  /\ Hits(p, S, told) \in SUBSET Line
         /\ {h.idx : h \in Hits(p, S, told)} \in SUBSET S
<1>1. \A i \in S : i \in Nat
  BY Lists, Zenon DEF TaskTypes
<1>2. \A x \in S \X told : x[1] \in S /\ x[2] \in told
  BY Zenon
<1>3. \A h \in Hits(p, S, told) : h \in Line /\ h.idx \in S
  <2> SUFFICES ASSUME NEW h \in Hits(p, S, told) PROVE h \in Line /\ h.idx \in S
    BY Zenon
  <2>1. PICK x \in S \X told : h = [idx |-> x[1], dup |-> x[2].dup]
    BY Zenon DEF Hits
  <2>2. x[1] \in S /\ x[1] \in Nat /\ x[2].dup \in Nat
    BY <1>1, <1>2, Zenon
  <2> QED BY <2>1, <2>2, Zenon DEF Line
<1> QED BY <1>3, Zenon

\* Expected lines are about items of the bucket.
LEMMA ExpectedItems ==
  \A p, b : {h.idx : h \in Expected(p, b)} \subseteq Bucket(p, b)
<1> SUFFICES ASSUME NEW p, NEW b, NEW h \in Expected(p, b) PROVE h.idx \in Bucket(p, b)
  BY Zenon
<1> DEFINE X == Bucket(p, b) \X Bucket(Other(p), b)
<1>1. PICK x \in X : h = [idx |-> x[1], dup |-> Dup(Other(p), x[2])]
  BY Zenon DEF Expected, Matches
<1>2. x[1] \in Bucket(p, b)
  BY Zenon
<1> QED BY <1>1, <1>2, Zenon

\* The receiver's hits on what was told of T are the matches with T.
LEMMA HitsMatch ==
  \A p, S, T : Hits(p, S, Told(Other(p), T)) = Matches(p, S, T)
<1> SUFFICES ASSUME NEW p, NEW S, NEW T
             PROVE  Hits(p, S, Told(Other(p), T)) = Matches(p, S, T)
  BY Zenon
<1> DEFINE q == Other(p)
           told == Told(q, T)
           H == Hits(p, S, told)
           M == Matches(p, S, T)
<1>1. ASSUME NEW h \in H PROVE h \in M
  <2>1. PICK x \in S \X told : x[2].key = Key(p, x[1]) /\ h = [idx |-> x[1], dup |-> x[2].dup]
    BY <1>1, Zenon DEF Hits
  <2>2. x[1] \in S /\ x[2] \in told
    BY Zenon
  <2>3. PICK j \in T : x[2] = [key |-> Key(q, j), dup |-> Dup(q, j)]
    BY <2>2, Zenon DEF Told
  <2> DEFINE y == <<x[1], j>>
  <2>4. y \in S \X T /\ Key(p, y[1]) = Key(q, y[2])
    BY <2>1, <2>2, <2>3
  <2>5. h = [idx |-> y[1], dup |-> Dup(q, y[2])]
    BY <2>1, <2>3
  <2> HIDE DEF y
  <2> QED BY <2>4, <2>5, Zenon DEF Matches
<1>2. ASSUME NEW h \in M PROVE h \in H
  <2>1. PICK y \in S \X T : Key(p, y[1]) = Key(q, y[2]) /\ h = [idx |-> y[1], dup |-> Dup(q, y[2])]
    BY <1>2, Zenon DEF Matches
  <2>2. y[1] \in S /\ y[2] \in T
    BY Zenon
  <2> DEFINE t == [key |-> Key(q, y[2]), dup |-> Dup(q, y[2])]
             x == <<y[1], t>>
  <2>3. t \in told
    BY <2>2, Zenon DEF Told
  <2>4. x \in S \X told /\ x[2].key = Key(p, x[1])
    BY <2>1, <2>2, <2>3, Zenon
  <2>5. h = [idx |-> x[1], dup |-> x[2].dup]
    BY <2>1, Zenon
  <2> HIDE DEF x
  <2> QED BY <2>4, <2>5, Zenon DEF Hits
<1> QED BY <1>1, <1>2, Zenon

\* The sender finds the same pairs among the receiver's hits.
LEMMA MatchBack ==
  ASSUME NEW p \in Party, NEW b
  PROVE  Matches(p, Bucket(p, b), {h.idx : h \in Expected(Other(p), b)}) = Expected(p, b)
<1> DEFINE q == Other(p)
           S == Bucket(p, b)
           T == Bucket(q, b)
           U == {h.idx : h \in Expected(q, b)}
<1>0. Other(q) = p
  BY Parties, Zenon
<1>1. U \subseteq T
  BY ExpectedItems, Zenon
<1>2. ASSUME NEW i \in S, NEW j \in T, Key(p, i) = Key(q, j) PROVE j \in U
  <2> DEFINE y == <<j, i>>
             h == [idx |-> y[1], dup |-> Dup(p, y[2])]
  <2>1. y \in T \X S /\ Key(q, y[1]) = Key(p, y[2]) /\ h.idx = j
    BY <1>2, Zenon
  <2> HIDE DEF y
  <2>2. h \in Expected(q, b)
    BY <1>0, <2>1, Zenon DEF Expected, Matches
  <2> HIDE DEF h
  <2> QED BY <2>1, <2>2, Zenon
<1>3. Matches(p, S, U) = Matches(p, S, T)
  <2>1. \A y : y \in S \X U /\ Key(p, y[1]) = Key(q, y[2])
               <=> y \in S \X T /\ Key(p, y[1]) = Key(q, y[2])
    <3> HIDE DEF U
    <3> QED BY <1>1, <1>2, Zenon
  <2>2. {y \in S \X U : Key(p, y[1]) = Key(q, y[2])} = {y \in S \X T : Key(p, y[1]) = Key(q, y[2])}
    <3> HIDE DEF U, S, T, q
    <3> QED BY <2>1, Zenon
  <2> QED BY <2>2, Zenon DEF Matches
<1> QED BY <1>3, Zenon DEF Expected

LEMMA ToldTypes ==
  ASSUME TaskTypes, NEW p \in Party
  PROVE  \A S \in SUBSET Items(p) : Told(p, S) \in SUBSET [key : Nat, dup : Nat]
BY Lists DEF TaskTypes, Told

LEMMA MoveTypes ==
  ASSUME ThTypes, NEW p \in Party, NEW t \in Thread, NEW at \in Place, NEW r \in BucketRunner,
         Move(p, t, at, r)
  PROVE  ThTypes'
BY Zenon DEF ThTypes, Move

LEMMA FirstRunner ==
  NoRunner \in BucketRunner /\ \A b \in Int : [NoRunner EXCEPT !.b = b] \in BucketRunner
<1>1. NoRunner \in BucketRunner
  BY DEF NoRunner, BucketRunner
<1>2. \A b \in Int : [NoRunner EXCEPT !.b = b] \in BucketRunner
  BY Zenon DEF NoRunner, BucketRunner
<1> QED BY <1>1, <1>2, Zenon

LEMMA RunnerTypes ==
  ASSUME ThTypes, NEW p \in Party, NEW t \in Thread
  PROVE  /\ Runner(p, t) \in BucketRunner /\ Runner(p, t).b \in Int
         /\ \A b \in Int : [NoRunner EXCEPT !.b = b] \in BucketRunner
         /\ \A r \in BucketRunner, n \in BOOLEAN : [r EXCEPT !.null = n] \in BucketRunner
         /\ \A r \in BucketRunner, h \in SUBSET Line : [r EXCEPT !.hits = h] \in BucketRunner
<1>1. Runner(p, t) \in BucketRunner
  BY Zenon DEF ThTypes, Runner
<1>2. Runner(p, t).b \in Int
  BY <1>1, Zenon DEF BucketRunner
<1>3. \A b \in Int : [NoRunner EXCEPT !.b = b] \in BucketRunner
  BY FirstRunner, Zenon
<1>4. \A r \in BucketRunner, n \in BOOLEAN : [r EXCEPT !.null = n] \in BucketRunner
  BY Zenon DEF BucketRunner
<1>5. \A r \in BucketRunner, h \in SUBSET Line : [r EXCEPT !.hits = h] \in BucketRunner
  BY Zenon DEF BucketRunner
<1> QED BY <1>1, <1>2, <1>3, <1>4, <1>5, Zenon

LEMMA NextRunnerTypes ==
  ASSUME ThTypes, NEW p \in Party, NEW t \in Thread, NEW at \in Place, NextRunner(p, t, at)
  PROVE  ThTypes'
<1> DEFINE b == Runner(p, t).b + 1
           place == IF b >= BucketNum THEN "done" ELSE at
<1>1. Move(p, t, place, [NoRunner EXCEPT !.b = b])
  BY Zenon DEF NextRunner, Runner
<1>2. b \in Int /\ [NoRunner EXCEPT !.b = b] \in BucketRunner
  BY RunnerTypes
<1>3. place \in Place
  BY Zenon DEF Place
<1> HIDE DEF place, b
<1> QED BY <1>1, <1>2, <1>3, MoveTypes, Zenon

LEMMA EnterTypes ==
  ASSUME Counted, TypeOK, NEW p \in Party, NEW b \in Nat, EnterLoop(p, b)
  PROVE  PcTypes' /\ IdxTypes' /\ ThTypes' /\ LinkTypes'
<1> USE TypeParts
<1>1. LoopPlace(b) \in Place
  BY Zenon DEF LoopPlace, Place
<1>2. PcTypes'
  BY <1>1, GotoTypes, Zenon DEF EnterLoop
<1>3. IdxTypes'
  BY Zenon DEF EnterLoop, IdxTypes
<1>4. ThreadsAt(b) \in [Thread -> [at : Place, r : BucketRunner]]
  <2>1. NoRunner \in BucketRunner /\ [NoRunner EXCEPT !.b = b] \in BucketRunner
    BY FirstRunner
  <2>2. \A t : (IF b >= BucketNum THEN "done" ELSE IF t = "prep" THEN "load" ELSE "pop") \in Place
    BY Zenon DEF Place
  <2>3. Idle \in [Thread -> [at : Place, r : BucketRunner]]
    <3>1. [at |-> "idle", r |-> NoRunner] \in [at : Place, r : BucketRunner]
      BY <2>1, Zenon DEF Place
    <3> QED BY <3>1, Zenon DEF Idle
  <2> QED BY <2>1, <2>2, <2>3, Zenon DEF ThreadsAt
<1>5. ThTypes'
  BY <1>4, Zenon DEF EnterLoop, ThTypes
<1>6. LinkTypes'
  <2>1. Size(p, "Size", b) \in Message
    BY Messages DEF TypeOK, Place
  <2>2. {"main"} \in SUBSET Ctx /\ (IF LoopPlace(b) = "Size" THEN {"main"} ELSE {}) \in SUBSET Ctx
    BY Zenon DEF Ctx
  <2>3. Exchange(p, {"main"}, IF LoopPlace(b) = "Size" THEN {"main"} ELSE {}, Size(p, "Size", b))
    BY Zenon DEF EnterLoop
  <2> QED BY <2>1, <2>2, <2>3, Exchanged, Zenon
<1> QED BY <1>2, <1>3, <1>5, <1>6, Zenon

LEMMA LinkSteps ==
  ASSUME LinkTypes, NEW p \in Party, NEW c \in Ctx, NEW m
  PROVE  /\ RecvOn(p, c) => LinkTypes'
         /\ m \in Message /\ SendOn(p, c, m) => LinkTypes'
         /\ m \in Message /\ RecvSend(p, c, m) => LinkTypes'
<1>1. {c} \in SUBSET Ctx /\ {} \in SUBSET Ctx
  BY Zenon
<1> QED BY <1>1, Exchanged, Zenon DEF RecvOn, SendOn, RecvSend

LEMMA TypeInit ==
  ASSUME Counted, Init
  PROVE  TypeOK
<1>1. ControlTypes
  BY Zenon DEF Init, ControlTypes, Place, UNSPECIFIED
<1>2. PipeTypes
  <2>1. [at |-> "idle", r |-> NoRunner] \in [at : Place, r : BucketRunner]
    BY DEF Place, NoRunner, BucketRunner
  <2> QED BY <2>1 DEF Init, PipeTypes, Idle
<1>3. LinkTypes
  <2>1. \A p \in Party : Hello(p) \in Message
    BY <1>1, Messages, Zenon
  <2>2. \A p \in Party : \A c \in Ctx :
          (IF c = "main" THEN <<Hello(p)>> ELSE <<>>) \in Seq(Message)
    BY <2>1
  <2>3. link \in [Party -> [Ctx -> Seq(Message)]] /\ got \in [Party -> [Ctx -> Nat]]
    BY <2>2, Zenon DEF Init
  <2>4. \A p \in Party : \A c \in Ctx : got[p][c] = 0
    BY Zenon DEF Init
  <2> QED BY <2>3, <2>4, Parties DEF LinkTypes
<1> QED BY <1>1, <1>2, <1>3, Zenon DEF TypeOK

\* The main thread up to Online.
LEMMA TypeStart ==
  ASSUME Counted, TypeOK, MainInv, NEW p \in Party,
         InitEnd(p) \/ Close(p) \/ PreProcess(p) \/ OnlineStart(p) \/ OnlineGather(p)
  PROVE  TypeOK'
<1> USE TypeParts, TypesKept
<1>0. "main" \in Ctx /\ ControlTypes
  BY Zenon DEF Ctx, TypeOK
<1>e. EqualLines(p) \in SUBSET Line /\ CommittedInInit(p) \in SUBSET Line
  <2>1. Items(p) \in SUBSET Nat
    BY Lists, Zenon DEF TaskTypes
  <2> QED BY <2>1 DEF Line, EqualLines, CommittedInInit
<1>1. CASE InitEnd(p)
  <2> DEFINE same == DigestEqual(p, Msg(p, "main"))
             hits == IF same THEN CommittedInInit(p) ELSE {}
             place == IF same THEN "Close" ELSE "PreProcess"
  <2>1. hits \in SUBSET Line /\ place \in Place
    BY <1>e DEF Place
  <2>2. LinkTypes'
    BY <1>0, <1>1, Messages, LinkSteps, Zenon DEF InitEnd
  <2>3. WriteLines(p, hits) /\ MarkStage(p, INIT_END) /\ Goto(p, place)
    BY <1>1, Zenon DEF InitEnd
  <2> HIDE DEF hits, place
  <2>4. LinesTypes' /\ PcTypes'
    BY <2>1, <2>3, WriteTypes, GotoTypes, Zenon
  <2>5. CkptTypes'
    BY <2>3, MarkTypes, Zenon DEF INIT_END
  <2>6. TaskTypes' /\ IdxTypes' /\ ResTypes' /\ ThTypes' /\ QueueTypes'
    BY <1>1, Zenon DEF InitEnd, TaskTypes, IdxTypes, ResTypes, ThTypes, QueueTypes, taskVars, pipeVars
  <2> QED BY <2>2, <2>4, <2>5, <2>6, Zenon
<1>2. CASE PreProcess(p)
  <2>1. Note("OnlineStart", 0) \in Message /\ "OnlineStart" \in Place
    BY <1>0, Messages DEF Place
  <2>2. LinkTypes' /\ PcTypes'
    BY <1>0, <1>2, <2>1, LinkSteps, GotoTypes, Zenon DEF PreProcess
  <2>3. /\ TaskTypes' /\ CkptTypes' /\ LinesTypes' /\ IdxTypes' /\ ResTypes' /\ ThTypes'
        /\ QueueTypes'
    BY <1>2, Zenon DEF PreProcess, TaskTypes, CkptTypes, LinesTypes, IdxTypes, ResTypes, ThTypes,
                QueueTypes, taskVars, diskVars, pipeVars
  <2> QED BY <2>2, <2>3, Zenon
<1>3. CASE OnlineStart(p)
  <2>1. /\ TaskTypes' /\ CkptTypes' /\ LinesTypes' /\ ResTypes' /\ QueueTypes'
    BY <1>3, Zenon DEF OnlineStart, TaskTypes, CkptTypes, LinesTypes, ResTypes, QueueTypes, taskVars,
                diskVars
  <2>2. Record(p) \in Message /\ "PostProcess" \in Place /\ "OnlineGather" \in Place
    BY <1>0, Messages, Zenon DEF Place
  <2>3. CASE RecvOn(p, "main") /\ Goto(p, "PostProcess") /\ UNCHANGED <<idx, th>>
    <3>1. LinkTypes' /\ PcTypes' /\ IdxTypes' /\ ThTypes'
      BY <1>0, <2>2, <2>3, LinkSteps, GotoTypes, Zenon DEF IdxTypes, ThTypes
    <3> QED BY <2>1, <3>1, Zenon
  <2>4. CASE RecvSend(p, "main", Record(p)) /\ Goto(p, "OnlineGather") /\ UNCHANGED <<idx, th>>
    <3>1. LinkTypes' /\ PcTypes' /\ IdxTypes' /\ ThTypes'
      BY <1>0, <2>2, <2>4, LinkSteps, GotoTypes, Zenon DEF IdxTypes, ThTypes
    <3> QED BY <2>1, <3>1, Zenon
  <2>5. CASE EnterLoop(p, 0)
    BY <2>1, <2>5, EnterTypes, Zenon
  <2> QED BY <1>3, <2>3, <2>4, <2>5, Zenon DEF OnlineStart
<1>4. CASE OnlineGather(p)
  <2> DEFINE record == Msg(p, "main")
  <2>1. TaskTypes' /\ LinesTypes' /\ ResTypes' /\ QueueTypes'
    BY <1>4, Zenon DEF OnlineGather, TaskTypes, LinesTypes, ResTypes, QueueTypes, taskVars
  <2>2. CkptTypes'
    BY <1>4, MarkTypes, Zenon DEF OnlineGather, ONLINE_START
  <2>3. CASE RecvOn(p, "main") /\ Goto(p, "PostProcess") /\ UNCHANGED <<idx, th>>
    <3>1. "PostProcess" \in Place
      BY Zenon DEF Place
    <3>2. LinkTypes' /\ PcTypes' /\ IdxTypes' /\ ThTypes'
      BY <1>0, <2>3, <3>1, LinkSteps, GotoTypes, Zenon DEF IdxTypes, ThTypes
    <3> QED BY <2>1, <2>2, <3>2, Zenon
  <2>4. CASE EnterLoop(p, ResumeAt(p, record))
    <3>1. Working(p) /\ Awaits(pc[p]) = "OnlineGather" /\ Arrived(p, "main")
      BY <1>4, Zenon DEF OnlineGather, Working, Awaits
    <3>2. record.cnt \in Nat /\ ckpt[p].cnt \in Nat
      BY <3>1, Received, Zenon DEF Content, CkptTypes
    <3>3. ResumeAt(p, record) \in Nat
      BY <3>2, Zenon DEF ResumeAt, Smaller
    <3> QED BY <2>1, <2>2, <2>4, <3>3, EnterTypes, Zenon
  <2> QED BY <1>4, <2>3, <2>4, Zenon DEF OnlineGather
<1>5. CASE Close(p)
  <2>1. "Finalize" \in Place
    BY DEF Place
  <2>2. LinesTypes' /\ PcTypes'
    BY <1>5, <1>e, <2>1, WriteTypes, GotoTypes, Zenon DEF Close
  <2>3. /\ TaskTypes' /\ CkptTypes' /\ IdxTypes' /\ ResTypes' /\ ThTypes' /\ QueueTypes'
        /\ LinkTypes'
    BY <1>5, Zenon DEF Close, TaskTypes, CkptTypes, IdxTypes, ResTypes, ThTypes, QueueTypes, LinkTypes,
           taskVars, pipeVars, linkVars
  <2> QED BY <2>2, <2>3, Zenon
<1> QED BY <1>1, <1>2, <1>3, <1>4, <1>5, Zenon

\* The loop of KKRT.
LEMMA TypeKkrt ==
  ASSUME Counted, TypeOK, MainInv, NEW p \in Party, Kkrt(p)
  PROVE  TypeOK'
<1> USE TypeParts, TypesKept
<1>0. "main" \in Ctx /\ ControlTypes /\ idx[p] \in Nat /\ idx[p] + 1 \in Nat
  BY DEF Ctx, TypeOK, ControlTypes
<1>1. Bucket(p, idx[p]) \in SUBSET Items(p) /\ Bucket(Other(p), idx[p]) \in SUBSET Items(Other(p))
  BY Lists, Parties, Zenon DEF TaskTypes
<1>2. CASE KkrtSize(p)
  <2>1. TaskTypes' /\ CkptTypes' /\ LinesTypes' /\ ResTypes' /\ QueueTypes'
    BY <1>2, Zenon DEF KkrtSize, TaskTypes, CkptTypes, LinesTypes, ResTypes, QueueTypes, taskVars,
                diskVars
  <2>2. CASE EnterLoop(p, idx[p] + 1)
    BY <1>0, <2>1, <2>2, EnterTypes, Zenon
  <2>3. CASE /\ RecvSend(p, "main", Size(p, "SetSize", idx[p]))
             /\ Goto(p, "SetSize") /\ UNCHANGED <<idx, th>>
    <3>1. Size(p, "SetSize", idx[p]) \in Message /\ "SetSize" \in Place
      BY <1>0, Messages DEF Place
    <3>2. LinkTypes' /\ PcTypes' /\ IdxTypes' /\ ThTypes'
      BY <1>0, <2>3, <3>1, LinkSteps, GotoTypes, Zenon DEF IdxTypes, ThTypes
    <3> QED BY <2>1, <3>2, Zenon
  <2> QED BY <1>2, <2>2, <2>3, Zenon DEF KkrtSize
<1>3. CASE KkrtSetSize(p)
  <2>1. Note("Kkrt", idx[p]) \in Message /\ "Kkrt" \in Place
    BY <1>0, Messages DEF Place
  <2>2. LinkTypes' /\ PcTypes'
    BY <1>0, <1>3, <2>1, LinkSteps, GotoTypes, Zenon DEF KkrtSetSize
  <2>3. /\ TaskTypes' /\ CkptTypes' /\ LinesTypes' /\ IdxTypes' /\ ResTypes' /\ ThTypes'
        /\ QueueTypes'
    BY <1>3, Zenon DEF KkrtSetSize, TaskTypes, CkptTypes, LinesTypes, IdxTypes, ResTypes, ThTypes,
                QueueTypes, taskVars, diskVars, pipeVars
  <2> QED BY <2>2, <2>3, Zenon
<1>4. CASE KkrtPsiSend(p)
  <2>1. Telling(p, "Kkrt", idx[p], Bucket(p, idx[p])) \in Message /\ "Sync" \in Place
    BY <1>0, <1>1, Messages DEF Place
  <2>2. LinkTypes' /\ PcTypes'
    BY <1>0, <1>4, <2>1, LinkSteps, GotoTypes, Zenon DEF KkrtPsiSend
  <2>3. /\ TaskTypes' /\ CkptTypes' /\ LinesTypes' /\ IdxTypes' /\ ResTypes' /\ ThTypes'
        /\ QueueTypes'
    BY <1>4, Zenon DEF KkrtPsiSend, TaskTypes, CkptTypes, LinesTypes, IdxTypes, ResTypes, ThTypes,
                QueueTypes, taskVars, diskVars, pipeVars
  <2> QED BY <2>2, <2>3, Zenon
<1>5. CASE KkrtPsiRecv(p)
  <2> DEFINE m == Msg(p, "main")
             hits == Hits(p, Bucket(p, idx[p]), m.told)
             place == IF cfg.broadcast THEN "Broadcast" ELSE "Write"
             note == [at |-> "Sync", b |-> idx[p], size |-> Cardinality(hits)]
  <2>1. Working(p) /\ Awaits(pc[p]) = "Kkrt" /\ Arrived(p, "main") /\ Other(p) # Receiver
    BY <1>5, Parties, Zenon DEF KkrtPsiRecv, Working, Awaits
  <2>2. m.told = Told(Other(p), Bucket(Other(p), idx[p]))
    BY <2>1, Received, Zenon DEF Content
  <2>3. m.told \in SUBSET [key : Nat, dup : Nat]
    BY <1>1, <2>2, ToldTypes, Parties
  <2>4. hits \in SUBSET Line /\ {h.idx : h \in hits} \in SUBSET Bucket(p, idx[p])
    BY <1>1, <2>3, HitsTypes, Zenon
  <2>5. hits = Expected(p, idx[p])
    BY <2>2, HitsMatch, Zenon DEF Expected
  <2>6. note \in Message /\ place \in Place
    <3>1. Cardinality(hits) \in Nat
      BY <2>5, Zenon DEF Counted
    <3> HIDE DEF hits
    <3> QED BY <1>0, <3>1, Messages DEF Place
  <2>7. RecvSend(p, "main", note) /\ res' = [res EXCEPT ![p] = hits] /\ Goto(p, place)
    BY <1>5, Zenon DEF KkrtPsiRecv
  <2> HIDE DEF note, hits, place
  <2>8. LinkTypes' /\ PcTypes' /\ ResTypes'
    BY <1>0, <2>4, <2>6, <2>7, LinkSteps, GotoTypes, Zenon DEF ResTypes
  <2>9. TaskTypes' /\ CkptTypes' /\ LinesTypes' /\ IdxTypes' /\ ThTypes' /\ QueueTypes'
    BY <1>5, Zenon DEF KkrtPsiRecv, TaskTypes, CkptTypes, LinesTypes, IdxTypes, ThTypes,
                QueueTypes, taskVars, diskVars, pipeVars
  <2> QED BY <2>8, <2>9, Zenon
<1>6. CASE KkrtSync(p)
  <2> DEFINE note == [at |-> "Broadcast", b |-> idx[p], size |-> 0]
             S == IF cfg.broadcast THEN {"main"} ELSE {}
             place == IF cfg.broadcast /\ Msg(p, "main").size > 0 THEN "Broadcast" ELSE "Write"
  <2>1. note \in Message /\ place \in Place /\ {"main"} \in SUBSET Ctx /\ S \in SUBSET Ctx
    BY <1>0, Messages DEF Place
  <2>2. Exchange(p, {"main"}, S, note) /\ Goto(p, place)
    BY <1>6, Zenon DEF KkrtSync
  <2> HIDE DEF note, S, place
  <2>3. LinkTypes' /\ PcTypes'
    BY <2>1, <2>2, Exchanged, GotoTypes, Zenon
  <2>4. /\ TaskTypes' /\ CkptTypes' /\ LinesTypes' /\ IdxTypes' /\ ResTypes' /\ ThTypes'
        /\ QueueTypes'
    BY <1>6, Zenon DEF KkrtSync, TaskTypes, CkptTypes, LinesTypes, IdxTypes, ResTypes, ThTypes,
                QueueTypes, taskVars, diskVars, pipeVars
  <2> QED BY <2>3, <2>4, Zenon

<1>7. CASE BroadcastResult(p)
  <2>1. Working(p) /\ Awaits(pc[p]) = "Broadcast" /\ Arrived(p, "main")
    BY <1>7, Zenon DEF BroadcastResult, Working, Awaits
  <2>2. PcTypes'
    BY <1>7, GotoTypes, Zenon DEF BroadcastResult, Place
  <2>3. TaskTypes' /\ CkptTypes' /\ LinesTypes' /\ IdxTypes' /\ ThTypes' /\ QueueTypes'
    BY <1>7, Zenon DEF BroadcastResult, TaskTypes, CkptTypes, LinesTypes, IdxTypes, ThTypes,
                QueueTypes, taskVars, diskVars, pipeVars
  <2>4. CASE p = Receiver
    <3> DEFINE H == {h.idx : h \in res[p]}
               note == Telling(p, "Broadcast", idx[p], H)
               S == IF res[p] # {} THEN {"main"} ELSE {}
    <3>1. ResultHeld(p) /\ pc[p] = "Broadcast"
      BY <1>7, <2>1, Zenon DEF BroadcastResult, MainInv
    <3>2. res[p] = Expected(p, idx[p])
      BY <3>1, <2>4, Zenon DEF ResultHeld
    <3>3. H \in SUBSET Items(p)
      BY <1>1, <3>2, ExpectedItems, Zenon
    <3>4. note \in Message /\ {"main"} \in SUBSET Ctx /\ S \in SUBSET Ctx
      BY <1>0, <3>3, Messages DEF Place
    <3>5. Exchange(p, {"main"}, S, note) /\ UNCHANGED res
      BY <1>7, <2>4, Zenon DEF BroadcastResult
    <3> HIDE DEF note, S, H
    <3>6. LinkTypes' /\ ResTypes'
      BY <3>4, <3>5, Exchanged, Zenon DEF ResTypes
    <3> QED BY <2>2, <2>3, <3>6, Zenon
  <2>5. CASE p # Receiver
    <3> DEFINE m == Msg(p, "main")
               own == Bucket(p, idx[p])
               hits == Hits(p, own, m.told)
    <3>1. m.told = Told(Other(p), {h.idx : h \in Expected(Other(p), idx[p])})
      <4>1. m.at = "Broadcast" /\ m.b = idx[p] /\ Content(Other(p), m)
        BY <2>1, Received, Zenon
      <4>2. Other(p) = Receiver
        BY <2>5 DEF Party, Other, Receiver
      <4> QED BY <4>1, <4>2, Zenon DEF Content
    <3>2. {h.idx : h \in Expected(Other(p), idx[p])} \in SUBSET Items(Other(p))
      BY <1>1, ExpectedItems, Parties, Zenon
    <3>3. m.told \in SUBSET [key : Nat, dup : Nat]
      BY <3>1, <3>2, ToldTypes, Parties
    <3>4. hits \in SUBSET Line
      BY <1>1, <3>3, HitsTypes, Zenon
    <3>5. own \in SUBSET Nat
      BY <1>1, Lists, Zenon DEF TaskTypes
    <3>6. SenderHits(p, m.told) \in SUBSET Line
      BY <3>4, <3>5 DEF SenderHits, Line
    <3>7. RecvOn(p, "main") /\ res' = [res EXCEPT ![p] = SenderHits(p, m.told)]
      BY <1>7, <2>5, Zenon DEF BroadcastResult
    <3>8. LinkTypes' /\ ResTypes'
      BY <1>0, <3>6, <3>7, LinkSteps, Zenon DEF ResTypes
    <3> QED BY <2>2, <2>3, <3>8, Zenon
  <2> QED BY <2>4, <2>5, Zenon
<1>8. CASE KkrtWrite(p)
  <2>1. Note("Handled", idx[p]) \in Message /\ "Handled" \in Place
    BY <1>0, Messages DEF Place
  <2>2. LinkTypes' /\ PcTypes'
    BY <1>0, <1>8, <2>1, LinkSteps, GotoTypes, Zenon DEF KkrtWrite
  <2>3. LinesTypes'
    <3>1. res[p] \in SUBSET Line
      BY Zenon DEF ResTypes
    <3> QED BY <1>8, <3>1, WriteTypes, Zenon DEF KkrtWrite
  <2>4. TaskTypes' /\ CkptTypes' /\ IdxTypes' /\ ResTypes' /\ ThTypes' /\ QueueTypes'
    BY <1>8, Zenon DEF KkrtWrite, TaskTypes, CkptTypes, IdxTypes, ResTypes, ThTypes, QueueTypes,
                taskVars, pipeVars
  <2> QED BY <2>2, <2>3, <2>4, Zenon
<1>9. CASE KkrtNext(p)
  <2>1. CkptTypes'
    BY <1>0, <1>9, MarkTypes, Zenon DEF KkrtNext
  <2>2. PcTypes' /\ IdxTypes' /\ ThTypes' /\ LinkTypes'
    BY <1>0, <1>9, EnterTypes, Zenon DEF KkrtNext
  <2>3. TaskTypes' /\ LinesTypes' /\ ResTypes' /\ QueueTypes'
    BY <1>9, Zenon DEF KkrtNext, TaskTypes, LinesTypes, ResTypes, QueueTypes, taskVars
  <2> QED BY <2>1, <2>2, <2>3, Zenon
<1> QED BY <1>2, <1>3, <1>4, <1>5, <1>6, <1>7, <1>8, <1>9, Zenon DEF Kkrt

\* What stays in a step of a thread of AsyncRun.
LEMMA PipeFrameTypes ==
  ASSUME Counted, TypeOK, NEW p \in Party, PipeFrame(p)
  PROVE  TaskTypes' /\ PcTypes' /\ IdxTypes' /\ ResTypes'
BY TypeParts, Zenon DEF PipeFrame, TaskTypes, PcTypes, IdxTypes, ResTypes, taskVars

LEMMA TypePrep ==
  ASSUME Counted, TypeOK, MainInv, PipeInv, NEW p \in Party, Prep(p)
  PROVE  TypeOK'
<1> USE TypeParts, TypesKept
<1> DEFINE r == Runner(p, "prep")
<1>0. /\ "read" \in Ctx /\ "prep" \in Thread /\ ControlTypes
      /\ r \in BucketRunner /\ r.b \in Int
      /\ {"size", "vole", "push", "load"} \subseteq Place
  BY RunnerTypes, Zenon DEF Ctx, Thread, TypeOK, Place
<1>1. CASE PrepLoad(p)
  <2>1. Size(p, "size", r.b) \in Message
    BY <1>0, Messages, Zenon
  <2>2. LinkTypes' /\ ThTypes'
    BY <1>0, <1>1, <2>1, LinkSteps, MoveTypes, Zenon DEF PrepLoad
  <2>3. CkptTypes' /\ LinesTypes' /\ QueueTypes' /\ PipeFrame(p)
    BY <1>1, Zenon DEF PrepLoad, CkptTypes, LinesTypes, QueueTypes, diskVars
  <2> QED BY <2>2, <2>3, PipeFrameTypes, Zenon
<1>2. CASE PrepSize(p)
  <2> DEFINE null == Msg(p, "read").size = 0 \/ Bucket(p, r.b) = {}
             S == IF null THEN {} ELSE {"read"}
             place == IF null THEN "push" ELSE "vole"
  <2>1. Note("vole", r.b) \in Message
    BY <1>0, Messages, Zenon
  <2>2. {"read"} \in SUBSET Ctx /\ S \in SUBSET Ctx /\ place \in Place /\ null \in BOOLEAN
    BY <1>0, Zenon
  <2>3. Exchange(p, {"read"}, S, Note("vole", r.b)) /\ Move(p, "prep", place, [r EXCEPT !.null = null])
    BY <1>2, Zenon DEF PrepSize
  <2> HIDE DEF S, place, null
  <2>4. [r EXCEPT !.null = null] \in BucketRunner
    BY <1>0, <2>2, RunnerTypes, Zenon
  <2>5. LinkTypes' /\ ThTypes'
    BY <1>0, <2>1, <2>2, <2>3, <2>4, Exchanged, MoveTypes, Zenon
  <2>6. CkptTypes' /\ LinesTypes' /\ QueueTypes' /\ PipeFrame(p)
    BY <1>2, Zenon DEF PrepSize, CkptTypes, LinesTypes, QueueTypes, diskVars
  <2> QED BY <2>5, <2>6, PipeFrameTypes, Zenon
<1>3. CASE PrepVole(p)
  <2>1. LinkTypes' /\ ThTypes'
    BY <1>0, <1>3, LinkSteps, MoveTypes, Zenon DEF PrepVole
  <2>2. CkptTypes' /\ LinesTypes' /\ QueueTypes' /\ PipeFrame(p)
    BY <1>3, Zenon DEF PrepVole, CkptTypes, LinesTypes, QueueTypes, diskVars
  <2> QED BY <2>1, <2>2, PipeFrameTypes, Zenon
<1>4. CASE PrepPush(p)
  <2>1. ThTypes'
    BY <1>0, <1>4, NextRunnerTypes, Zenon DEF PrepPush
  <2>2. QueueTypes'
    <3>1. prepared[p] \in Seq(BucketRunner) /\ Append(prepared[p], r) \in Seq(BucketRunner)
      BY <1>0, Appended, Zenon DEF QueueTypes
    <3> QED BY <1>4, <3>1, Zenon DEF PrepPush, QueueTypes
  <2>3. CkptTypes' /\ LinesTypes' /\ LinkTypes' /\ PipeFrame(p)
    BY <1>4, Zenon DEF PrepPush, CkptTypes, LinesTypes, LinkTypes, diskVars, linkVars
  <2> QED BY <2>1, <2>2, <2>3, PipeFrameTypes, Zenon
<1> QED BY <1>1, <1>2, <1>3, <1>4, Zenon DEF Prep

LEMMA TypeRun ==
  ASSUME Counted, TypeOK, MainInv, PipeInv, NEW p \in Party, RunTh(p)
  PROVE  TypeOK'
<1> USE TypeParts, TypesKept
<1>0. /\ "run" \in Ctx /\ "run" \in Thread /\ ControlTypes
      /\ Runner(p, "run") \in BucketRunner
      /\ {"recv", "push", "pop"} \subseteq Place
  BY RunnerTypes, Zenon DEF Ctx, Thread, TypeOK, Place
<1>1. CASE RunPop(p)
  <2> DEFINE r == Head(prepared[p])
             place == IF r.null \/ p = Receiver THEN "push" ELSE "recv"
  <2>1. prepared[p] \in Seq(BucketRunner) /\ prepared[p] # <<>>
    BY <1>1, Zenon DEF RunPop, QueueTypes
  <2>2. r \in BucketRunner /\ Tail(prepared[p]) \in Seq(BucketRunner)
    BY <2>1, HeadTail, Zenon
  <2>3. r.b \in Int
    BY <2>2, Zenon DEF BucketRunner
  <2>4. Note("recv", r.b) \in Message /\ place \in Place
    BY <1>0, <2>3, Messages, Zenon
  <2>5. LinkTypes'
    BY <1>0, <1>1, <2>4, LinkSteps, Zenon DEF RunPop, LinkTypes, linkVars
  <2>6. Move(p, "run", place, r)
    BY <1>1, Zenon DEF RunPop
  <2>7. QueueTypes'
    BY <1>1, <2>2, Zenon DEF RunPop, QueueTypes
  <2> HIDE DEF place, r
  <2>8. ThTypes'
    BY <1>0, <2>2, <2>4, <2>6, MoveTypes, Zenon
  <2>9. CkptTypes' /\ LinesTypes' /\ PipeFrame(p)
    BY <1>1, Zenon DEF RunPop, CkptTypes, LinesTypes, diskVars
  <2> QED BY <2>5, <2>7, <2>8, <2>9, PipeFrameTypes, Zenon
<1>2. CASE RunOprf(p)
  <2>1. LinkTypes' /\ ThTypes'
    BY <1>0, <1>2, LinkSteps, MoveTypes, Zenon DEF RunOprf
  <2>2. CkptTypes' /\ LinesTypes' /\ QueueTypes' /\ PipeFrame(p)
    BY <1>2, Zenon DEF RunOprf, CkptTypes, LinesTypes, QueueTypes, diskVars
  <2> QED BY <2>1, <2>2, PipeFrameTypes, Zenon
<1>3. CASE RunPush(p)
  <2>1. ThTypes'
    BY <1>0, <1>3, NextRunnerTypes, Zenon DEF RunPush
  <2>2. QueueTypes'
    <3>1. oprf[p] \in Seq(BucketRunner) /\ Append(oprf[p], Runner(p, "run")) \in Seq(BucketRunner)
      BY <1>0, Appended, Zenon DEF QueueTypes
    <3> QED BY <1>3, <3>1, Zenon DEF RunPush, QueueTypes
  <2>3. CkptTypes' /\ LinesTypes' /\ LinkTypes' /\ PipeFrame(p)
    BY <1>3, Zenon DEF RunPush, CkptTypes, LinesTypes, LinkTypes, diskVars, linkVars
  <2> QED BY <2>1, <2>2, <2>3, PipeFrameTypes, Zenon
<1> QED BY <1>1, <1>2, <1>3, Zenon DEF RunTh

LEMMA MaskedItems ==
  ASSUME inp \in Inputs, NEW p \in Party, NEW b
  PROVE  Masked(p, b) \in SUBSET Items(p)
BY Lists, ExpectedItems, Zenon DEF Masked

LEMMA TypeInter ==
  ASSUME Counted, TypeOK, MainInv, PipeInv, NEW p \in Party, Inter(p)
  PROVE  TypeOK'
<1> USE TypeParts, TypesKept
<1>0. /\ "inter" \in Ctx /\ "inter" \in Thread /\ ControlTypes /\ inp \in Inputs
      /\ Runner(p, "inter") \in BucketRunner /\ Runner(p, "inter").b \in Int
      /\ {"recv", "post", "count", "pop"} \subseteq Place
  BY RunnerTypes, Zenon DEF Ctx, Thread, TypeOK, Place, TaskTypes
<1>1. CASE InterPop(p)
  <2> DEFINE r == Head(oprf[p])
             S == IF ~r.null /\ p # Receiver THEN {"inter"} ELSE {}
             note == Telling(p, "recv", r.b, Bucket(p, r.b))
             place == IF r.null \/ (p # Receiver /\ ~cfg.broadcast) THEN "post" ELSE "recv"
  <2>1. oprf[p] \in Seq(BucketRunner) /\ oprf[p] # <<>>
    BY <1>1, Zenon DEF InterPop, QueueTypes
  <2>2. r \in BucketRunner /\ Tail(oprf[p]) \in Seq(BucketRunner)
    BY <2>1, HeadTail, Zenon
  <2>3. r.b \in Int /\ Bucket(p, r.b) \in SUBSET Items(p)
    BY <1>0, <2>2, Lists, Zenon DEF BucketRunner
  <2>4. note \in Message /\ place \in Place /\ S \in SUBSET Ctx /\ {} \in SUBSET Ctx
    BY <1>0, <2>3, Messages, Zenon
  <2>5. Exchange(p, {}, S, note) /\ Move(p, "inter", place, r)
    BY <1>1, Zenon DEF InterPop
  <2>6. QueueTypes'
    BY <1>1, <2>2, Zenon DEF InterPop, QueueTypes
  <2> HIDE DEF place, r, S, note
  <2>7. ThTypes' /\ LinkTypes'
    BY <1>0, <2>2, <2>4, <2>5, MoveTypes, Exchanged, Zenon
  <2>8. CkptTypes' /\ LinesTypes' /\ PipeFrame(p)
    BY <1>1, Zenon DEF InterPop, CkptTypes, LinesTypes, diskVars
  <2> QED BY <2>6, <2>7, <2>8, PipeFrameTypes, Zenon
<1>2. CASE InterRecv(p)
  <2> DEFINE r == Runner(p, "inter")
             told == Msg(p, "inter").told
             hits == Hits(p, Bucket(p, r.b), told)
             S == IF cfg.broadcast /\ p = Receiver THEN {"inter"} ELSE {}
             note == Telling(p, "recv", r.b, {h.idx : h \in hits})
  <2>1. InPipe(p, "inter", "recv") /\ Arrived(p, "inter")
    BY <1>2, Zenon DEF InterRecv
  <2>2. told = Told(Other(p), Masked(Other(p), r.b))
    BY <2>1, InterReceived, Zenon
  <2>3. told \in SUBSET [key : Nat, dup : Nat]
    BY <1>0, <2>2, MaskedItems, ToldTypes, Parties
  <2>4. Bucket(p, r.b) \in SUBSET Items(p)
    BY <1>0, Lists, Zenon
  <2>5. hits \in SUBSET Line /\ {h.idx : h \in hits} \in SUBSET Items(p)
    BY <2>3, <2>4, HitsTypes, Zenon
  <2>6. note \in Message /\ S \in SUBSET Ctx /\ {"inter"} \in SUBSET Ctx
    BY <1>0, <2>5, Messages, Zenon
  <2>7. Exchange(p, {"inter"}, S, note) /\ Move(p, "inter", "post", [r EXCEPT !.hits = hits])
    BY <1>2, Zenon DEF InterRecv
  <2> HIDE DEF hits, S, note
  <2>8. [r EXCEPT !.hits = hits] \in BucketRunner
    BY <1>0, <2>5, RunnerTypes, Zenon
  <2>9. ThTypes' /\ LinkTypes'
    BY <1>0, <2>6, <2>7, <2>8, MoveTypes, Exchanged, Zenon
  <2>10. CkptTypes' /\ LinesTypes' /\ QueueTypes' /\ PipeFrame(p)
    BY <1>2, Zenon DEF InterRecv, CkptTypes, LinesTypes, QueueTypes, diskVars
  <2> QED BY <2>9, <2>10, PipeFrameTypes, Zenon
<1>3. CASE InterPost(p)
  <2>1. ThTypes'
    BY <1>0, <1>3, MoveTypes, Zenon DEF InterPost
  <2>2. LinesTypes'
    <3>1. Runner(p, "inter").hits \in SUBSET Line
      BY <1>0, Zenon DEF BucketRunner
    <3> QED BY <1>3, <3>1, WriteTypes, Zenon DEF InterPost
  <2>3. CkptTypes' /\ QueueTypes' /\ LinkTypes' /\ PipeFrame(p)
    BY <1>3, Zenon DEF InterPost, CkptTypes, QueueTypes, LinkTypes, linkVars
  <2> QED BY <2>1, <2>2, <2>3, PipeFrameTypes, Zenon
<1>4. CASE InterCount(p)
  <2>1. ThTypes'
    BY <1>0, <1>4, NextRunnerTypes, Zenon DEF InterCount
  <2>2. Runner(p, "inter").b + 1 \in Nat
    <3>1. pc[p] = "AsyncRun" /\ th[p]["inter"].at = "count"
      BY <1>4, Zenon DEF InterCount, InPipe
    <3>2. InterInStep(p)
      BY <3>1, Zenon DEF PipeInv, Threads
    <3>3. Runner(p, "inter").b \in 0 .. BucketNum - 1
      BY <3>1, <3>2, Zenon DEF InterInStep
    <3>4. BucketNum \in Nat
      BY <1>0, Lists, Zenon
    <3> QED BY <3>3, <3>4
  <2>3. CkptTypes'
    BY <1>4, <2>2, MarkTypes, Zenon DEF InterCount
  <2>4. LinesTypes' /\ QueueTypes' /\ LinkTypes' /\ PipeFrame(p)
    BY <1>4, Zenon DEF InterCount, LinesTypes, QueueTypes, LinkTypes, linkVars
  <2> QED BY <2>1, <2>3, <2>4, PipeFrameTypes, Zenon
<1> QED BY <1>1, <1>2, <1>3, <1>4, Zenon DEF Inter

\* The end of the main thread, and failures.
LEMMA TypeEnd ==
  ASSUME Counted, TypeOK, NEW p \in Party,
         \/ Join(p) \/ OnlineSync(p) \/ PostProcess(p) \/ FinalizeWrite(p)
         \/ FinalizeThrows(p) \/ FinalizeSync(p)
  PROVE  TypeOK'
<1> USE TypeParts, TypesKept
<1>0. /\ "main" \in Ctx /\ ControlTypes /\ idx[p] \in Nat
      /\ {"OnlineSync", "PostProcess", "Finalize", "FinalizeSync", "done", "down"} \subseteq Place
  BY Zenon DEF Ctx, TypeOK, Place, IdxTypes
<1>1. Note("OnlineSync", idx[p]) \in Message /\ Note("FinalizeSync", idx[p]) \in Message
  BY <1>0, Messages
<1>2. PcTypes'
  BY <1>0, GotoTypes, Zenon DEF Join, OnlineSync, PostProcess, FinalizeWrite, FinalizeThrows, FinalizeSync
<1>3. TaskTypes' /\ IdxTypes' /\ ResTypes' /\ ThTypes' /\ QueueTypes' /\ LinesTypes'
  BY Zenon DEF Join, OnlineSync, PostProcess, FinalizeWrite, FinalizeThrows, FinalizeSync, TaskTypes,
         IdxTypes, ResTypes, ThTypes, QueueTypes, LinesTypes, taskVars, diskVars, pipeVars
<1>4. CkptTypes'
  <2>1. CASE PostProcess(p)
    BY <2>1, MarkTypes, Zenon DEF PostProcess, POST_PROCESS_END
  <2>2. CASE ~PostProcess(p)
    BY <2>2, Zenon DEF Join, OnlineSync, FinalizeWrite, FinalizeThrows, FinalizeSync, CkptTypes, diskVars
  <2> QED BY <2>1, <2>2, Zenon
<1>5. LinkTypes'
  <2>1. CASE Join(p) \/ OnlineSync(p) \/ FinalizeWrite(p) \/ FinalizeSync(p)
    BY <1>0, <1>1, <2>1, LinkSteps, Zenon DEF Join, OnlineSync, FinalizeWrite, FinalizeSync
  <2>2. CASE PostProcess(p) \/ FinalizeThrows(p)
    BY <2>2, Zenon DEF PostProcess, FinalizeThrows, LinkTypes, linkVars
  <2> QED BY <2>1, <2>2, Zenon
<1> QED BY <1>2, <1>3, <1>4, <1>5, Zenon

\* Every way in which a process ends early.
Ends(p) ==
  \/ Crash(p) \/ Abort(p) \/ KkrtSpins(p) \/ AsyncRunThrows(p) \/ Kill(p) \/ FinalizeThrows(p)

LEMMA EndsFrame ==
  ASSUME NEW p \in Party, Ends(p)
  PROVE  /\ Goto(p, "down") \/ Goto(p, "Spin")
         /\ UNCHANGED <<inp, cfg, run, diskVars, idx, res, pipeVars, linkVars>>
         /\ crashes' = crashes \/ crashes' = crashes + 1
BY Zenon DEF Ends, Crash, Abort, KkrtSpins, AsyncRunThrows, Kill, FinalizeThrows, taskVars

LEMMA TypeEnds ==
  ASSUME Counted, TypeOK, NEW p \in Party, Ends(p)
  PROVE  TypeOK'
<1> USE TypeParts, TypesKept
<1>1. PcTypes'
  BY EndsFrame, GotoTypes, Zenon DEF Place
<1>2. TaskTypes'
  BY EndsFrame DEF TaskTypes
<1>3. /\ CkptTypes' /\ LinesTypes' /\ IdxTypes' /\ ResTypes' /\ ThTypes' /\ QueueTypes'
      /\ LinkTypes'
  BY EndsFrame, Zenon DEF CkptTypes, LinesTypes, IdxTypes, ResTypes, ThTypes, QueueTypes, LinkTypes,
                   diskVars, pipeVars, linkVars
<1> QED BY <1>1, <1>2, <1>3, Zenon

LEMMA TypeThrows ==
  ASSUME Counted, TypeOK, NEW p \in Party, NEW t \in Thread, ThreadThrows(p, t)
  PROVE  TypeOK'
<1> USE TypeParts, TypesKept
<1>1. ThTypes'
  <2> DEFINE T == [u \in Thread |-> IF u = t \/ BucketNum <= CacheSize
                                    THEN [th[p][u] EXCEPT !.at = "threw"] ELSE th[p][u]]
  <2>1. th' = [th EXCEPT ![p] = T]
    BY Zenon DEF ThreadThrows
  <2>2. "threw" \in Place
    BY Zenon DEF Place
  <2>3. \A u \in Thread : [th[p][u] EXCEPT !.at = "threw"] \in [at : Place, r : BucketRunner]
    <3>1. \A u \in Thread : th[p][u] \in [at : Place, r : BucketRunner]
      BY Zenon DEF ThTypes
    <3>2. \A x \in [at : Place, r : BucketRunner] :
            [x EXCEPT !.at = "threw"] \in [at : Place, r : BucketRunner]
      BY <2>2, Zenon
    <3> QED BY <3>1, <3>2, Zenon
  <2>4. T \in [Thread -> [at : Place, r : BucketRunner]]
    BY <2>3, Zenon DEF ThTypes
  <2> HIDE DEF T
  <2> QED BY <2>1, <2>4, Zenon DEF ThTypes
<1>2. /\ TaskTypes' /\ PcTypes' /\ CkptTypes' /\ LinesTypes' /\ IdxTypes' /\ ResTypes'
      /\ QueueTypes' /\ LinkTypes'
  BY Zenon DEF ThreadThrows, TaskTypes, PcTypes, CkptTypes, LinesTypes, IdxTypes, ResTypes, QueueTypes,
         LinkTypes, taskVars, diskVars, linkVars
<1> QED BY <1>1, <1>2, Zenon

LEMMA TypeRestart ==
  ASSUME Counted, TypeOK, Restart
  PROVE  TypeOK'
<1> USE TypeParts, TypesKept
<1>1. TaskTypes' /\ CkptTypes'
  BY DEF Restart, TaskTypes, CkptTypes
<1>2. LinesTypes'
  BY Zenon DEF Restart, LinesTypes
<1>3. PcTypes' /\ IdxTypes' /\ ResTypes' /\ QueueTypes'
  BY DEF Restart, Start, PcTypes, IdxTypes, ResTypes, QueueTypes, Place
<1>4. ThTypes'
  <2>1. [at |-> "idle", r |-> NoRunner] \in [at : Place, r : BucketRunner]
    BY FirstRunner, Zenon DEF Place
  <2> QED BY <2>1, Zenon DEF Restart, Start, ThTypes, Idle
<1>5. LinkTypes'
  <2>1. \A p \in Party : Hello(p) \in Message
    BY Messages, Zenon DEF TypeOK
  <2>2. \A p \in Party : \A c \in Ctx :
          (IF c = "main" THEN <<Hello(p)>> ELSE <<>>) \in Seq(Message)
    BY <2>1
  <2>3. link' = [p \in Party |-> [c \in Ctx |-> IF c = "main" THEN <<Hello(p)>> ELSE <<>>]]
    BY Zenon DEF Restart, Start
  <2>4. got' = [p \in Party |-> [c \in Ctx |-> 0]]
    BY Zenon DEF Restart, Start
  <2>5. link' \in [Party -> [Ctx -> Seq(Message)]] /\ got' \in [Party -> [Ctx -> Nat]]
    BY <2>2, <2>3, <2>4, Zenon
  <2>6. \A p \in Party : \A c \in Ctx : got'[p][c] = 0
    BY <2>4, Zenon
  <2> QED BY <2>5, <2>6, Parties DEF LinkTypes
<1> QED BY <1>1, <1>2, <1>3, <1>4, <1>5, Zenon

LEMMA TypeStep ==
  ASSUME Counted, TypeOK, MainInv, PipeInv, [Next]_vars
  PROVE  TypeOK'
<1>1. CASE Terminated \/ UNCHANGED vars
  BY <1>1, Zenon DEF Terminated, vars, TypeOK, ControlTypes, PipeTypes, LinkTypes
<1>2. CASE Restart
  BY <1>2, TypeRestart, Zenon
<1>3. ASSUME NEW p \in Party, MainStep(p) PROVE TypeOK'
  BY <1>3, TypeStart, TypeKkrt, TypeEnd, Zenon DEF MainStep
<1>4. ASSUME NEW p \in Party, Prep(p) \/ RunTh(p) \/ Inter(p) PROVE TypeOK'
  BY <1>4, TypePrep, TypeRun, TypeInter, Zenon
<1>5. ASSUME NEW p \in Party, Crash(p) \/ Fails(p) \/ Kill(p) PROVE TypeOK'
  BY <1>5, TypeEnds, TypeThrows, Zenon DEF Fails, Ends
<1> QED BY <1>1, <1>2, <1>3, <1>4, <1>5, Zenon DEF Next

-----------------------------------------------------------------------------
(* Facts every part of the invariant needs.                                  *)

\* A bucket is skipped when it is empty on either side.
LEMMA NullKnown ==
  ASSUME Counted, NEW p \in Party, NEW b
  PROVE  Cardinality(Bucket(Other(p), b)) = 0 \/ Bucket(p, b) = {} <=> Null(b)
<1>1. Cardinality(Bucket(Other(p), b)) = 0 <=> Bucket(Other(p), b) = {}
  BY Parties, Zenon DEF Counted
<1> QED BY <1>1 DEF Null, Party, Other

\* Messages are added on the main context, and none is changed.
MainGrows ==
  \A r \in Party :
    /\ Len(link'[r]["main"]) \in Nat /\ Len(link'[r]["main"]) >= Len(link[r]["main"])
    /\ \A k \in 1 .. Len(link[r]["main"]) : link'[r]["main"][k] = link[r]["main"][k]

LEMMA GatheredKept ==
  ASSUME LinkTypes, inp' = inp, cfg' = cfg, MainGrows, Gathered
  PROVE  Gathered' /\ (Finished' <=> Finished) /\ Resume' = Resume
<1>1. \A r \in Party : Len(link[r]["main"]) \in Nat /\ Len(link[r]["main"]) >= 4
  BY DEF Gathered, LinkTypes, Ctx
<1>2. \A r \in Party : link'[r]["main"][4] = link[r]["main"][4] /\ Len(link'[r]["main"]) >= 4
  BY <1>1 DEF MainGrows
<1>3. 0 \in Party /\ 1 \in Party
  BY Zenon DEF Party
<1> QED BY <1>2, <1>3, Zenon DEF Gathered, Finished, Resume

LEMMA MatchParts ==
  ASSUME NEW p, NEW S, NEW T
  PROVE  /\ \A i \in S, j \in T : Key(p, i) = Key(Other(p), j)
              => [idx |-> i, dup |-> Dup(Other(p), j)] \in Matches(p, S, T)
         /\ \A h \in Matches(p, S, T) : \E i \in S : \E j \in T :
              Key(p, i) = Key(Other(p), j) /\ h = [idx |-> i, dup |-> Dup(Other(p), j)]
<1> DEFINE q == Other(p)
<1>1. ASSUME NEW i \in S, NEW j \in T, Key(p, i) = Key(q, j)
      PROVE  [idx |-> i, dup |-> Dup(q, j)] \in Matches(p, S, T)
  <2> DEFINE y == <<i, j>>
  <2>1. y \in S \X T /\ y[1] = i /\ y[2] = j
    BY Zenon
  <2> HIDE DEF y
  <2>2. [idx |-> y[1], dup |-> Dup(q, y[2])] \in Matches(p, S, T)
    BY <1>1, <2>1, Zenon DEF Matches
  <2> QED BY <2>1, <2>2, Zenon
<1>2. ASSUME NEW h \in Matches(p, S, T)
      PROVE  \E i \in S : \E j \in T : Key(p, i) = Key(q, j) /\ h = [idx |-> i, dup |-> Dup(q, j)]
  <2>1. PICK y \in S \X T : Key(p, y[1]) = Key(q, y[2]) /\ h = [idx |-> y[1], dup |-> Dup(q, y[2])]
    BY <1>2, Zenon DEF Matches
  <2>2. y[1] \in S /\ y[2] \in T
    BY Zenon
  <2> QED BY <2>1, <2>2, Zenon
<1> QED BY <1>1, <1>2, Zenon

LEMMA SkipsAlike ==
  \A p \in Party : DigestEqual(p, Hello(Other(p))) <=> Skips
BY DEF Skips, DigestEqual, Party, Other

LEMMA NullExpected ==
  ASSUME NEW p \in Party, NEW b, Null(b)
  PROVE  Expected(p, b) = {}
<1>1. Bucket(p, b) = {} \/ Bucket(Other(p), b) = {}
  BY DEF Null, Party, Other
<1>2. Bucket(p, b) \X Bucket(Other(p), b) = {}
  BY <1>1, Zenon
<1> QED BY <1>2, Zenon DEF Expected, Matches

\* Both checkpoints are known to a party that has received the peer's.
LEMMA RecordsKnown ==
  ASSUME Counted, TypeOK, MainInv, NEW p \in Party, pc[p] = "OnlineGather", Arrived(p, "main")
  PROVE  /\ Gathered /\ cfg.recovery /\ BucketNum > 0
         /\ Msg(p, "main").at = "OnlineGather" /\ LastMain(p).at = "OnlineGather"
         /\ Msg(p, "main").cnt \in Nat
         /\ Finished <=> Msg(p, "main").stage >= ONLINE_END /\ ckpt[p].stage >= ONLINE_END
         /\ ResumeAt(p, Msg(p, "main")) = Resume /\ Resume \in Nat
<1> DEFINE q == Other(p)
           m == Msg(p, "main")
<1>0. Working(p) /\ Awaits(pc[p]) = "OnlineGather" /\ q \in Party
  BY Parties, Zenon DEF Working, Awaits
<1>1. m.at = "OnlineGather" /\ m.stage \in Nat /\ m.cnt \in Nat /\ got[p]["main"] + 1 = 4
  BY <1>0, Received, Zenon DEF Content, Early
<1>2. LastMain(p).at = "OnlineGather"
  BY <1>0, NoteParts DEF MainInv, SendsInStep, Owes, LastSent
<1>3. /\ Script(p) /\ Len(link[p]["main"]) \in Nat /\ Len(link[q]["main"]) \in Nat
      /\ got[p]["main"] \in Nat
  BY <1>0 DEF MainInv, TypeOK, LinkTypes, Ctx
<1>4. Len(link[p]["main"]) = 4
  <2>1. Early(LastMain(p), Len(link[p]["main"]))
    BY <1>3 DEF Script, LastMain
  <2> QED BY <1>2, <2>1, Zenon DEF Early
<1>5. m = link[q]["main"][4] /\ Len(link[q]["main"]) >= 4
  BY <1>1, <1>3 DEF Msg, Arrived
<1>6. Gathered
  <2>1. \A r \in Party : r = p \/ r = q
    BY Parties, Zenon
  <2>2. Len(link[p]["main"]) >= 4 /\ Len(link[q]["main"]) >= 4
    BY <1>4, <1>5
  <2> QED BY <2>1, <2>2, Zenon DEF Gathered
<1>7. /\ cfg.recovery /\ BucketNum > 0
      /\ link[p]["main"][4].stage = ckpt[p].stage /\ link[p]["main"][4].cnt = ckpt[p].cnt
  BY <1>0, Zenon DEF MainInv, PlaceRight
<1>8. Finished <=> m.stage >= ONLINE_END /\ ckpt[p].stage >= ONLINE_END
  <2> HIDE DEF m
  <2>1. \A r \in Party : r = p \/ r = q
    BY Parties, Zenon
  <2>2. Finished <=> /\ link[p]["main"][4].stage >= ONLINE_END
                     /\ link[q]["main"][4].stage >= ONLINE_END
    <3> HIDE DEF q
    <3> QED BY <1>0, <2>1, Zenon DEF Finished
  <2> QED BY <1>5, <1>7, <2>2, Zenon
<1>9. ckpt[p].cnt \in Nat
  BY TypeParts, Zenon DEF CkptTypes
<1>10. ResumeAt(p, m) = Resume /\ Resume \in Nat
  <2> HIDE DEF m
  <2>1. CASE p = 0
    BY <1>1, <1>5, <1>7, <1>9, <2>1 DEF ResumeAt, Resume, Smaller, Other
  <2>2. CASE p = 1
    BY <1>1, <1>5, <1>7, <1>9, <2>2 DEF ResumeAt, Resume, Smaller, Other
  <2> QED BY <2>1, <2>2, Zenon DEF Party
<1> QED BY <1>1, <1>2, <1>6, <1>7, <1>8, <1>10, Zenon

LEMMA Names ==
  /\ "prep" \in Thread /\ "run" \in Thread /\ "inter" \in Thread
  /\ "read" \in Ctx /\ "run" \in Ctx /\ "inter" \in Ctx
BY Zenon DEF Thread, Ctx

LEMMA Moved ==
  ASSUME ThTypes, NEW p \in Party, NEW t \in Thread, NEW at, NEW r, Move(p, t, at, r)
  PROVE  /\ th'[p][t].at = at /\ th'[p][t].r = r
         /\ \A u \in Thread \ {t} : th'[p][u] = th[p][u]
         /\ th'[Other(p)] = th[Other(p)]
<1>1. th \in [Party -> [Thread -> [at : Place, r : BucketRunner]]]
  BY Zenon DEF ThTypes
<1>2. th' = [th EXCEPT ![p][t] = [at |-> at, r |-> r]]
  BY Zenon DEF Move
<1>3. th'[p][t] = [at |-> at, r |-> r] /\ th'[Other(p)] = th[Other(p)]
  BY <1>1, <1>2, Parties, Zenon
<1>4. \A u \in Thread \ {t} : th'[p][u] = th[p][u]
  BY <1>1, <1>2, Zenon
<1> QED BY <1>3, <1>4

\* The next bucket runner of a thread.
LEMMA Turned ==
  ASSUME ThTypes, NEW p \in Party, NEW t \in Thread, NEW at, NextRunner(p, t, at)
  PROVE  LET b == Runner(p, t).b + 1 IN
         /\ th'[p][t].at = (IF b >= BucketNum THEN "done" ELSE at)
         /\ th'[p][t].r = [NoRunner EXCEPT !.b = b]
         /\ th'[p][t].r.b = b /\ th'[p][t].r.hits = {}
         /\ \A u \in Thread \ {t} : th'[p][u] = th[p][u]
<1> DEFINE b == Runner(p, t).b + 1
           place == IF b >= BucketNum THEN "done" ELSE at
           r == [NoRunner EXCEPT !.b = b]
<1>1. Move(p, t, place, r)
  BY Zenon DEF NextRunner, Runner
<1>2. r.b = b /\ r.hits = {}
  BY Zenon DEF NoRunner
<1> HIDE DEF place, r
<1>3. th'[p][t].at = place /\ th'[p][t].r = r /\ \A u \in Thread \ {t} : th'[p][u] = th[p][u]
  BY <1>1, Moved
<1> QED BY <1>2, <1>3, Zenon DEF place, r

\* The peer of a party whose thread makes a step.
LEMMA ThreadFrame ==
  ASSUME Counted, TypeOK, NEW p \in Party, Prep(p) \/ RunTh(p) \/ Inter(p)
  PROVE  /\ inp' = inp /\ cfg' = cfg /\ pc' = pc /\ pc[p] = "AsyncRun"
         /\ prepared'[Other(p)] = prepared[Other(p)] /\ oprf'[Other(p)] = oprf[Other(p)]
         /\ th'[Other(p)] = th[Other(p)]
<1>1. /\ inp' = inp /\ cfg' = cfg /\ pc' = pc /\ pc[p] = "AsyncRun"
      /\ prepared'[Other(p)] = prepared[Other(p)] /\ oprf'[Other(p)] = oprf[Other(p)]
  BY Parties, Zenon DEF Prep, PrepLoad, PrepSize, PrepVole, PrepPush, RunTh, RunPop, RunOprf, RunPush,
                 Inter, InterPop, InterRecv, InterPost, InterCount, InPipe, PipeFrame, taskVars,
                 TypeOK, PipeTypes
<1>2. th'[Other(p)] = th[Other(p)]
  BY Parties, Zenon DEF Prep, PrepLoad, PrepSize, PrepVole, PrepPush, RunTh, RunPop, RunOprf, RunPush,
                 Inter, InterPop, InterRecv, InterPost, InterCount, NextRunner, Move,
                 TypeOK, PipeTypes
<1> QED BY <1>1, <1>2, Zenon

EarlyPlaces == {"Init", "PreProcess", "OnlineStart", "OnlineGather"}

\* The step leaves the contexts alone or uses the main context.
OnMain(p) ==
  \/ UNCHANGED linkVars
  \/ \E T, S \in SUBSET {"main"} : \E m : Exchange(p, T, S, m)

LEMMA MainOnly ==
  ASSUME NEW p
  PROVE  /\ UNCHANGED linkVars => OnMain(p)
         /\ RecvOn(p, "main") => OnMain(p)
         /\ \A m : SendOn(p, "main", m) => OnMain(p)
         /\ \A m : RecvSend(p, "main", m) => OnMain(p)
         /\ \A c, m : Exchange(p, {"main"}, IF c THEN {"main"} ELSE {}, m) => OnMain(p)
         /\ \A b : EnterLoop(p, b) => OnMain(p)
<1>1. {} \in SUBSET {"main"} /\ {"main"} \in SUBSET {"main"}
  OBVIOUS
<1>2. \A T, S \in SUBSET {"main"} : \A m : Exchange(p, T, S, m) => OnMain(p)
  BY Zenon DEF OnMain
<1>3. \A c, m : Exchange(p, {"main"}, IF c THEN {"main"} ELSE {}, m) => OnMain(p)
  BY <1>1, <1>2
<1>4. \A b : EnterLoop(p, b) => OnMain(p)
  BY <1>3, Zenon DEF EnterLoop
<1>5. UNCHANGED linkVars => OnMain(p)
  BY Zenon DEF OnMain
<1> QED BY <1>1, <1>2, <1>3, <1>4, <1>5, Zenon DEF RecvOn, SendOn, RecvSend

LEMMA StepOnMain ==
  ASSUME NEW p \in Party, MainStep(p)
  PROVE  OnMain(p)
<1>1. CASE InitEnd(p) \/ Close(p)
  BY <1>1, MainOnly, Zenon DEF InitEnd, Close
<1>2. CASE PreProcess(p) \/ OnlineStart(p) \/ OnlineGather(p)
  BY <1>2, MainOnly, Zenon DEF PreProcess, OnlineStart, OnlineGather
<1>3. CASE KkrtSize(p) \/ KkrtSetSize(p) \/ KkrtPsiSend(p)
  BY <1>3, MainOnly, Zenon DEF KkrtSize, KkrtSetSize, KkrtPsiSend
<1>4. CASE KkrtPsiRecv(p) \/ KkrtSync(p)
  BY <1>4, MainOnly, Zenon DEF KkrtPsiRecv, KkrtSync
<1>5. CASE BroadcastResult(p) \/ KkrtWrite(p) \/ KkrtNext(p)
  BY <1>5, MainOnly, Zenon DEF BroadcastResult, KkrtWrite, KkrtNext
<1>6. CASE Join(p) \/ OnlineSync(p) \/ PostProcess(p)
  BY <1>6, MainOnly, Zenon DEF Join, OnlineSync, PostProcess
<1>7. CASE FinalizeWrite(p) \/ FinalizeThrows(p) \/ FinalizeSync(p)
  BY <1>7, MainOnly, Zenon DEF FinalizeWrite, FinalizeThrows, FinalizeSync
<1> QED BY <1>1, <1>2, <1>3, <1>4, <1>5, <1>6, <1>7, Zenon DEF MainStep, Kkrt

\* Entering AsyncRun or another place of the loop is the only step of the main
\* thread that touches the threads.
LEMMA MainLinks ==
  ASSUME Counted, TypeOK, MainInv, NEW p \in Party, MainStep(p)
  PROVE  /\ inp' = inp /\ cfg' = cfg /\ prepared' = prepared /\ oprf' = oprf
         /\ \A c \in PipeContext : \A r \in Party : link'[r][c] = link[r][c] /\ got'[r][c] = got[r][c]
         /\ pc'[Other(p)] = pc[Other(p)] /\ th'[Other(p)] = th[Other(p)]
<1> USE DEF InitEnd, Close, PreProcess, OnlineStart, OnlineGather, Kkrt, KkrtSize, KkrtSetSize, KkrtPsiSend,
            KkrtPsiRecv, KkrtSync, BroadcastResult, KkrtWrite, KkrtNext, Join, OnlineSync,
            PostProcess, FinalizeWrite, FinalizeThrows, FinalizeSync
<1>1. inp' = inp /\ cfg' = cfg /\ prepared' = prepared /\ oprf' = oprf
  BY Zenon DEF MainStep, taskVars, pipeVars
<1>2. \E place : Goto(p, place)
  BY Zenon DEF MainStep, EnterLoop
<1>3. pc'[Other(p)] = pc[Other(p)]
  BY <1>2, TypeParts, Parties DEF Goto, PcTypes
<1>4. th'[Other(p)] = th[Other(p)]
  BY TypeParts, Parties, Zenon DEF MainStep, EnterLoop, ThTypes, pipeVars
<1>5. ASSUME NEW T, NEW S, NEW m, Exchange(p, T, S, m), T \subseteq {"main"}, S \subseteq {"main"}
      PROVE  \A c \in PipeContext : \A r \in Party :
               link'[r][c] = link[r][c] /\ got'[r][c] = got[r][c]
  <2>1. "read" \notin T /\ "run" \notin T /\ "inter" \notin T
        /\ "read" \notin S /\ "run" \notin S /\ "inter" \notin S
    BY <1>5, Zenon
  <2>2. link \in [Party -> [Ctx -> Seq(Message)]] /\ got \in [Party -> [Ctx -> Nat]]
    BY Zenon DEF TypeOK, LinkTypes
  <2> QED BY <1>5, <2>1, <2>2, Zenon DEF Exchange, PipeContext, Ctx
<1>6. \A c \in PipeContext : \A r \in Party : link'[r][c] = link[r][c] /\ got'[r][c] = got[r][c]
  BY <1>5, StepOnMain, Zenon DEF linkVars, OnMain
<1> QED BY <1>1, <1>3, <1>4, <1>6, Zenon

=============================================================================
