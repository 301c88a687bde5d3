------------------------ MODULE BucketPsiMainProofs -------------------------
(* Proofs about BucketPsi, second part: what the main threads of the two      *)
(* parties tell each other and where each of them is in the protocol, and    *)
(* what the index files hold. MainInv and FileInv hold first, are kept by    *)
(* every step, and are there again after a restart.                          *)
EXTENDS BucketPsiProofs

-----------------------------------------------------------------------------
(* The script of the main context.                                           *)

LEMMA AfterKept ==
  ASSUME LinkTypes, inp' = inp, cfg' = cfg, MainGrows
  PROVE  /\ \A r, m, n : Then(r, m, n) => Then(r, m, n)'
         /\ \A b : Begun(b) => Begun(b)'
         /\ \A r, m : Content(r, m) => Content(r, m)'
<1>1. /\ BucketNum' = BucketNum /\ (Skips' <=> Skips)
      /\ \A r : Hello(r)' = Hello(r)
      /\ \A r, b : Bucket(r, b)' = Bucket(r, b) /\ Expected(r, b)' = Expected(r, b)
      /\ \A b : (Null(b)' <=> Null(b)) /\ LoopNote(b)' = LoopNote(b)
      /\ \A r, S : Told(r, S)' = Told(r, S)
  BY Fixed, Zenon
<1>2. ASSUME NEW r, NEW m, NEW n, Then(r, m, n) PROVE Then(r, m, n)'
  <2>1. CASE m.at = "OnlineGather"
    <3>1. Gathered /\ n = IF Finished THEN Note("FinalizeSync", 0) ELSE LoopNote(Resume)
      BY <1>2, <2>1, Zenon DEF Then, After
    <3>2. Gathered' /\ (Finished' <=> Finished) /\ Resume' = Resume
      BY <3>1, GatheredKept, Zenon
    <3>3. n = IF Finished' THEN Note("FinalizeSync", 0) ELSE LoopNote(Resume)'
      BY <3>1, <3>2, <1>1, Zenon
    <3> QED BY <2>1, <3>2, <3>3, Zenon DEF Then, After
  <2>2. CASE m.at # "OnlineGather"
    <3>1. After(r, m)' = After(r, m)
      BY <2>2, <1>1, Zenon DEF After
    <3> QED BY <1>2, <2>2, <3>1, Zenon DEF Then
  <2> QED BY <2>1, <2>2, Zenon
<1>3. ASSUME NEW b, Begun(b) PROVE Begun(b)'
  <2>1. CASE cfg.recovery
    BY <1>3, <2>1, GatheredKept, Zenon DEF Begun
  <2>2. CASE ~cfg.recovery
    BY <1>3, <2>2, Zenon DEF Begun, Resume
  <2> QED BY <2>1, <2>2, Zenon
<1>4. ASSUME NEW r, NEW m, Content(r, m) PROVE Content(r, m)'
  BY <1>1, <1>4, Zenon DEF Content
<1> QED BY <1>2, <1>3, <1>4, Zenon

\* A party whose main thread does nothing, and sends nothing there.
Waits(p) ==
  /\ pc'[p] = pc[p] /\ idx'[p] = idx[p] /\ res'[p] = res[p]
  /\ got'[p]["main"] = got[p]["main"] /\ link'[p]["main"] = link[p]["main"]
  /\ pc[p] = "OnlineGather" => ckpt'[p] = ckpt[p]

Local(p) == Working(p) => ReadsInStep(p) /\ SendsInStep(p) /\ PlaceRight(p) /\ ResultHeld(p)

LEMMA ScriptKept ==
  ASSUME Counted, TypeOK, inp' = inp, cfg' = cfg, MainGrows, NEW p \in Party, Script(p),
         link'[p]["main"] = link[p]["main"]
  PROVE  Script(p)'
<1> DEFINE s == link[p]["main"]
<1>0. LinkTypes
  BY Zenon DEF TypeOK
<1>1. ASSUME NEW k \in 1 .. Len(s) PROVE Content(p, s[k])' /\ Early(s[k], k)
  <2>1. Content(p, s[k]) /\ Early(s[k], k)
    BY Zenon DEF Script
  <2>2. \A x : Content(p, x) => Content(p, x)'
    BY <1>0, AfterKept, Zenon
  <2>3. s[k]' = s[k]
    BY Zenon
  <2> QED BY <2>1, <2>2, <2>3, Zenon
<1>2. ASSUME NEW k \in 1 .. Len(s) - 1
      PROVE  Then(p, s[k], Note(s[k + 1].at, s[k + 1].b))'
  <2>1. Then(p, s[k], Note(s[k + 1].at, s[k + 1].b))
    BY Zenon DEF Script
  <2>2. \A x, y : Then(p, x, y) => Then(p, x, y)'
    BY <1>0, AfterKept, Zenon
  <2>3. s[k]' = s[k] /\ s[k + 1]' = s[k + 1]
    BY Zenon
  <2> QED BY <2>1, <2>2, <2>3, Zenon DEF Note
<1>3. Len(s) >= 1 /\ s[1].at = "Init"
  BY Zenon DEF Script
<1> QED BY <1>1, <1>2, <1>3, Zenon DEF Script

LEMMA LocalKept ==
  ASSUME Counted, TypeOK, inp' = inp, cfg' = cfg, MainGrows, NEW p \in Party, Local(p), Waits(p)
  PROVE  Local(p)'
<1> DEFINE q == Other(p)
           g == got[p]["main"]
           s == link[q]["main"]
           own == link[p]["main"]
           last == LastMain(p)
<1>0. /\ LinkTypes /\ q \in Party /\ g \in Nat /\ s \in Seq(Message) /\ own \in Seq(Message)
      /\ g <= Len(s)
  BY Parties, Zenon DEF TypeOK, LinkTypes, Ctx
<1>1. SUFFICES ASSUME Working(p)
               PROVE  ReadsInStep(p)' /\ SendsInStep(p)' /\ PlaceRight(p)' /\ ResultHeld(p)'
  BY Zenon DEF Local, Waits, Working
<1>2. ReadsInStep(p) /\ SendsInStep(p) /\ PlaceRight(p) /\ ResultHeld(p)
  BY <1>1, Zenon DEF Local
<1>3. Awaits(pc[p])' = Awaits(pc[p]) /\ LastSent(p, pc[p])' = LastSent(p, pc[p])
  BY Zenon DEF Awaits, LastSent, Waits
<1>4. \A r, x, y : Then(r, x, y) => Then(r, x, y)'
  BY <1>0, AfterKept, Zenon
<1>5. ReadsInStep(p)'
  <2>1. CASE g = 0
    BY <1>2, <2>1, Zenon DEF ReadsInStep, Waits
  <2>2. CASE g # 0
    <3>1. s[g]' = s[g]
      BY <1>0, <2>2 DEF MainGrows, Waits
    <3>2. Then(q, s[g], Note(Awaits(pc[p]), idx[p]))
      BY <1>2, <2>2, Zenon DEF ReadsInStep
    <3>3. Then(q, s[g], Note(Awaits(pc[p]), idx[p]))'
      BY <1>3, <1>4, <3>1, <3>2, Zenon DEF Note, Waits
    <3> QED BY <2>2, <3>3, Zenon DEF ReadsInStep, Waits
  <2> QED BY <2>1, <2>2, Zenon
<1>6. SendsInStep(p)'
  <2>1. last' = last /\ pc'[p] = pc[p]
    BY Zenon DEF Waits, LastMain
  <2>2. CASE pc[p] \in Owes
    <3>1. Then(p, last, Note(Awaits(pc[p]), idx[p]))
      BY <1>2, <2>2, Zenon DEF SendsInStep
    <3>2. Then(p, last, Note(Awaits(pc[p]), idx[p]))'
      BY <1>3, <1>4, <2>1, <3>1, Zenon DEF Note, Waits
    <3> QED BY <2>1, <2>2, <3>2, Zenon DEF SendsInStep
  <2>3. CASE pc[p] \notin Owes
    <3>1. Note(last.at, last.b) = Note(LastSent(p, pc[p]), idx[p])
      BY <1>2, <2>3, Zenon DEF SendsInStep
    <3>2. (Note(last.at, last.b) = Note(LastSent(p, pc[p]), idx[p]))'
      BY <1>3, <2>1, <3>1, Zenon DEF Note, Waits
    <3> QED BY <2>1, <2>3, <3>2, Zenon DEF SendsInStep
  <2> QED BY <2>2, <2>3, Zenon
<1>7. PlaceRight(p)'
  <2>1. \A b : Begun(b) => Begun(b)'
    BY <1>0, AfterKept, Zenon
  <2>2. BucketNum' = BucketNum /\ (Skips' <=> Skips)
    BY Fixed, Zenon
  <2>3. pc[p] = "AsyncRun" => Begun(idx[p])'
    BY <1>2, <2>1, Zenon DEF PlaceRight, Waits
  <2> QED BY <1>2, <2>2, <2>3, Zenon DEF PlaceRight, Waits
<1>8. ResultHeld(p)'
  <2>1. Expected(p, idx[p])' = Expected(p, idx[p])
    BY Fixed, Zenon DEF Waits
  <2> QED BY <1>2, <2>1, Zenon DEF ResultHeld, Waits
<1> QED BY <1>5, <1>6, <1>7, <1>8, Zenon

LEMMA EarlyNext ==
  ASSUME NEW p, NEW x, NEW m, NEW k \in Nat, Early(x, k), After(p, x) = Note(m.at, m.b)
  PROVE  Early(m, k + 1)
<1>1. After(p, x).at = m.at
  BY DEF Note
<1> DEFINE a == After(p, x).at
<1>2. /\ a # "Init"
      /\ a = "PreProcess" => x.at = "Init"
      /\ a = "OnlineStart" => x.at = "PreProcess"
      /\ a = "OnlineGather" => x.at = "OnlineStart"
  BY Zenon DEF After, Note, LoopNote
<1> HIDE DEF a
<1> QED BY <1>1, <1>2 DEF Early, a

LEMMA ScriptGrows ==
  ASSUME Counted, TypeOK, inp' = inp, cfg' = cfg, MainGrows, NEW p \in Party, Script(p), NEW m,
         Len(link'[p]["main"]) = Len(link[p]["main"]) + 1,
         link'[p]["main"][Len(link[p]["main"]) + 1] = m,
         Then(p, LastMain(p), Note(m.at, m.b)), Content(p, m)
  PROVE  Script(p)'
<1> DEFINE s == link[p]["main"]
           n == Len(s)
<1>0. LinkTypes /\ n \in Nat /\ n >= 1 /\ s[1].at = "Init"
  BY DEF TypeOK, LinkTypes, Ctx, Script
<1>1. \A k \in 1 .. n : s[k]' = s[k]
  BY Zenon DEF MainGrows
<1>2. (\A x : Content(p, x) => Content(p, x)') /\ \A x, y : Then(p, x, y) => Then(p, x, y)'
  BY <1>0, AfterKept, Zenon
<1>3. ASSUME NEW k \in 1 .. n + 1 PROVE Content(p, s[k])' /\ Early(s[k]', k)
  <2>1. CASE k \in 1 .. n
    <3>1. Content(p, s[k]) /\ Early(s[k], k)
      BY <2>1, Zenon DEF Script
    <3> QED BY <1>1, <1>2, <2>1, <3>1, Zenon
  <2>2. CASE k = n + 1
    <3>1. s[k]' = m
      BY <2>2, Zenon
    <3>2. Content(p, s[k])'
      BY <1>2, <3>1, Zenon
    <3>3. Early(LastMain(p), n)
      <4>1. n \in 1 .. n
        BY <1>0 DEF Script
      <4> QED BY <4>1, Zenon DEF Script, LastMain
    <3>4. Early(m, n + 1)
      BY <1>0, <3>3, EarlyNext, Zenon DEF Then
    <3> QED BY <2>2, <3>1, <3>2, <3>4, Zenon
  <2> QED BY <1>0, <2>1, <2>2
<1>4. ASSUME NEW k \in 1 .. n PROVE Then(p, s[k], Note(s[k + 1].at, s[k + 1].b))'
  <2>1. CASE k \in 1 .. n - 1
    <3>1. Then(p, s[k], Note(s[k + 1].at, s[k + 1].b))
      BY <2>1, Zenon DEF Script
    <3>2. s[k]' = s[k] /\ s[k + 1]' = s[k + 1]
      BY <1>0, <1>1, <2>1
    <3> QED BY <1>2, <3>1, <3>2, Zenon DEF Note
  <2>2. CASE k = n
    <3>1. s[k]' = LastMain(p) /\ s[k + 1]' = m
      BY <1>0, <1>1, <2>2, Zenon DEF LastMain
    <3> QED BY <1>2, <3>1, Zenon DEF Note
  <2> QED BY <1>0, <2>1, <2>2
<1>5. Len(s)' = n + 1 /\ s[1]'.at = "Init"
  BY <1>0, <1>1
<1> HIDE DEF s, n
<1>6. Len(link'[p]["main"]) = n + 1 /\ n \in Nat
  BY <1>0, <1>5, Zenon DEF s
<1> QED BY <1>0, <1>3, <1>4, <1>5, <1>6 DEF Script, s

\* What an exchange does on the main context.
LEMMA MainExchanged ==
  ASSUME Counted, TypeOK, NEW p \in Party, NEW T \in SUBSET Ctx, NEW S \in SUBSET Ctx,
         NEW m, S # {} => m \in Message, Exchange(p, T, S, m)
  PROVE  /\ MainGrows
         /\ link'[Other(p)]["main"] = link[Other(p)]["main"]
         /\ got'[Other(p)]["main"] = got[Other(p)]["main"]
         /\ "main" \in T => /\ Arrived(p, "main") /\ got'[p]["main"] = got[p]["main"] + 1
                            /\ link'[Other(p)]["main"][got'[p]["main"]] = Msg(p, "main")
         /\ "main" \notin T => got'[p]["main"] = got[p]["main"]
         /\ "main" \in S => /\ Len(link'[p]["main"]) = Len(link[p]["main"]) + 1
                            /\ link'[p]["main"][Len(link[p]["main"]) + 1] = m
                            /\ LastMain(p)' = m
         /\ "main" \notin S => link'[p]["main"] = link[p]["main"] /\ LastMain(p)' = LastMain(p)
<1> DEFINE q == Other(p)
<1>0. /\ LinkTypes /\ q \in Party /\ "main" \in Ctx
      /\ \A r \in Party : link[r]["main"] \in Seq(Message) /\ Len(link[r]["main"]) \in Nat
  BY LinkParts, Zenon
<1>1. /\ link'[q] = link[q] /\ got'[q] = got[q]
      /\ "main" \notin S => link'[p]["main"] = link[p]["main"]
      /\ "main" \in S => /\ Len(link'[p]["main"]) = Len(link[p]["main"]) + 1
                         /\ link'[p]["main"][Len(link[p]["main"]) + 1] = m
                         /\ \A k \in 1 .. Len(link[p]["main"]) : link'[p]["main"][k] = link[p]["main"][k]
      /\ "main" \in T => /\ got'[p]["main"] = got[p]["main"] + 1
                         /\ got[p]["main"] < Len(link[q]["main"])
      /\ "main" \notin T => got'[p]["main"] = got[p]["main"]
  <2>1. /\ link'[q] = link[q] /\ got'[q] = got[q]
        /\ \A c \in Ctx \ S : link'[p][c] = link[p][c]
        /\ \A c \in S : /\ Len(link'[p][c]) = Len(link[p][c]) + 1
                        /\ link'[p][c][Len(link[p][c]) + 1] = m
                        /\ \A k \in 1 .. Len(link[p][c]) : link'[p][c][k] = link[p][c][k]
        /\ \A c \in T : got'[p][c] = got[p][c] + 1 /\ got[p][c] < Len(link[q][c])
        /\ \A c \in Ctx \ T : got'[p][c] = got[p][c]
    BY <1>0, Exchanged, Zenon
  <2> QED BY <1>0, <2>1, Zenon
<1>2. MainGrows
  <2>1. ASSUME NEW r \in Party
        PROVE  /\ Len(link'[r]["main"]) \in Nat /\ Len(link'[r]["main"]) >= Len(link[r]["main"])
               /\ \A k \in 1 .. Len(link[r]["main"]) : link'[r]["main"][k] = link[r]["main"][k]
    <3>1. CASE r = q
      BY <1>0, <1>1, <3>1
    <3>2. CASE r = p /\ "main" \in S
      BY <1>0, <1>1, <3>2
    <3>3. CASE r = p /\ "main" \notin S
      BY <1>0, <1>1, <3>3
    <3> QED BY <3>1, <3>2, <3>3, Parties, Zenon
  <2> QED BY <2>1, Zenon DEF MainGrows
<1>3. "main" \in S => LastMain(p)' = m
  BY <1>1, Zenon DEF LastMain
<1>4. "main" \notin S => LastMain(p)' = LastMain(p)
  BY <1>1, Zenon DEF LastMain
<1> QED BY <1>1, <1>2, <1>3, <1>4, Zenon DEF Arrived, Msg

\* The peer of a party that moves stays as it is, apart from the links.
Still(q) == pc'[q] = pc[q] /\ idx'[q] = idx[q] /\ res'[q] = res[q] /\ ckpt'[q] = ckpt[q]

\* A step of the main thread of p to a place, with bucket b.
LEMMA MainMoves ==
  ASSUME Counted, TypeOK, MainInv, inp' = inp, cfg' = cfg, NEW p \in Party, Still(Other(p)),
         NEW T \in SUBSET Ctx, NEW S \in SUBSET Ctx, NEW m, S # {} => m \in Message,
         Exchange(p, T, S, m), NEW place, NEW b, pc'[p] = place, idx'[p] = b,
         "main" \in S => Then(p, LastMain(p), Note(m.at, m.b)) /\ Content(p, m),
         place \notin {"down", "done", "Spin"} =>
           /\ "main" \notin T => got[p]["main"] # 0
           /\ Then(Other(p), IF "main" \in T THEN Msg(p, "main")
                             ELSE link[Other(p)]["main"][got[p]["main"]], Note(Awaits(place), b))
           /\ LET last == IF "main" \in S THEN m ELSE LastMain(p) IN
              IF place \in Owes THEN Then(p, last, Note(Awaits(place), b))
              ELSE Note(last.at, last.b) = Note(LastSent(p, place), b)
           /\ PlaceRight(p)' /\ ResultHeld(p)'
  PROVE  MainInv'
<1> DEFINE q == Other(p)
           g == got[p]["main"]
           read == IF "main" \in T THEN Msg(p, "main") ELSE link[q]["main"][g]
           last == IF "main" \in S THEN m ELSE LastMain(p)
<1>0. /\ LinkTypes /\ q \in Party /\ Script(p) /\ Script(q) /\ Local(q) /\ g \in Nat
  BY LinkParts, Zenon DEF MainInv, Local
<1>1. /\ MainGrows /\ link'[q]["main"] = link[q]["main"] /\ got'[q]["main"] = got[q]["main"]
      /\ "main" \in T => got'[p]["main"] = g + 1 /\ link'[q]["main"][got'[p]["main"]] = Msg(p, "main")
      /\ "main" \notin T => got'[p]["main"] = g
      /\ "main" \in S => /\ Len(link'[p]["main"]) = Len(link[p]["main"]) + 1
                         /\ link'[p]["main"][Len(link[p]["main"]) + 1] = m
      /\ "main" \notin S => link'[p]["main"] = link[p]["main"]
      /\ LastMain(p)' = last
  BY MainExchanged
<1>2. Script(q)' /\ Local(q)'
  <2>1. Waits(q)
    BY <1>1, Zenon DEF Still, Waits
  <2> QED BY <1>0, <1>1, <2>1, ScriptKept, LocalKept, Zenon
<1>3. Script(p)'
  <2>1. CASE "main" \in S
    BY <1>0, <1>1, <2>1, ScriptGrows, Zenon
  <2>2. CASE "main" \notin S
    BY <1>0, <1>1, <2>2, ScriptKept, Zenon
  <2> QED BY <2>1, <2>2, Zenon
<1>4. Local(p)'
  <2> SUFFICES ASSUME Working(p)' PROVE (ReadsInStep(p) /\ SendsInStep(p) /\ PlaceRight(p) /\ ResultHeld(p))'
    BY Zenon DEF Local
  <2>0. place \notin {"down", "done", "Spin"}
    BY Zenon DEF Working
  <2>1. \A r, x, y : Then(r, x, y) => Then(r, x, y)'
    BY <1>0, <1>1, AfterKept, Zenon
  <2>2. Then(q, read, Note(Awaits(place), b)) /\ got'[p]["main"] # 0
        /\ link'[q]["main"][got'[p]["main"]] = read
    <3>1. Then(q, read, Note(Awaits(place), b)) /\ ("main" \notin T => g # 0)
      BY <2>0, Zenon
    <3>2. CASE "main" \in T
      BY <1>0, <1>1, <3>1, <3>2
    <3>3. CASE "main" \notin T
      BY <1>1, <3>1, <3>3, Zenon
    <3> QED BY <3>2, <3>3, Zenon
  <2>3. ReadsInStep(p)'
    <3> HIDE DEF read
    <3>1. Then(q, link[q]["main"][got[p]["main"]], Note(Awaits(pc[p]), idx[p]))'
      BY <2>1, <2>2, Zenon DEF Note, Awaits
    <3> QED BY <2>2, <3>1, Zenon DEF ReadsInStep
  <2>4. IF place \in Owes THEN Then(p, last, Note(Awaits(place), b))
        ELSE Note(last.at, last.b) = Note(LastSent(p, place), b)
    BY <2>0, Zenon
  <2>5. SendsInStep(p)'
    <3> HIDE DEF last
    <3>1. CASE place \in Owes
      <4>1. Then(p, LastMain(p), Note(Awaits(pc[p]), idx[p]))'
        BY <1>1, <2>1, <2>4, <3>1, Zenon DEF Note, Awaits
      <4> QED BY <3>1, <4>1, Zenon DEF SendsInStep
    <3>2. CASE place \notin Owes
      <4>1. (Note(LastMain(p).at, LastMain(p).b) = Note(LastSent(p, pc[p]), idx[p]))'
        BY <1>1, <2>4, <3>2, Zenon DEF Note, LastSent
      <4> QED BY <3>2, <4>1, Zenon DEF SendsInStep
    <3> QED BY <3>1, <3>2, Zenon
  <2> QED BY <2>0, <2>3, <2>5, Zenon
<1>5. \A r \in Party : Script(r)' /\ Local(r)'
  BY <1>2, <1>3, <1>4, Parties, Zenon
<1> QED BY <1>5, Zenon DEF MainInv, Local

\* The bucket index is zero before the loop.
LEMMA EarlyIdx ==
  ASSUME Counted, TypeOK, MainInv, NEW p \in Party,
         pc[p] \in {"Init", "PreProcess", "OnlineStart", "OnlineGather"}
  PROVE  idx[p] = 0 /\ res[p] = {}
<1> DEFINE q == Other(p)
           m == link[q]["main"][got[p]["main"]]
<1>1. ReadsInStep(p) /\ ResultHeld(p) /\ q \in Party
  BY Parties, Zenon DEF MainInv, Working
<1>2. CASE got[p]["main"] = 0
  BY <1>1, <1>2, Zenon DEF ReadsInStep, ResultHeld
<1>3. CASE got[p]["main"] # 0
  <2>1. After(q, m) = Note(pc[p], idx[p])
    BY <1>1, <1>3, Zenon DEF ReadsInStep, Then, Awaits
  <2>2. \A n : After(q, m).at = n /\ n \in {"Init", "PreProcess", "OnlineStart", "OnlineGather"}
               => After(q, m).b = 0
    BY Zenon DEF After, Note, LoopNote
  <2>3. idx[p] = 0
    BY <2>1, <2>2 DEF Note
  <2> QED BY <1>1, <2>3, Zenon DEF ResultHeld
<1> QED BY <1>2, <1>3, Zenon

\* A party enters the loop, or leaves it.
LEMMA MainEnters ==
  ASSUME Counted, TypeOK, MainInv, inp' = inp, cfg' = cfg, NEW p \in Party, Still(Other(p)),
         NEW b \in Nat, EnterLoop(p, b), res'[p] = {},
         Then(p, LastMain(p), LoopNote(b)), Then(Other(p), Msg(p, "main"), LoopNote(b)),
         cfg.protocol = "RR22" => Begun(b)
  PROVE  MainInv'
<1> DEFINE q == Other(p)
           place == LoopPlace(b)
           S == IF place = "Size" THEN {"main"} ELSE {}
           m == Size(p, "Size", b)
<1>0. /\ cfg.protocol \in {"KKRT", "RR22"} /\ "main" \in Ctx /\ BucketNum \in Nat
      /\ S \in SUBSET Ctx /\ {"main"} \in SUBSET Ctx /\ LinkTypes
  BY Constants, Lists, Zenon DEF Ctx, TypeOK
<1>1. m \in Message
  BY Messages DEF TypeOK, Place
<1>2. Exchange(p, {"main"}, S, m) /\ pc'[p] = place /\ idx'[p] = b
  BY TypeParts, Zenon DEF EnterLoop, Goto, PcTypes, IdxTypes
<1>3. MainGrows
  <2> HIDE DEF S, m
  <2> QED BY <1>0, <1>1, <1>2, MainExchanged, Zenon
<1>4. ResultHeld(p)'
  BY <1>2, Zenon DEF ResultHeld, LoopPlace
<1>5. PlaceRight(p)'
  <2>1. BucketNum' = BucketNum
    BY Fixed, Zenon
  <2>2. Begun(b) => Begun(b)'
    BY <1>0, <1>3, AfterKept, Zenon
  <2>3. CASE cfg.protocol = "RR22"
    <3>1. pc'[p] = "AsyncRun" /\ Begun(idx[p])'
      BY <1>2, <2>2, <2>3, Zenon DEF LoopPlace
    <3> QED BY <2>3, <3>1, Zenon DEF PlaceRight, LoopPlaces
  <2>4. CASE cfg.protocol = "KKRT" /\ b < BucketNum
    <3>1. pc'[p] = "Size" /\ idx'[p] < BucketNum'
      BY <1>2, <2>1, <2>4, Zenon DEF LoopPlace
    <3> QED BY <2>4, <3>1, Zenon DEF PlaceRight, LoopPlaces
  <2>5. CASE cfg.protocol = "KKRT" /\ ~(b < BucketNum)
    <3>1. pc'[p] = "PostProcess"
      BY <1>2, <2>5, Zenon DEF LoopPlace
    <3> QED BY <3>1, Zenon DEF PlaceRight, LoopPlaces
  <2> QED BY <1>0, <2>3, <2>4, <2>5, Zenon
<1>6. CASE place = "Size"
  <2>1. LoopNote(b) = Note("Size", b) /\ m.at = "Size" /\ m.b = b /\ S = {"main"}
        /\ Awaits(place) = "Size" /\ LastSent(p, place) = "Size" /\ place \notin Owes
    BY <1>6, Zenon DEF LoopPlace, LoopNote, Size, Awaits, LastSent, Owes
  <2>2. Content(p, m)
    BY <2>1, Zenon DEF Content, Size
  <2> HIDE DEF S, m, place
  <2> QED BY <1>0, <1>1, <1>2, <1>4, <1>5, <2>1, <2>2, MainMoves
<1>7. CASE place # "Size"
  <2>1. LoopNote(b) = Note(Awaits(place), b) /\ S = {} /\ place \in Owes
    BY <1>0, <1>7, Zenon DEF LoopPlace, LoopNote, Awaits, Owes
  <2> HIDE DEF S, m, place
  <2> QED BY <1>0, <1>1, <1>2, <1>4, <1>5, <2>1, MainMoves, SMTT(30)
<1> QED BY <1>6, <1>7, Zenon

LEMMA MainInit ==
  ASSUME Counted, TypeOK, MainInv, NEW p \in Party, InitEnd(p)
  PROVE  MainInv'
<1> DEFINE q == Other(p)
           m == Msg(p, "main")
           same == DigestEqual(p, m)
           S == IF same THEN {} ELSE {"main"}
           note == IF same THEN <<>> ELSE ListSize(p)
           place == IF same THEN "Close" ELSE "PreProcess"
<1>0. Working(p) /\ Awaits(pc[p]) = "Init" /\ Arrived(p, "main") /\ pc[p] = "Init"
  BY Zenon DEF InitEnd, Working, Awaits
<1>1. m.at = "Init" /\ m.b = 0 /\ m = Hello(q) /\ idx[p] = 0 /\ res[p] = {}
  BY <1>0, Received, EarlyIdx, Zenon DEF Content
<1>2. same <=> Skips
  BY <1>1, SkipsAlike, Zenon
<1>3. LastMain(p).at = "Init"
  BY <1>0, NoteParts DEF MainInv, SendsInStep, Owes, LastSent
<1>4. /\ Exchange(p, {"main"}, S, note) /\ pc'[p] = place /\ idx'[p] = 0 /\ res'[p] = {}
      /\ inp' = inp /\ cfg' = cfg /\ Still(q)
  BY <1>1, TypeParts, Parties, Zenon
  DEF InitEnd, RecvOn, RecvSend, Goto, PcTypes, IdxTypes, ResTypes, CkptTypes, MarkStage, Still, taskVars
<1>5. /\ {"main"} \in SUBSET Ctx /\ S \in SUBSET Ctx /\ (S # {} => note \in Message)
      /\ (same <=> "main" \notin S)
  BY Messages, Zenon DEF Ctx, TypeOK
<1>6. \A r : After(r, m) = Note(IF same THEN "FinalizeSync" ELSE "PreProcess", 0)
             /\ After(r, LastMain(p)) = Note(IF same THEN "FinalizeSync" ELSE "PreProcess", 0)
  BY <1>1, <1>2, <1>3, Zenon DEF After
<1>7. PlaceRight(p)' /\ ResultHeld(p)'
  BY <1>2, <1>4, Fixed, Zenon DEF PlaceRight, ResultHeld, LoopPlaces
<1>8. CASE same
  <2>1. Then(p, LastMain(p), Note(Awaits(place), 0)) /\ Then(q, m, Note(Awaits(place), 0))
        /\ place \in Owes
    BY <1>1, <1>3, <1>6, <1>8, Zenon DEF Then, Awaits, Owes
  <2> HIDE DEF S, note, place, m
  <2> QED BY <1>4, <1>5, <1>7, <1>8, <2>1, MainMoves, Zenon DEF m
<1>9. CASE ~same
  <2>1. Then(p, LastMain(p), Note(note.at, note.b)) /\ Then(q, m, Note(Awaits(place), 0))
        /\ place \notin Owes /\ Note(note.at, note.b) = Note(LastSent(p, place), 0)
        /\ Content(p, note)
    BY <1>1, <1>3, <1>6, <1>9, Zenon DEF Then, Awaits, Owes, ListSize, LastSent, Content
  <2> HIDE DEF S, note, place, m
  <2> QED BY <1>4, <1>5, <1>7, <1>9, <2>1, MainMoves, Zenon DEF m
<1> QED BY <1>8, <1>9, Zenon

LEMMA MainPre ==
  ASSUME Counted, TypeOK, MainInv, NEW p \in Party, PreProcess(p)
  PROVE  MainInv'
<1> DEFINE q == Other(p)
           m == Msg(p, "main")
           note == Note("OnlineStart", 0)
<1>0. Working(p) /\ Awaits(pc[p]) = "PreProcess" /\ Arrived(p, "main") /\ pc[p] = "PreProcess"
  BY Zenon DEF PreProcess, Working, Awaits, RecvSend, Exchange
<1>1. m.at = "PreProcess" /\ m.b = 0 /\ idx[p] = 0 /\ res[p] = {}
  BY <1>0, Received, EarlyIdx, Zenon
<1>2. LastMain(p).at = "PreProcess"
  BY <1>0, NoteParts DEF MainInv, SendsInStep, Owes, LastSent
<1>3. /\ Exchange(p, {"main"}, {"main"}, note) /\ pc'[p] = "OnlineStart" /\ idx'[p] = 0
      /\ res'[p] = {} /\ inp' = inp /\ cfg' = cfg /\ Still(q)
  BY <1>1, TypeParts, Parties, Zenon DEF PreProcess, RecvSend, Goto, PcTypes, Still, taskVars, diskVars
<1>4. {"main"} \in SUBSET Ctx /\ note \in Message
  BY Messages DEF Ctx, TypeOK, Place
<1>5. PlaceRight(p)' /\ ResultHeld(p)'
  BY <1>3, Zenon DEF PlaceRight, ResultHeld, LoopPlaces
<1>6. Then(p, LastMain(p), Note(note.at, note.b)) /\ Then(q, m, Note(Awaits("OnlineStart"), 0))
      /\ "OnlineStart" \notin Owes /\ Note(note.at, note.b) = Note(LastSent(p, "OnlineStart"), 0)
      /\ Content(p, note)
  BY <1>1, <1>2, Zenon DEF Then, After, Awaits, Owes, Note, LastSent, Content
<1> HIDE DEF note, m
<1> QED BY <1>3, <1>4, <1>5, <1>6, MainMoves, Zenon DEF m

LEMMA MainOnline ==
  ASSUME Counted, TypeOK, MainInv, NEW p \in Party, OnlineStart(p)
  PROVE  MainInv'
<1> DEFINE q == Other(p)
           m == Msg(p, "main")
<1>0. Working(p) /\ Awaits(pc[p]) = "OnlineStart" /\ Arrived(p, "main") /\ pc[p] = "OnlineStart"
  BY Zenon DEF OnlineStart, Working, Awaits, RecvOn, RecvSend, Exchange, EnterLoop
<1>1. m.at = "OnlineStart" /\ m.b = 0 /\ idx[p] = 0 /\ res[p] = {}
  BY <1>0, Received, EarlyIdx, Zenon
<1>2. LastMain(p).at = "OnlineStart"
  BY <1>0, NoteParts DEF MainInv, SendsInStep, Owes, LastSent
<1>3. res'[p] = {} /\ inp' = inp /\ cfg' = cfg /\ ckpt' = ckpt /\ Still(q) /\ q # p
  BY <1>1, TypeParts, Parties, Zenon
  DEF OnlineStart, Goto, PcTypes, IdxTypes, EnterLoop, Still, taskVars, diskVars
<1>4. {"main"} \in SUBSET Ctx /\ {} \in SUBSET Ctx /\ Record(p) \in Message /\ BucketNum \in Nat
  BY Messages, Lists, Zenon DEF Ctx, TypeOK, ControlTypes
<1>5. \A r, x : x \in {m, LastMain(p)} =>
        Then(r, x, IF BucketNum = 0 THEN Note("FinalizeSync", 0)
                   ELSE IF cfg.recovery THEN Note("OnlineGather", 0) ELSE LoopNote(0))
  BY <1>1, <1>2, Zenon DEF Then, After
<1>6. CASE BucketNum = 0 /\ RecvOn(p, "main") /\ Goto(p, "PostProcess") /\ UNCHANGED <<idx, th>>
  <2>1. Exchange(p, {"main"}, {}, <<>>) /\ pc'[p] = "PostProcess" /\ idx'[p] = 0
    BY <1>1, <1>6, TypeParts, Zenon DEF RecvOn, Goto, PcTypes
  <2>2. PlaceRight(p)' /\ ResultHeld(p)'
    BY <1>3, <2>1, Zenon DEF PlaceRight, ResultHeld, LoopPlaces
  <2>3. \A r, x : x \in {m, LastMain(p)} => Then(r, x, Note(Awaits("PostProcess"), 0))
    BY <1>5, <1>6, Zenon DEF Awaits
  <2>4. "PostProcess" \in Owes
    BY Zenon DEF Owes
  <2> HIDE DEF m
  <2> QED BY <1>3, <1>4, <2>1, <2>2, <2>3, <2>4, MainMoves, Zenon DEF m
<1>7. CASE /\ BucketNum > 0 /\ cfg.recovery /\ RecvSend(p, "main", Record(p))
           /\ Goto(p, "OnlineGather") /\ UNCHANGED <<idx, th>>
  <2> DEFINE note == Record(p)
  <2>1. Exchange(p, {"main"}, {"main"}, note) /\ pc'[p] = "OnlineGather" /\ idx'[p] = 0
    BY <1>1, <1>7, TypeParts, Zenon DEF RecvSend, Goto, PcTypes
  <2>2. /\ Then(p, LastMain(p), Note(note.at, note.b)) /\ Then(q, m, Note(Awaits("OnlineGather"), 0))
        /\ "OnlineGather" \notin Owes /\ Note(note.at, note.b) = Note(LastSent(p, "OnlineGather"), 0)
    BY <1>4, <1>5, <1>7 DEF Record, Awaits, LastSent, Owes
  <2>3. Content(p, note)
    BY TypeParts, Zenon DEF Content, Record, CkptTypes
  <2>4. link'[p]["main"][4] = note
    <3>1. Len(link[p]["main"]) = 3
      <4>1. Script(p) /\ Len(link[p]["main"]) \in Nat
        BY DEF MainInv, TypeOK, LinkTypes, Ctx
      <4>2. Early(LastMain(p), Len(link[p]["main"]))
        BY <4>1 DEF Script, LastMain
      <4> QED BY <1>2, <4>2, Zenon DEF Early
    <3>2. link'[p]["main"][Len(link[p]["main"]) + 1] = note
      <4> HIDE DEF note
      <4>1. note \in Message /\ LinkTypes
        BY <1>4, Zenon DEF note, TypeOK
      <4> DEFINE C == {"main"}
      <4>2. C \in SUBSET Ctx /\ "main" \in C /\ Exchange(p, C, C, note)
        BY <1>4, <2>1, Zenon
      <4> HIDE DEF C
      <4>3. \A c \in C : /\ Len(link'[p][c]) = Len(link[p][c]) + 1
                         /\ link'[p][c][Len(link[p][c]) + 1] = note
                         /\ \A k \in 1 .. Len(link[p][c]) : link'[p][c][k] = link[p][c][k]
        BY <4>1, <4>2, Exchanged, Zenon
      <4> QED BY <4>2, <4>3, Zenon
    <3> QED BY <3>1, <3>2
  <2>5. PlaceRight(p)' /\ ResultHeld(p)'
    <3>1. BucketNum' = BucketNum
      BY <1>3, Fixed, Zenon
    <3>2. note.stage = ckpt[p].stage /\ note.cnt = ckpt[p].cnt
      BY Zenon DEF Record
    <3> HIDE DEF note
    <3> QED BY <1>3, <1>7, <2>1, <2>4, <3>1, <3>2, Zenon DEF PlaceRight, ResultHeld, LoopPlaces
  <2> HIDE DEF note, m
  <2> QED BY <1>3, <1>4, <2>1, <2>2, <2>3, <2>5, MainMoves, Zenon DEF m, note
<1>8. CASE BucketNum > 0 /\ ~cfg.recovery /\ EnterLoop(p, 0)
  <2>1. Then(p, LastMain(p), LoopNote(0)) /\ Then(q, m, LoopNote(0)) /\ Begun(0)
    BY <1>4, <1>5, <1>8 DEF Begun, Resume
  <2> HIDE DEF m
  <2> QED BY <1>3, <1>8, <2>1, MainEnters, Zenon DEF m
<1> QED BY <1>6, <1>7, <1>8, Zenon DEF OnlineStart

LEMMA MainGather ==
  ASSUME Counted, TypeOK, MainInv, NEW p \in Party, OnlineGather(p)
  PROVE  MainInv'
<1> DEFINE q == Other(p)
           m == Msg(p, "main")
           finished == m.stage >= ONLINE_END /\ ckpt[p].stage >= ONLINE_END
<1>0. pc[p] = "OnlineGather" /\ Arrived(p, "main")
  BY Zenon DEF OnlineGather
<1>1. /\ Gathered /\ m.at = "OnlineGather" /\ LastMain(p).at = "OnlineGather"
      /\ (Finished <=> finished) /\ ResumeAt(p, m) = Resume /\ Resume \in Nat
  BY <1>0, RecordsKnown, Zenon
<1>2. idx[p] = 0 /\ res[p] = {}
  BY <1>0, EarlyIdx, Zenon
<1>3. res'[p] = {} /\ inp' = inp /\ cfg' = cfg /\ Still(q)
  BY <1>2, TypeParts, Parties, Zenon
  DEF OnlineGather, Goto, PcTypes, IdxTypes, CkptTypes, MarkStage, EnterLoop, Still, taskVars
<1>4. \A r, x : x \in {m, LastMain(p)} =>
        Then(r, x, IF Finished THEN Note("FinalizeSync", 0) ELSE LoopNote(Resume))
  BY <1>1, Zenon DEF Then, After
<1>5. CASE finished /\ RecvOn(p, "main") /\ Goto(p, "PostProcess") /\ UNCHANGED <<idx, th>>
  <2>1. Exchange(p, {"main"}, {}, <<>>) /\ pc'[p] = "PostProcess" /\ idx'[p] = 0
    BY <1>2, <1>5, TypeParts, Zenon DEF RecvOn, Goto, PcTypes
  <2>2. PlaceRight(p)' /\ ResultHeld(p)'
    BY <1>3, <2>1, Zenon DEF PlaceRight, ResultHeld, LoopPlaces
  <2>3. \A r, x : x \in {m, LastMain(p)} => Then(r, x, Note(Awaits("PostProcess"), 0))
    BY <1>1, <1>4, <1>5, Zenon DEF Awaits
  <2>4. "PostProcess" \in Owes /\ {"main"} \in SUBSET Ctx /\ {} \in SUBSET Ctx
    BY Zenon DEF Owes, Ctx
  <2> HIDE DEF m
  <2> QED BY <1>3, <2>1, <2>2, <2>3, <2>4, MainMoves, Zenon DEF m
<1>6. CASE ~finished /\ EnterLoop(p, ResumeAt(p, m))
  <2>1. Then(p, LastMain(p), LoopNote(Resume)) /\ Then(q, m, LoopNote(Resume)) /\ Begun(Resume)
    BY <1>1, <1>4, <1>6, Zenon DEF Begun
  <2>2. EnterLoop(p, Resume)
    BY <1>1, <1>6, Zenon
  <2> HIDE DEF m
  <2> QED BY <1>1, <1>3, <2>1, <2>2, MainEnters, Zenon DEF m
<1> QED BY <1>5, <1>6, Zenon DEF OnlineGather

-----------------------------------------------------------------------------
(* The loop of KKRT.                                                         *)

\* A party has results in a bucket when its peer has.
LEMMA BothHaveResults ==
  ASSUME NEW p \in Party, NEW b, Expected(p, b) # {}
  PROVE  Expected(Other(p), b) # {}
<1> DEFINE q == Other(p)
<1>1. Other(q) = p
  BY Parties, Zenon
<1>2. PICK h \in Expected(p, b) : TRUE
  BY Zenon
<1>3. PICK i \in Bucket(p, b) : \E j \in Bucket(q, b) :
        Key(p, i) = Key(q, j) /\ h = [idx |-> i, dup |-> Dup(q, j)]
  <2>1. h \in Matches(p, Bucket(p, b), Bucket(q, b))
    BY <1>2, Zenon DEF Expected
  <2> QED BY <2>1, MatchParts
<1>4. PICK j \in Bucket(q, b) : Key(p, i) = Key(q, j)
  BY <1>3, Zenon
<1>5. [idx |-> j, dup |-> Dup(p, i)] \in Matches(q, Bucket(q, b), Bucket(p, b))
  <2> HIDE DEF q
  <2>1. Key(q, j) = Key(Other(q), i)
    BY <1>1, <1>4, Zenon
  <2>2. [idx |-> j, dup |-> Dup(Other(q), i)] \in Matches(q, Bucket(q, b), Bucket(p, b))
    BY <2>1, MatchParts, Zenon
  <2> QED BY <1>1, <2>2, Zenon
<1> QED BY <1>1, <1>5, Zenon DEF Expected

\* The sender's shortcut: as many results as items are all the items.
LEMMA SenderHitsRight ==
  ASSUME Counted, inp \in Inputs, NEW p \in Party
  PROVE  SenderHits(p, Told(Other(p), {h.idx : h \in Expected(Other(p), idx[p])}))
           = Expected(p, idx[p])
<1> DEFINE q == Other(p)
           b == idx[p]
           own == Bucket(p, b)
           U == {h.idx : h \in Expected(q, b)}
           told == Told(q, U)
           hits == Hits(p, own, told)
           I == {h.idx : h \in hits}
<1>0. q \in Party /\ Other(q) = p
  BY Parties, Zenon
<1>1. hits = Expected(p, b)
  BY HitsMatch, MatchBack, Zenon
<1>8. ASSUME Cardinality(told) = Cardinality(own) PROVE own \ I = {}
  BY <1>1, <1>8, Zenon DEF Counted
<1>9. SenderHits(p, told) = IF Cardinality(told) = Cardinality(own)
                            THEN hits \cup [idx : own \ I, dup : {0}] ELSE hits
  BY Zenon DEF SenderHits
<1> HIDE DEF told, own, I, hits
<1>10. own \ I = {} => [idx : own \ I, dup : {0}] = {}
  BY Zenon
<1> QED BY <1>1, <1>8, <1>9, <1>10, Zenon DEF told

\* What a party of the loop knows when it receives.
LEMMA LoopFacts ==
  ASSUME Counted, TypeOK, MainInv, NEW p \in Party, pc[p] \in LoopPlaces, pc[p] # "Write",
         Arrived(p, "main")
  PROVE  /\ Msg(p, "main").at = pc[p] /\ Msg(p, "main").b = idx[p]
         /\ Content(Other(p), Msg(p, "main"))
         /\ LastMain(p).at = LastSent(p, pc[p]) /\ LastMain(p).b = idx[p]
         /\ cfg.protocol = "KKRT" /\ idx[p] < BucketNum
         /\ ResultHeld(p) /\ idx[p] \in Nat /\ inp \in Inputs
<1>1. Working(p) /\ Awaits(pc[p]) = pc[p] /\ pc[p] \notin Owes
  BY Zenon DEF Working, Awaits, LoopPlaces, Owes
<1>2. Msg(p, "main").at = pc[p] /\ Msg(p, "main").b = idx[p] /\ Content(Other(p), Msg(p, "main"))
  BY <1>1, Received, Zenon
<1>3. SendsInStep(p) /\ PlaceRight(p) /\ ResultHeld(p)
  BY <1>1, Zenon DEF MainInv
<1>4. LastMain(p).at = LastSent(p, pc[p]) /\ LastMain(p).b = idx[p]
  BY <1>1, <1>3, NoteParts DEF SendsInStep
<1> QED BY <1>2, <1>3, <1>4, Zenon DEF PlaceRight, TypeOK, ControlTypes

LEMMA LoopStays ==
  ASSUME Counted, TypeOK, MainInv, NEW p \in Party, inp' = inp, cfg' = cfg, idx'[p] = idx[p],
         pc[p] \in LoopPlaces, pc'[p] \in LoopPlaces, pc'[p] = "Sync" => p # Receiver
  PROVE  PlaceRight(p)'
<1>1. BucketNum' = BucketNum
  BY Fixed, Zenon
<1>2. cfg.protocol = "KKRT" /\ idx[p] < BucketNum
  BY Zenon DEF MainInv, Working, LoopPlaces, PlaceRight
<1> QED BY <1>1, <1>2, Zenon DEF PlaceRight, LoopPlaces

LEMMA MainSize ==
  ASSUME Counted, TypeOK, MainInv, NEW p \in Party, KkrtSize(p)
  PROVE  MainInv'
<1> DEFINE q == Other(p)
           b == idx[p]
           m == Msg(p, "main")
           note == Size(p, "SetSize", b)
<1>0. pc[p] = "Size" /\ pc[p] \in LoopPlaces /\ Arrived(p, "main")
  BY Zenon DEF KkrtSize, LoopPlaces
<1>1. /\ m.at = "Size" /\ m.b = b /\ m.size = Cardinality(Bucket(q, b))
      /\ LastMain(p).at = "Size" /\ LastMain(p).b = b /\ cfg.protocol = "KKRT"
      /\ res[p] = {} /\ b \in Nat /\ inp \in Inputs
  BY <1>0, LoopFacts, Zenon DEF Content, LastSent, ResultHeld
<1>2. m.size = 0 \/ Bucket(p, b) = {} <=> Null(b)
  BY <1>1, NullKnown, Zenon
<1>3. res'[p] = {} /\ inp' = inp /\ cfg' = cfg /\ Still(q)
  BY <1>1, TypeParts, Parties, Zenon
  DEF KkrtSize, EnterLoop, Goto, PcTypes, IdxTypes, Still, taskVars, diskVars
<1>4. \A r, x : x \in {m, LastMain(p)} =>
        Then(r, x, IF Null(b) THEN LoopNote(b + 1) ELSE Note("SetSize", b))
  BY <1>1, Zenon DEF Then, After
<1>5. CASE Null(b) /\ EnterLoop(p, b + 1)
  <2>1. Then(p, LastMain(p), LoopNote(b + 1)) /\ Then(q, m, LoopNote(b + 1)) /\ b + 1 \in Nat
    BY <1>1, <1>4, <1>5
  <2> HIDE DEF m, b
  <2> QED BY <1>1, <1>3, <1>5, <2>1, MainEnters, Zenon DEF m
<1>6. CASE ~Null(b) /\ RecvSend(p, "main", note) /\ Goto(p, "SetSize") /\ UNCHANGED <<idx, th>>
  <2>1. Exchange(p, {"main"}, {"main"}, note) /\ pc'[p] = "SetSize" /\ idx'[p] = b
    BY <1>6, TypeParts, Zenon DEF RecvSend, Goto, PcTypes
  <2>2. /\ Then(p, LastMain(p), Note(note.at, note.b)) /\ Then(q, m, Note(Awaits("SetSize"), b))
        /\ "SetSize" \notin Owes /\ Note(note.at, note.b) = Note(LastSent(p, "SetSize"), b)
    BY <1>4, <1>6, Zenon DEF Size, Awaits, LastSent, Owes
  <2>3. Content(p, note)
    BY Zenon DEF Content, Size
  <2>4. PlaceRight(p)' /\ ResultHeld(p)'
    <3>1. pc'[p] \in LoopPlaces
      BY <2>1, Zenon DEF LoopPlaces
    <3>2. PlaceRight(p)'
      BY <1>0, <1>3, <2>1, <3>1, LoopStays, Zenon
    <3> QED BY <1>3, <2>1, <3>2, Zenon DEF ResultHeld
  <2>5. {"main"} \in SUBSET Ctx /\ note \in Message
    BY <1>1, Messages DEF Ctx, TypeOK, Place
  <2> HIDE DEF note, m, b
  <2> QED BY <1>3, <2>1, <2>2, <2>3, <2>4, <2>5, MainMoves, Zenon DEF m
<1> QED BY <1>2, <1>5, <1>6, Zenon DEF KkrtSize

LEMMA MainSetSize ==
  ASSUME Counted, TypeOK, MainInv, NEW p \in Party, KkrtSetSize(p)
  PROVE  MainInv'
<1> DEFINE q == Other(p)
           b == idx[p]
           m == Msg(p, "main")
           note == Note("Kkrt", b)
           S == IF p = Receiver THEN {"main"} ELSE {}
           out == IF p = Receiver THEN note ELSE <<>>
<1>0. pc[p] = "SetSize" /\ pc[p] \in LoopPlaces /\ Arrived(p, "main")
  BY Zenon DEF KkrtSetSize, LoopPlaces, RecvSend, RecvOn, Exchange
<1>1. /\ m.at = "SetSize" /\ m.b = b /\ LastMain(p).at = "SetSize" /\ LastMain(p).b = b
      /\ res[p] = {} /\ b \in Nat
  BY <1>0, LoopFacts, Zenon DEF LastSent, ResultHeld
<1>2. /\ Exchange(p, {"main"}, S, out) /\ pc'[p] = "Kkrt" /\ idx'[p] = b
      /\ res'[p] = {} /\ inp' = inp /\ cfg' = cfg /\ Still(q)
  BY <1>1, TypeParts, Parties, Zenon DEF KkrtSetSize, RecvSend, RecvOn, Goto, PcTypes, Still, taskVars, diskVars
<1>3. Then(p, LastMain(p), Note("Kkrt", b)) /\ Then(q, m, Note(Awaits("Kkrt"), b))
  BY <1>1, Zenon DEF Then, After, Awaits
<1>4. PlaceRight(p)' /\ ResultHeld(p)'
  <2>1. pc'[p] \in LoopPlaces
    BY <1>2, Zenon DEF LoopPlaces
  <2>2. PlaceRight(p)'
    BY <1>0, <1>2, <2>1, LoopStays, Zenon
  <2> QED BY <1>2, <2>2, Zenon DEF ResultHeld
<1>5. {"main"} \in SUBSET Ctx /\ S \in SUBSET Ctx /\ note \in Message
  BY <1>1, Messages DEF Ctx, TypeOK, Place
<1>6. "Kkrt" \notin Owes /\ note.at = "Kkrt" /\ note.b = b
  BY Zenon DEF Owes, Note
<1>7. CASE p = Receiver
  <2>1. LastSent(p, "Kkrt") = "Kkrt" /\ Content(p, note) /\ S = {"main"} /\ out = note
    BY <1>6, <1>7, Zenon DEF LastSent, Content
  <2> HIDE DEF note, m, b, S, out
  <2> QED BY <1>2, <1>3, <1>4, <1>5, <1>6, <2>1, MainMoves, Zenon DEF m
<1>8. CASE p # Receiver
  <2>1. Note(LastMain(p).at, LastMain(p).b) = Note(LastSent(p, "Kkrt"), b) /\ S = {}
    BY <1>1, <1>8, Zenon DEF LastSent
  <2> HIDE DEF note, m, b, S, out
  <2> QED BY <1>2, <1>3, <1>4, <1>5, <1>6, <2>1, MainMoves, Zenon DEF m
<1> QED BY <1>7, <1>8, Zenon

LEMMA MainPsiSend ==
  ASSUME Counted, TypeOK, MainInv, NEW p \in Party, KkrtPsiSend(p)
  PROVE  MainInv'
<1> DEFINE q == Other(p)
           b == idx[p]
           m == Msg(p, "main")
           note == Telling(p, "Kkrt", b, Bucket(p, b))
<1>0. /\ pc[p] = "Kkrt" /\ pc[p] \in LoopPlaces /\ Arrived(p, "main") /\ p # Receiver
      /\ q = Receiver
  BY DEF KkrtPsiSend, LoopPlaces, RecvSend, Exchange, Party, Other, Receiver
<1>1. /\ m.at = "Kkrt" /\ m.b = b /\ LastMain(p).at = "SetSize" /\ LastMain(p).b = b
      /\ res[p] = {} /\ b \in Nat /\ inp \in Inputs
  BY <1>0, LoopFacts, Zenon DEF LastSent, ResultHeld
<1>2. /\ Exchange(p, {"main"}, {"main"}, note) /\ pc'[p] = "Sync" /\ idx'[p] = b
      /\ res'[p] = {} /\ inp' = inp /\ cfg' = cfg /\ Still(q)
  BY <1>1, TypeParts, Parties, Zenon DEF KkrtPsiSend, RecvSend, Goto, PcTypes, Still, taskVars, diskVars
<1>3. /\ Then(p, LastMain(p), Note(note.at, note.b)) /\ Then(q, m, Note(Awaits("Sync"), b))
      /\ "Sync" \notin Owes /\ Note(note.at, note.b) = Note(LastSent(p, "Sync"), b)
      /\ Content(p, note)
  BY <1>0, <1>1, Zenon DEF Then, After, Awaits, Owes, LastSent, Telling, Content
<1>4. PlaceRight(p)' /\ ResultHeld(p)'
  <2>1. pc'[p] \in LoopPlaces
    BY <1>2, Zenon DEF LoopPlaces
  <2>2. PlaceRight(p)'
    BY <1>0, <1>2, <2>1, LoopStays, Zenon
  <2> QED BY <1>2, <2>2, Zenon DEF ResultHeld
<1>5. {"main"} \in SUBSET Ctx /\ note \in Message
  BY <1>1, Messages, Lists DEF Ctx, TypeOK, Place
<1> HIDE DEF note, m, b
<1> QED BY <1>2, <1>3, <1>4, <1>5, MainMoves, Zenon DEF m

LEMMA MainPsiRecv ==
  ASSUME Counted, TypeOK, MainInv, NEW p \in Party, KkrtPsiRecv(p)
  PROVE  MainInv'
<1> DEFINE q == Other(p)
           b == idx[p]
           m == Msg(p, "main")
           hits == Hits(p, Bucket(p, b), m.told)
           note == [at |-> "Sync", b |-> b, size |-> Cardinality(hits)]
           place == IF cfg.broadcast THEN "Broadcast" ELSE "Write"
<1>0. /\ pc[p] = "Kkrt" /\ pc[p] \in LoopPlaces /\ Arrived(p, "main") /\ p = Receiver
      /\ q # Receiver
  BY DEF KkrtPsiRecv, LoopPlaces, Party, Other, Receiver
<1>1. /\ m.at = "Kkrt" /\ m.b = b /\ m.told = Told(q, Bucket(q, b))
      /\ LastMain(p).at = "Kkrt" /\ LastMain(p).b = b /\ b \in Nat /\ inp \in Inputs
  BY <1>0, LoopFacts, Zenon DEF LastSent, Content
<1>2. hits = Expected(p, b)
  BY <1>1, HitsMatch, Zenon DEF Expected
<1>3. /\ Exchange(p, {"main"}, {"main"}, note) /\ pc'[p] = place /\ idx'[p] = b
      /\ res'[p] = Expected(p, b) /\ inp' = inp /\ cfg' = cfg /\ Still(q)
  BY <1>2, TypeParts, Parties, Zenon
  DEF KkrtPsiRecv, RecvSend, Goto, PcTypes, ResTypes, Still, taskVars, diskVars
<1>4. /\ Then(p, LastMain(p), Note("Sync", b)) /\ Then(q, m, Note(Awaits(place), b))
      /\ note.at = "Sync" /\ note.b = b
  BY <1>0, <1>1, Zenon DEF Then, After, Awaits
<1>5. Content(p, note)
  <2>1. note.size = Cardinality(Expected(p, b))
    BY <1>2, Zenon
  <2> HIDE DEF note
  <2> QED BY <1>4, <2>1, Zenon DEF Content
<1>6. IF place \in Owes THEN Then(p, note, Note(Awaits(place), b))
      ELSE Note(note.at, note.b) = Note(LastSent(p, place), b)
  <2> HIDE DEF note
  <2> QED BY <1>0, <1>4, Zenon DEF Then, After, Awaits, Owes, LastSent
<1>7. PlaceRight(p)' /\ ResultHeld(p)'
  <2>1. pc'[p] \in LoopPlaces /\ pc'[p] # "Sync"
    BY <1>3, Zenon DEF LoopPlaces
  <2>2. PlaceRight(p)'
    BY <1>0, <1>3, <2>1, LoopStays, Zenon
  <2>3. Expected(p, b)' = Expected(p, b)
    BY <1>3, Fixed, Zenon
  <2> QED BY <1>0, <1>3, <2>2, <2>3, Zenon DEF ResultHeld
<1>8. {"main"} \in SUBSET Ctx /\ note \in Message
  <2>1. Cardinality(hits) \in Nat
    BY <1>2, Zenon DEF Counted
  <2> HIDE DEF hits
  <2> QED BY <1>1, <2>1, Messages DEF Ctx, TypeOK, Place
<1> HIDE DEF note, m, b, place, hits
<1> QED BY <1>3, <1>4, <1>5, <1>6, <1>7, <1>8, MainMoves, Zenon DEF m

LEMMA MainSync ==
  ASSUME Counted, TypeOK, MainInv, NEW p \in Party, KkrtSync(p)
  PROVE  MainInv'
<1> DEFINE q == Other(p)
           b == idx[p]
           m == Msg(p, "main")
           note == [at |-> "Broadcast", b |-> b, size |-> 0]
           S == IF cfg.broadcast THEN {"main"} ELSE {}
           place == IF cfg.broadcast /\ m.size > 0 THEN "Broadcast" ELSE "Write"
<1>0. pc[p] = "Sync" /\ pc[p] \in LoopPlaces /\ Arrived(p, "main")
  BY Zenon DEF KkrtSync, LoopPlaces
<1>1. /\ m.at = "Sync" /\ m.b = b /\ m.size = Cardinality(Expected(q, b))
      /\ LastMain(p).at = "Kkrt" /\ LastMain(p).b = b /\ b \in Nat /\ inp \in Inputs
      /\ res[p] = {}
  BY <1>0, LoopFacts, Zenon DEF LastSent, Content, ResultHeld
<1>2. p # Receiver /\ q \in Party /\ q = Receiver /\ Other(q) = p
  BY <1>0, Parties, Zenon DEF MainInv, Working, PlaceRight, Party, Other, Receiver
<1>3. m.size > 0 <=> Expected(q, b) # {}
  <2>1. m.size \in Nat /\ (m.size = 0 <=> Expected(q, b) = {})
    BY <1>1, <1>2, Zenon DEF Counted
  <2> HIDE DEF m
  <2> QED BY <2>1
<1>4. Expected(q, b) = {} => Expected(p, b) = {}
  BY <1>2, BothHaveResults, Zenon
<1>5. /\ Exchange(p, {"main"}, S, note) /\ pc'[p] = place /\ idx'[p] = b
      /\ res'[p] = {} /\ inp' = inp /\ cfg' = cfg /\ Still(q)
  BY <1>1, TypeParts, Parties, Zenon DEF KkrtSync, Goto, PcTypes, Still, taskVars, diskVars
<1>6. /\ Then(q, m, Note(Awaits(place), b))
      /\ Then(p, LastMain(p), Note(IF cfg.broadcast THEN "Broadcast" ELSE "Handled", b))
  BY <1>1, <1>2, <1>3, Zenon DEF Then, After, Awaits
<1>7. note.at = "Broadcast" /\ note.b = b /\ Content(p, note)
  BY <1>2, Zenon DEF Content
<1>8. PlaceRight(p)' /\ ResultHeld(p)'
  <2>1. pc'[p] \in LoopPlaces
    BY <1>5, Zenon DEF LoopPlaces
  <2>2. PlaceRight(p)'
    BY <1>0, <1>2, <1>5, <2>1, LoopStays, Zenon
  <2>3. Expected(p, b)' = Expected(p, b)
    BY <1>5, Fixed, Zenon
  <2>4. ResultHeld(p)'
    <3> HIDE DEF m
    <3> QED BY <1>2, <1>3, <1>4, <1>5, <2>3, Zenon DEF ResultHeld
  <2> QED BY <2>2, <2>4, Zenon
<1>9. {"main"} \in SUBSET Ctx /\ S \in SUBSET Ctx /\ note \in Message
  BY <1>1, Messages DEF Ctx, TypeOK, Place
<1>10. CASE cfg.broadcast
  <2>1. IF place \in Owes THEN Then(p, note, Note(Awaits(place), b))
        ELSE Note(note.at, note.b) = Note(LastSent(p, place), b)
    <3> HIDE DEF note
    <3> QED BY <1>2, <1>7, Zenon DEF Then, After, Awaits, Owes, LastSent
  <2>2. "main" \in S
    BY <1>10, Zenon
  <2> HIDE DEF note, m, b, place, S
  <2> QED BY <1>5, <1>6, <1>7, <1>8, <1>9, <1>10, <2>1, <2>2, MainMoves, SMTT(30) DEF m
<1>11. CASE ~cfg.broadcast
  <2>1. place \in Owes /\ Then(p, LastMain(p), Note(Awaits(place), b)) /\ "main" \notin S
    BY <1>6, <1>11, Zenon DEF Awaits, Owes
  <2> HIDE DEF note, m, b, place, S
  <2> QED BY <1>5, <1>6, <1>7, <1>8, <1>9, <2>1, MainMoves, Zenon DEF m
<1> QED BY <1>10, <1>11, Zenon

\* What a party at a later place has received before.
LEMMA ReadBefore ==
  ASSUME Counted, TypeOK, MainInv, NEW p \in Party, Working(p), pc[p] # "Init"
  PROVE  /\ got[p]["main"] # 0 /\ Other(p) \in Party
         /\ Then(Other(p), link[Other(p)]["main"][got[p]["main"]], Note(Awaits(pc[p]), idx[p]))
BY Parties, Zenon DEF MainInv, ReadsInStep

LEMMA MainBroadcast ==
  ASSUME Counted, TypeOK, MainInv, NEW p \in Party, BroadcastResult(p)
  PROVE  MainInv'
<1> DEFINE q == Other(p)
           b == idx[p]
           m == Msg(p, "main")
<1>0. pc[p] = "Broadcast" /\ pc[p] \in LoopPlaces /\ Arrived(p, "main") /\ Working(p)
  BY Zenon DEF BroadcastResult, LoopPlaces, Working
<1>1. m.at = "Broadcast" /\ m.b = b /\ LastMain(p).b = b /\ b \in Nat /\ inp \in Inputs
      /\ LastMain(p).at = LastSent(p, "Broadcast") /\ Content(q, m) /\ ResultHeld(p)
  BY <1>0, LoopFacts, Zenon
<1>2. cfg.broadcast
  <2> DEFINE x == link[q]["main"][got[p]["main"]]
  <2>1. After(q, x) = Note("Broadcast", b)
    BY <1>0, ReadBefore, Zenon DEF Then, Awaits
  <2>2. After(q, x).at = "Broadcast" => cfg.broadcast
    BY Zenon DEF After, Note, LoopNote
  <2> QED BY <2>1, <2>2 DEF Note
<1>3. pc'[p] = "Write" /\ idx'[p] = b /\ inp' = inp /\ cfg' = cfg /\ Still(q)
  BY TypeParts, Parties, Zenon DEF BroadcastResult, Goto, PcTypes, ResTypes, Still, taskVars, diskVars
<1>4. Then(q, m, Note(Awaits("Write"), b)) /\ "Write" \in Owes
  BY <1>1, Zenon DEF Then, After, Awaits, Owes
<1>5. PlaceRight(p)'
  <2>1. pc'[p] \in LoopPlaces /\ pc'[p] # "Sync"
    BY <1>3, Zenon DEF LoopPlaces
  <2> QED BY <1>0, <1>3, <2>1, LoopStays, Zenon
<1>6. Expected(p, b)' = Expected(p, b) /\ {"main"} \in SUBSET Ctx /\ {} \in SUBSET Ctx
  BY <1>3, Fixed, Zenon DEF Ctx
<1>7. CASE p = Receiver
  <2> DEFINE H == {h.idx : h \in res[p]}
             note == Telling(p, "Broadcast", b, H)
             S == IF res[p] # {} THEN {"main"} ELSE {}
  <2>1. res[p] = Expected(p, b) /\ LastMain(p).at = "Sync"
    BY <1>0, <1>1, <1>7, Zenon DEF ResultHeld, LastSent
  <2>2. Exchange(p, {"main"}, S, note) /\ res' = res
    BY <1>7, Zenon DEF BroadcastResult
  <2>3. ResultHeld(p)'
    BY <1>3, <1>6, <1>7, <2>1, <2>2, Zenon DEF ResultHeld
  <2>4. note \in Message
    <3>1. H \in SUBSET Items(p)
      BY <1>1, <2>1, ExpectedItems, Lists, Zenon
    <3> QED BY <1>1, <3>1, Messages DEF TypeOK, Place
  <2>5. note.at = "Broadcast" /\ note.b = b /\ note.told = Told(p, {h.idx : h \in Expected(p, b)})
    BY <2>1, Zenon DEF Telling
  <2> HIDE DEF note
  <2>6. Content(p, note) /\ Then(p, note, Note(Awaits("Write"), b))
    BY <2>5, Zenon DEF Content, Then, After, Awaits
  <2>7. CASE res[p] # {}
    <3>1. Then(p, LastMain(p), Note(note.at, note.b)) /\ S = {"main"}
      BY <1>1, <1>2, <2>1, <2>5, <2>7, Zenon DEF Then, After
    <3> HIDE DEF S, m, b
    <3> QED BY <1>3, <1>4, <1>5, <1>6, <2>2, <2>3, <2>4, <2>6, <3>1, MainMoves, Zenon DEF m
  <2>8. CASE res[p] = {}
    <3>1. Then(p, LastMain(p), Note(Awaits("Write"), b)) /\ S = {}
      BY <1>1, <2>1, <2>8, Zenon DEF Then, After, Awaits
    <3> HIDE DEF S, m, b
    <3> QED BY <1>3, <1>4, <1>5, <1>6, <2>2, <2>3, <2>4, <3>1, MainMoves, Zenon DEF m
  <2> QED BY <2>7, <2>8, Zenon
<1>8. CASE p # Receiver
  <2>1. q = Receiver /\ q \in Party
    BY <1>8 DEF Party, Other, Receiver
  <2>2. m.told = Told(q, {h.idx : h \in Expected(q, b)}) /\ LastMain(p).at = "Broadcast"
    BY <1>1, <1>8, <2>1, Zenon DEF Content, LastSent
  <2>3. Exchange(p, {"main"}, {}, <<>>) /\ res'[p] = SenderHits(p, m.told)
    BY <1>8, TypeParts, Zenon DEF BroadcastResult, RecvOn, ResTypes
  <2>4. res'[p] = Expected(p, b)
    BY <1>1, <2>2, <2>3, SenderHitsRight, Zenon
  <2>5. ResultHeld(p)'
    BY <1>2, <1>3, <1>6, <1>8, <2>4, Zenon DEF ResultHeld
  <2>6. Then(p, LastMain(p), Note(Awaits("Write"), b))
    BY <1>1, <2>2, Zenon DEF Then, After, Awaits
  <2> HIDE DEF m, b
  <2> QED BY <1>3, <1>4, <1>5, <1>6, <2>3, <2>5, <2>6, MainMoves, Zenon DEF m
<1> QED BY <1>7, <1>8, Zenon

LEMMA MainWrite ==
  ASSUME Counted, TypeOK, MainInv, NEW p \in Party, KkrtWrite(p)
  PROVE  MainInv'
<1> DEFINE q == Other(p)
           b == idx[p]
           g == got[p]["main"]
           note == Note("Handled", b)
<1>0. pc[p] = "Write" /\ pc[p] \in LoopPlaces /\ Working(p) /\ pc[p] \in Owes /\ b \in Nat
  BY Zenon DEF KkrtWrite, LoopPlaces, Working, Owes, TypeOK, ControlTypes
<1>1. SendsInStep(p) /\ ResultHeld(p)
  BY <1>0, Zenon DEF MainInv
<1>2. Then(p, LastMain(p), note)
  BY <1>0, <1>1, Zenon DEF SendsInStep, Awaits
<1>3. Then(q, link[q]["main"][g], Note(Awaits("Handled"), b)) /\ g # 0
  BY <1>0, ReadBefore, Zenon DEF Awaits
<1>4. /\ Exchange(p, {}, {"main"}, note) /\ pc'[p] = "Handled" /\ idx'[p] = b
      /\ res'[p] = res[p] /\ inp' = inp /\ cfg' = cfg /\ Still(q)
  BY TypeParts, Parties, Zenon DEF KkrtWrite, SendOn, Goto, PcTypes, Still, taskVars
<1>5. PlaceRight(p)' /\ ResultHeld(p)'
  <2>1. pc'[p] \in LoopPlaces /\ pc'[p] # "Sync"
    BY <1>4, Zenon DEF LoopPlaces
  <2>2. PlaceRight(p)'
    BY <1>0, <1>4, <2>1, LoopStays, Zenon
  <2>3. Expected(p, b)' = Expected(p, b)
    BY <1>4, Fixed, Zenon
  <2> QED BY <1>0, <1>1, <1>4, <2>2, <2>3, Zenon DEF ResultHeld
<1>6. /\ "Handled" \notin Owes /\ Note(note.at, note.b) = Note(LastSent(p, "Handled"), b)
      /\ Content(p, note) /\ Note(note.at, note.b) = note
  BY Zenon DEF Owes, LastSent, Content, Note
<1>7. {"main"} \in SUBSET Ctx /\ {} \in SUBSET Ctx /\ note \in Message
  BY <1>0, Messages DEF Ctx, TypeOK, Place
<1> HIDE DEF note, b, g
<1> QED BY <1>2, <1>3, <1>4, <1>5, <1>6, <1>7, MainMoves, Zenon DEF g

LEMMA MainNext ==
  ASSUME Counted, TypeOK, MainInv, NEW p \in Party, KkrtNext(p)
  PROVE  MainInv'
<1> DEFINE q == Other(p)
           b == idx[p]
           m == Msg(p, "main")
<1>0. pc[p] = "Handled" /\ pc[p] \in LoopPlaces /\ Arrived(p, "main")
  BY Zenon DEF KkrtNext, LoopPlaces, EnterLoop, Exchange
<1>1. /\ m.at = "Handled" /\ m.b = b /\ LastMain(p).at = "Handled" /\ LastMain(p).b = b
      /\ cfg.protocol = "KKRT" /\ b \in Nat
  BY <1>0, LoopFacts, Zenon DEF LastSent
<1>2. res'[p] = {} /\ inp' = inp /\ cfg' = cfg /\ Still(q) /\ EnterLoop(p, b + 1)
  BY TypeParts, Parties
  DEF KkrtNext, EnterLoop, Goto, PcTypes, IdxTypes, ResTypes, CkptTypes, UpdateParsedBucketCount,
      Still, taskVars
<1>3. Then(p, LastMain(p), LoopNote(b + 1)) /\ Then(q, m, LoopNote(b + 1)) /\ b + 1 \in Nat
  BY <1>1 DEF Then, After
<1> HIDE DEF m, b
<1> QED BY <1>1, <1>2, <1>3, MainEnters, Zenon DEF m

-----------------------------------------------------------------------------
(* The end of the main thread, the threads of AsyncRun, and failures.        *)

LEMMA NoExchange ==
  ASSUME LinkTypes, NEW p \in Party, UNCHANGED linkVars
  PROVE  Exchange(p, {}, {}, <<>>)
<1>1. link' = link /\ got' = got
  BY Zenon DEF linkVars
<1>2. link = [link EXCEPT ![p] = [c \in Ctx |-> link[p][c]]]
  BY Zenon DEF LinkTypes
<1>3. got = [got EXCEPT ![p] = [c \in Ctx |-> got[p][c]]]
  BY Zenon DEF LinkTypes
<1> QED BY <1>1, <1>2, <1>3, Zenon DEF Exchange

\* A party tells its peer that it has come to a barrier.
LEMMA MainTells ==
  ASSUME Counted, TypeOK, MainInv, NEW p \in Party, Join(p) \/ FinalizeWrite(p)
  PROVE  MainInv'
<1> DEFINE q == Other(p)
           b == idx[p]
           g == got[p]["main"]
           place == Awaits(pc[p])
           note == Note(place, b)
<1>0. /\ pc[p] \in Owes /\ Working(p) /\ b \in Nat /\ pc[p] # "Init" /\ pc[p] # "Write"
      /\ place \in {"OnlineSync", "FinalizeSync"}
  BY Zenon DEF Join, FinalizeWrite, Working, Owes, Awaits, TypeOK, ControlTypes
<1>1. Then(p, LastMain(p), note) /\ ResultHeld(p)
  BY <1>0, Zenon DEF MainInv, SendsInStep
<1>2. Then(q, link[q]["main"][g], Note(Awaits(place), b)) /\ g # 0
  <2>1. Awaits(place) = place
    BY <1>0, Zenon DEF Awaits
  <2> QED BY <1>0, <2>1, ReadBefore, Zenon
<1>3. /\ Exchange(p, {}, {"main"}, note) /\ pc'[p] = place /\ idx'[p] = b
      /\ res'[p] = {} /\ inp' = inp /\ cfg' = cfg /\ Still(q)
  <2>1. Awaits("AsyncRun") = "OnlineSync" /\ Awaits("Finalize") = "FinalizeSync"
    BY Zenon DEF Awaits
  <2>2. res[p] = {}
    BY <1>0, <1>1, Zenon DEF ResultHeld, Owes
  <2> QED BY <2>1, <2>2, TypeParts, Parties, Zenon
      DEF Join, FinalizeWrite, SendOn, Goto, PcTypes, Still, taskVars, diskVars
<1>4. PlaceRight(p)' /\ ResultHeld(p)'
  BY <1>0, <1>3, Zenon DEF PlaceRight, ResultHeld, LoopPlaces
<1>5. /\ place \notin Owes /\ Note(note.at, note.b) = Note(LastSent(p, place), b)
      /\ Content(p, note) /\ Note(note.at, note.b) = note
  <2>1. note.at = place /\ note.b = b
    BY Zenon DEF Note
  <2> HIDE DEF note, place
  <2> QED BY <1>0, <2>1, Zenon DEF Owes, LastSent, Content, note
<1>6. {"main"} \in SUBSET Ctx /\ {} \in SUBSET Ctx /\ note \in Message
  <2>1. place \in Place
    BY <1>0, Zenon DEF Place
  <2> QED BY <1>0, <2>1, Messages DEF Ctx, TypeOK
<1> HIDE DEF note, b, g, place
<1> QED BY <1>1, <1>2, <1>3, <1>4, <1>5, <1>6, MainMoves, Zenon DEF g

LEMMA MainJoined ==
  ASSUME Counted, TypeOK, MainInv, NEW p \in Party, OnlineSync(p)
  PROVE  MainInv'
<1> DEFINE q == Other(p)
           b == idx[p]
           m == Msg(p, "main")
<1>0. /\ pc[p] = "OnlineSync" /\ Working(p) /\ Arrived(p, "main")
      /\ Awaits(pc[p]) = "OnlineSync" /\ pc[p] \notin Owes
  BY Zenon DEF OnlineSync, Working, RecvOn, Exchange, Awaits, Owes
<1>1. m.at = "OnlineSync" /\ m.b = b
  BY <1>0, Received, Zenon
<1>2. LastMain(p).at = "OnlineSync" /\ LastMain(p).b = b /\ res[p] = {}
  BY <1>0, NoteParts DEF MainInv, SendsInStep, LastSent, ResultHeld
<1>3. /\ Exchange(p, {"main"}, {}, <<>>) /\ pc'[p] = "PostProcess" /\ idx'[p] = b
      /\ res'[p] = {} /\ inp' = inp /\ cfg' = cfg /\ Still(q)
  BY <1>2, TypeParts, Parties, Zenon DEF OnlineSync, RecvOn, Goto, PcTypes, Still, taskVars, diskVars
<1>4. PlaceRight(p)' /\ ResultHeld(p)'
  BY <1>3, Zenon DEF PlaceRight, ResultHeld, LoopPlaces
<1>5. /\ \A r, x : x \in {m, LastMain(p)} => Then(r, x, Note(Awaits("PostProcess"), b))
      /\ "PostProcess" \in Owes /\ {"main"} \in SUBSET Ctx /\ {} \in SUBSET Ctx
  BY <1>1, <1>2, Zenon DEF Then, After, Awaits, Owes, Ctx
<1> HIDE DEF m, b
<1> QED BY <1>3, <1>4, <1>5, MainMoves, Zenon DEF m

LEMMA MainPost ==
  ASSUME Counted, TypeOK, MainInv, NEW p \in Party, PostProcess(p) \/ Close(p)
  PROVE  MainInv'
<1> DEFINE q == Other(p)
           b == idx[p]
           g == got[p]["main"]
<1>0. /\ pc[p] \in {"PostProcess", "Close"} /\ Working(p) /\ pc[p] \in Owes
      /\ Awaits(pc[p]) = Awaits("Finalize")
  BY Zenon DEF PostProcess, Close, Working, Awaits, Owes
<1>1. Then(q, link[q]["main"][g], Note(Awaits("Finalize"), b)) /\ g # 0
  BY <1>0, ReadBefore, Zenon
<1>2. Then(p, LastMain(p), Note(Awaits("Finalize"), b)) /\ res[p] = {} /\ "Finalize" \in Owes
  BY <1>0, Zenon DEF MainInv, SendsInStep, ResultHeld, Owes
<1>3. Exchange(p, {}, {}, <<>>)
  BY NoExchange, Zenon DEF PostProcess, Close, TypeOK
<1>4. /\ pc'[p] = "Finalize" /\ idx'[p] = b
      /\ res'[p] = {} /\ inp' = inp /\ cfg' = cfg /\ Still(q)
  BY <1>2, TypeParts, Parties, Zenon
  DEF PostProcess, Close, Goto, PcTypes, CkptTypes, MarkStage, Still, taskVars
<1>5. PlaceRight(p)' /\ ResultHeld(p)'
  BY <1>4, Zenon DEF PlaceRight, ResultHeld, LoopPlaces
<1>6. {} \in SUBSET Ctx
  BY Zenon
<1> HIDE DEF b, g
<1> QED BY <1>1, <1>2, <1>3, <1>4, <1>5, <1>6, MainMoves, Zenon DEF g

LEMMA MainStops ==
  ASSUME Counted, TypeOK, MainInv, NEW p \in Party, Ends(p) \/ FinalizeSync(p)
  PROVE  MainInv'
<1> DEFINE T == IF FinalizeSync(p) THEN {"main"} ELSE {}
<1>1. Exchange(p, T, {}, <<>>)
  BY NoExchange, EndsFrame, Zenon DEF FinalizeSync, RecvOn, TypeOK
<1>2. pc'[p] \in {"done", "down", "Spin"} /\ inp' = inp /\ cfg' = cfg /\ Still(Other(p))
  BY EndsFrame, TypeParts, Parties DEF FinalizeSync, Goto, PcTypes, Still, taskVars, diskVars
<1>3. T \in SUBSET Ctx /\ {} \in SUBSET Ctx
  BY Zenon DEF Ctx
<1> HIDE DEF T
<1> QED BY <1>1, <1>2, <1>3, MainMoves, Zenon

LEMMA MainQuiet ==
  ASSUME Counted, TypeOK, MainInv, inp' = inp, cfg' = cfg, \A r \in Party : Waits(r)
  PROVE  MainInv'
<1>1. MainGrows
  BY DEF Waits, MainGrows, TypeOK, LinkTypes, Ctx
<1>2. \A r \in Party : Script(r) /\ Local(r)
  BY Zenon DEF MainInv, Local
<1>3. \A r \in Party : Script(r)'
  BY <1>1, <1>2, ScriptKept, Zenon DEF Waits
<1>4. \A r \in Party : Local(r)'
  BY <1>1, <1>2, LocalKept, Zenon
<1> QED BY <1>3, <1>4, Zenon DEF MainInv, Local

LEMMA OffMain ==
  ASSUME LinkTypes, NEW p \in Party, NEW T, NEW S, NEW m, Exchange(p, T, S, m),
         "main" \notin T, "main" \notin S
  PROVE  \A r \in Party : link'[r]["main"] = link[r]["main"] /\ got'[r]["main"] = got[r]["main"]
BY Zenon DEF Exchange, LinkTypes, Ctx

\* A step of a thread of AsyncRun sends and receives on another context.
LEMMA PipeLinks ==
  ASSUME LinkTypes, NEW p \in Party, Prep(p) \/ RunTh(p) \/ Inter(p)
  PROVE  \A r \in Party : link'[r]["main"] = link[r]["main"] /\ got'[r]["main"] = got[r]["main"]
<1> USE OffMain DEF linkVars, SendOn, RecvOn
<1>1. CASE Prep(p)
  <2>1. CASE PrepLoad(p)
    BY <2>1, Zenon DEF PrepLoad
  <2>2. CASE PrepSize(p)
    BY <2>2, Zenon DEF PrepSize
  <2>3. CASE PrepVole(p)
    BY <2>3, Zenon DEF PrepVole
  <2>4. CASE PrepPush(p)
    BY <2>4, Zenon DEF PrepPush
  <2> QED BY <1>1, <2>1, <2>2, <2>3, <2>4, Zenon DEF Prep
<1>2. CASE RunTh(p)
  <2>1. CASE RunPop(p)
    BY <2>1, Zenon DEF RunPop
  <2>2. CASE RunOprf(p)
    BY <2>2, Zenon DEF RunOprf
  <2>3. CASE RunPush(p)
    BY <2>3, Zenon DEF RunPush
  <2> QED BY <1>2, <2>1, <2>2, <2>3, Zenon DEF RunTh
<1>3. CASE Inter(p)
  <2>1. CASE InterPop(p)
    BY <2>1, Zenon DEF InterPop
  <2>2. CASE InterRecv(p)
    BY <2>2, Zenon DEF InterRecv
  <2>3. CASE InterPost(p)
    BY <2>3, Zenon DEF InterPost
  <2>4. CASE InterCount(p)
    BY <2>4, Zenon DEF InterCount
  <2> QED BY <1>3, <2>1, <2>2, <2>3, <2>4, Zenon DEF Inter
<1> QED BY <1>1, <1>2, <1>3, Zenon

\* The threads of AsyncRun run while the main thread waits for them.
LEMMA PipeSteps ==
  ASSUME NEW p \in Party, Prep(p) \/ RunTh(p) \/ Inter(p)
  PROVE  /\ pc[p] = "AsyncRun" /\ PipeFrame(p)
         /\ ckpt' = ckpt \/ \E c : UpdateParsedBucketCount(p, c)
BY Zenon DEF Prep, PrepLoad, PrepSize, PrepVole, PrepPush, RunTh, RunPop, RunOprf, RunPush, Inter, InterPop,
       InterRecv, InterPost, InterCount, InPipe, diskVars

LEMMA MainPipe ==
  ASSUME Counted, TypeOK, MainInv, NEW p \in Party,
         Prep(p) \/ RunTh(p) \/ Inter(p) \/ \E t \in Thread : ThreadThrows(p, t)
  PROVE  MainInv'
<1>1. CASE Prep(p) \/ RunTh(p) \/ Inter(p)
  <2>1. inp' = inp /\ cfg' = cfg /\ pc' = pc /\ idx' = idx /\ res' = res /\ pc[p] = "AsyncRun"
    BY <1>1, PipeSteps, Zenon DEF PipeFrame, taskVars
  <2>2. \A r \in Party : link'[r]["main"] = link[r]["main"] /\ got'[r]["main"] = got[r]["main"]
    BY <1>1, PipeLinks, Zenon DEF TypeOK
  <2>3. \A r \in Party : r # p => ckpt'[r] = ckpt[r]
    BY <1>1, PipeSteps, TypeParts, Zenon DEF UpdateParsedBucketCount, CkptTypes
  <2>4. \A r \in Party : Waits(r)
    BY <2>1, <2>2, <2>3, Zenon DEF Waits
  <2> QED BY <2>1, <2>4, MainQuiet, Zenon
<1>2. CASE \E t \in Thread : ThreadThrows(p, t)
  BY <1>2, MainQuiet, Zenon DEF ThreadThrows, Waits, taskVars, diskVars, linkVars
<1> QED BY <1>1, <1>2, Zenon

LEMMA MainFirst ==
  ASSUME Init
  PROVE  MainInv
<1> SUFFICES ASSUME NEW p \in Party PROVE Script(p) /\ Local(p)
  BY Zenon DEF MainInv, Local
<1>1. /\ link[p]["main"] = <<Hello(p)>> /\ got[p]["main"] = 0 /\ pc[p] = "Init" /\ idx[p] = 0
      /\ res[p] = {}
  BY Zenon DEF Init, Ctx
<1>2. Hello(p).at = "Init" /\ Hello(p).b = 0
  BY Zenon DEF Hello
<1> DEFINE h == Hello(p)
<1>3. Content(p, h) /\ Early(h, 1)
  BY <1>2, Zenon DEF Content, Early
<1>4. Len(link[p]["main"]) = 1 /\ link[p]["main"][1] = h /\ LastMain(p) = h
  BY <1>1 DEF LastMain
<1> HIDE DEF h
<1>5. Script(p)
  BY <1>2, <1>3, <1>4 DEF Script, h
<1>6. ReadsInStep(p) /\ SendsInStep(p) /\ PlaceRight(p) /\ ResultHeld(p)
  BY <1>1, <1>2, <1>4, Zenon DEF ReadsInStep, SendsInStep, PlaceRight, ResultHeld, Owes, LastSent,
                          LoopPlaces, h
<1> QED BY <1>5, <1>6, Zenon DEF Local

LEMMA MainRestart ==
  ASSUME Restart
  PROVE  MainInv'
<1> SUFFICES ASSUME NEW p \in Party PROVE Script(p)' /\ Local(p)'
  BY Zenon DEF MainInv, Local
<1>1. /\ link'[p]["main"] = <<Hello(p)>> /\ got'[p]["main"] = 0 /\ pc'[p] = "Init"
      /\ idx'[p] = 0 /\ res'[p] = {} /\ inp' = inp
  BY Zenon DEF Restart, Start, Ctx
<1>2. Hello(p).at = "Init" /\ Hello(p).b = 0 /\ Hello(p)' = Hello(p)
  BY <1>1, Zenon DEF Hello, Items, Dup, Key
<1> DEFINE h == Hello(p)
<1>3. Content(p, h)' /\ Early(h, 1)' /\ h' = h
  BY <1>2, Zenon DEF Content, Early
<1>4. Len(link'[p]["main"]) = 1 /\ link'[p]["main"][1] = h /\ LastMain(p)' = h
  BY <1>1 DEF LastMain
<1> HIDE DEF h
<1>5. Script(p)'
  BY <1>2, <1>3, <1>4 DEF Script, h
<1>6. ReadsInStep(p)' /\ SendsInStep(p)' /\ PlaceRight(p)' /\ ResultHeld(p)'
  BY <1>1, <1>2, <1>4, Zenon DEF ReadsInStep, SendsInStep, PlaceRight, ResultHeld, Owes, LastSent,
                          LoopPlaces, h
<1> QED BY <1>5, <1>6, Zenon DEF Local

LEMMA MainInvStep ==
  ASSUME Counted, TypeOK, MainInv, [Next]_vars
  PROVE  MainInv'
<1>1. CASE Terminated \/ UNCHANGED vars
  BY <1>1, MainQuiet, Zenon DEF Terminated, vars, Waits
<1>2. CASE Restart
  BY <1>2, MainRestart, Zenon
<1>3. ASSUME NEW p \in Party, MainStep(p) PROVE MainInv'
  <2>1. CASE Kkrt(p)
    BY <2>1, MainSize, MainSetSize, MainPsiSend, MainPsiRecv, MainSync, MainBroadcast, MainWrite,
       MainNext, Zenon DEF Kkrt
  <2>2. CASE ~Kkrt(p)
    BY <1>3, <2>2, MainInit, MainPre, MainOnline, MainGather, MainTells, MainJoined, MainPost, MainStops, Zenon
    DEF MainStep, Ends
  <2> QED BY <2>1, <2>2, Zenon
<1>4. ASSUME NEW p \in Party, Prep(p) \/ RunTh(p) \/ Inter(p) PROVE MainInv'
  BY <1>4, MainPipe, Zenon
<1>5. ASSUME NEW p \in Party, Crash(p) \/ Fails(p) \/ Kill(p) PROVE MainInv'
  BY <1>5, MainStops, MainPipe, Zenon DEF Fails, Ends
<1> QED BY <1>1, <1>2, <1>3, <1>4, <1>5, Zenon DEF Next

-----------------------------------------------------------------------------
(* The index files.                                                          *)

CountsBacked(p) ==
  GetsResult(p) => \A b \in 0 .. BucketNum - 1 :
    b < ckpt[p].cnt \/ b < idx[p] \/ ckpt[p].stage >= ONLINE_END => Backed(p, b)

Unsaved(p) == ~cfg.recovery => ckpt[p].stage = UNSPECIFIED /\ ckpt[p].cnt = 0

FileOf(p) ==
  CountsBacked(p) /\ LinesSound(p) /\ (GetsResult(p) => WrittenSoFar(p)) /\ Unsaved(p)

LEMMA FileOfAll ==
  /\ FileInv <=> \A p \in Party : FileOf(p)
  /\ (\A p \in Party : FileOf(p)') => FileInv'
BY Zenon DEF FileInv, FileOf, CountBacked, CountsBacked, Unsaved, Backed

\* Lines are never taken out of an index file.
LEMMA BackedKept ==
  ASSUME inp' = inp, cfg' = cfg, NEW p, lines[p] \subseteq lines'[p], NEW b, Backed(p, b)
  PROVE  Backed(p, b)'
<1>1. Expected(p, b)' = Expected(p, b)
  BY Fixed, Zenon
<1>2. Written(p) \subseteq Written(p)'
  BY DEF Written
<1> QED BY <1>1, <1>2, Zenon DEF Backed

LEMMA MatchesFixed ==
  ASSUME inp' = inp, cfg' = cfg
  PROVE  \A p : Matches(p, Items(p), Items(Other(p)))' = Matches(p, Items(p), Items(Other(p)))
BY Zenon DEF Matches, Items, Key, Dup

LEMMA SoundKept ==
  ASSUME inp' = inp, cfg' = cfg, NEW p, lines'[p] = lines[p], LinesSound(p)
  PROVE  LinesSound(p)'
<1>1. Written(p)' = Written(p)
  BY Zenon DEF Written
<1> QED BY <1>1, MatchesFixed, Fixed, Zenon DEF LinesSound

\* What a party's index file depends on.
Untouched(p) ==
  /\ lines'[p] = lines[p] /\ ckpt'[p] = ckpt[p] /\ idx'[p] = idx[p]
  /\ pc'[p] = pc[p] \/ pc'[p] \in {"down", "Spin"}
  /\ pc[p] = "AsyncRun" => th'[p]["inter"] = th[p]["inter"] \/ th'[p]["inter"].at = "threw"

LEMMA FileKept ==
  ASSUME inp' = inp, cfg' = cfg, NEW p, FileOf(p), Untouched(p)
  PROVE  FileOf(p)'
<1>1. BucketNum' = BucketNum /\ (GetsResult(p)' <=> GetsResult(p))
  BY Fixed, Zenon
<1>2. \A b : Backed(p, b) => Backed(p, b)'
  BY BackedKept DEF Untouched
<1>3. LinesSound(p)'
  BY SoundKept, Zenon DEF FileOf, Untouched
<1>4. CountsBacked(p)' /\ Unsaved(p)'
  BY <1>1, <1>2, Zenon DEF FileOf, CountsBacked, Unsaved, Untouched
<1>5. Repeated(p)' <=> Repeated(p)
  BY Zenon DEF Repeated, Untouched
<1>6. ASSUME GetsResult(p) PROVE WrittenSoFar(p)'
  <2>1. WrittenSoFar(p)
    BY <1>6, Zenon DEF FileOf
  <2>2. CASE pc'[p] \in {"down", "Spin"}
    BY <2>2 DEF WrittenSoFar
  <2>3. CASE pc'[p] = pc[p]
    <3>1. ASSUME pc[p] = "AsyncRun", th'[p]["inter"].at # "threw"
          PROVE  th'[p]["inter"] = th[p]["inter"]
      BY <3>1, Zenon DEF Untouched
    <3> QED BY <1>1, <1>2, <1>5, <2>1, <2>3, <3>1, Zenon
            DEF WrittenSoFar, UpTo, Runner, Untouched
  <2> QED BY <2>2, <2>3, Zenon DEF Untouched
<1> QED BY <1>1, <1>3, <1>4, <1>6, Zenon DEF FileOf

\* Entering the loop at b claims the buckets below b.
LEMMA FileEnters ==
  ASSUME Counted, TypeOK, inp' = inp, cfg' = cfg, NEW p \in Party, NEW b \in Nat, EnterLoop(p, b),
         \A c \in 0 .. BucketNum - 1 : c < b => Backed(p, c)'
  PROVE  idx'[p] = b /\ WrittenSoFar(p)'
<1>0. BucketNum \in Nat /\ BucketNum' = BucketNum /\ cfg.protocol \in {"KKRT", "RR22"}
  BY Lists, Fixed, Constants DEF TypeOK
<1>1. idx'[p] = b /\ pc'[p] = LoopPlace(b) /\ th'[p] = ThreadsAt(b)
  BY TypeParts DEF EnterLoop, Goto, PcTypes, IdxTypes, ThTypes
<1>2. CASE cfg.protocol = "RR22"
  <2>1. pc'[p] = "AsyncRun"
    BY <1>1, <1>2 DEF LoopPlace
  <2>2. th'[p]["inter"].at \in {"done", "pop"} /\ th'[p]["inter"].r.b = b
    BY <1>1, <1>2, Names DEF ThreadsAt, NoRunner
  <2>3. UpTo(p, "inter", {"pop", "recv", "post", "done"})' = b
    BY <2>2 DEF UpTo, Runner
  <2> QED BY <1>0, <1>1, <2>1, <2>3 DEF WrittenSoFar
<1>3. CASE cfg.protocol = "KKRT" /\ b < BucketNum
  <2>1. pc'[p] = "Size"
    BY <1>1, <1>3 DEF LoopPlace
  <2> QED BY <1>1, <2>1 DEF WrittenSoFar
<1>4. CASE cfg.protocol = "KKRT" /\ ~(b < BucketNum)
  <2>1. pc'[p] = "PostProcess"
    BY <1>1, <1>4 DEF LoopPlace
  <2>2. \A c \in 0 .. BucketNum' - 1 : Backed(p, c)'
    BY <1>0, <1>4
  <2> QED BY <1>1, <2>1, <2>2 DEF WrittenSoFar
<1> QED BY <1>0, <1>2, <1>3, <1>4, Zenon

\* The stages before ONLINE_END claim nothing about the index file.
LEMMA Marked ==
  ASSUME TypeOK, cfg' = cfg, NEW p \in Party, NEW s \in {INIT_END, ONLINE_START}, MarkStage(p, s)
  PROVE  /\ ckpt'[p].cnt = ckpt[p].cnt
         /\ ckpt'[p].stage >= ONLINE_END => ckpt[p].stage >= ONLINE_END
         /\ Unsaved(p) => Unsaved(p)'
<1>1. ckpt[p].stage \in Nat /\ ckpt[p].cnt \in Nat /\ s \in Nat /\ s < ONLINE_END /\ ONLINE_END \in Nat
  BY TypeParts DEF CkptTypes, INIT_END, ONLINE_START, ONLINE_END
<1>2. /\ ckpt'[p].cnt = ckpt[p].cnt
      /\ ckpt'[p].stage = IF cfg.recovery THEN Larger(ckpt[p].stage, s) ELSE ckpt[p].stage
  BY TypeParts DEF CkptTypes, MarkStage
<1>3. ckpt'[p].stage >= ONLINE_END => ckpt[p].stage >= ONLINE_END
  BY <1>1, <1>2 DEF Larger
<1>4. Unsaved(p) => Unsaved(p)'
  BY <1>2, Zenon DEF Unsaved
<1> QED BY <1>2, <1>3, <1>4

LEMMA Saved ==
  ASSUME TypeOK, cfg' = cfg, NEW p \in Party, NEW c \in Nat, UpdateParsedBucketCount(p, c)
  PROVE  /\ ckpt'[p].cnt = c \/ ckpt'[p].cnt = ckpt[p].cnt
         /\ ckpt'[p].stage >= ONLINE_END => ckpt[p].stage >= ONLINE_END
         /\ Unsaved(p) => Unsaved(p)'
<1>1. ckpt'[p] = IF cfg.recovery THEN [stage |-> ONLINE_START, cnt |-> c] ELSE ckpt[p]
  BY TypeParts DEF CkptTypes, UpdateParsedBucketCount
<1>2. CASE cfg.recovery
  <2>1. ckpt'[p].stage = 3 /\ ckpt'[p].cnt = c
    BY <1>1, <1>2 DEF ONLINE_START
  <2> QED BY <1>2, <2>1 DEF ONLINE_END, Unsaved
<1>3. CASE ~cfg.recovery
  BY <1>1, <1>3 DEF Unsaved
<1> QED BY <1>2, <1>3

\* What a bucket is to yield is part of the result.
LEMMA ExpectedSound ==
  ASSUME inp \in Inputs, NEW p \in Party, NEW b
  PROVE  Expected(p, b) \subseteq Matches(p, Items(p), Items(Other(p)))
<1>1. Bucket(p, b) \subseteq Items(p) /\ Bucket(Other(p), b) \subseteq Items(Other(p))
  BY Lists, Parties, Zenon
<1>2. ASSUME NEW h \in Expected(p, b) PROVE h \in Matches(p, Items(p), Items(Other(p)))
  <2>1. PICK i \in Bucket(p, b) : \E j \in Bucket(Other(p), b) :
          Key(p, i) = Key(Other(p), j) /\ h = [idx |-> i, dup |-> Dup(Other(p), j)]
    <3>1. h \in Matches(p, Bucket(p, b), Bucket(Other(p), b))
      BY Zenon DEF Expected
    <3> QED BY <3>1, MatchParts
  <2>2. PICK j \in Bucket(Other(p), b) :
          Key(p, i) = Key(Other(p), j) /\ h = [idx |-> i, dup |-> Dup(Other(p), j)]
    BY <2>1, Zenon
  <2>3. i \in Items(p) /\ j \in Items(Other(p))
    BY <1>1, Zenon
  <2> QED BY <2>2, <2>3, MatchParts, Zenon
<1> QED BY <1>2, Zenon

LEMMA LinesWritten ==
  ASSUME TypeOK, NEW p \in Party, NEW hits, WriteLines(p, hits),
         \A h \in hits : h = [idx |-> h.idx, dup |-> h.dup]
  PROVE  lines[p] \subseteq lines'[p] /\ Written(p)' = Written(p) \cup hits
<1> DEFINE new == {[run |-> run, idx |-> h.idx, dup |-> h.dup] : h \in hits}
<1>1. lines'[p] = lines[p] \cup new
  BY TypeParts DEF WriteLines, LinesTypes
<1>2. Written(p)' = {[idx |-> l.idx, dup |-> l.dup] : l \in lines[p] \cup new}
  BY <1>1, Zenon DEF Written
<1>3. ASSUME NEW h \in hits PROVE h \in {[idx |-> l.idx, dup |-> l.dup] : l \in new}
  <2> DEFINE l == [run |-> run, idx |-> h.idx, dup |-> h.dup]
  <2>1. l \in new
    OBVIOUS
  <2>2. l.idx = h.idx /\ l.dup = h.dup
    OBVIOUS
  <2> HIDE DEF l, new
  <2> QED BY <2>1, <2>2
<1>4. ASSUME NEW l \in new PROVE [idx |-> l.idx, dup |-> l.dup] \in hits
  <2>1. PICK h \in hits : l = [run |-> run, idx |-> h.idx, dup |-> h.dup]
    OBVIOUS
  <2>2. l.idx = h.idx /\ l.dup = h.dup
    BY <2>1
  <2> QED BY <2>2, Zenon
<1> HIDE DEF new
<1>5. {[idx |-> l.idx, dup |-> l.dup] : l \in new} = hits
  BY <1>3, <1>4
<1> QED BY <1>1, <1>2, <1>5 DEF Written

LEMMA MatchLines ==
  ASSUME NEW p, NEW S, NEW T, NEW h \in Matches(p, S, T)
  PROVE  h = [idx |-> h.idx, dup |-> h.dup]
<1>1. \E i, d : h = [idx |-> i, dup |-> d]
  BY MatchParts
<1> QED BY <1>1

\* A bucket's lines are written: they are on disk, and sound.
LEMMA BucketWritten ==
  ASSUME TypeOK, inp' = inp, cfg' = cfg, NEW p \in Party, LinesSound(p), NEW b, NEW hits,
         hits = (IF GetsResult(p) THEN Expected(p, b) ELSE {}), WriteLines(p, hits)
  PROVE  /\ lines[p] \subseteq lines'[p] /\ LinesSound(p)'
         /\ GetsResult(p) => Backed(p, b)'
<1>1. CASE ~GetsResult(p)
  <2>1. lines'[p] = lines[p] \cup {}
    BY <1>1, TypeParts DEF WriteLines, LinesTypes
  <2> QED BY <1>1, <2>1, SoundKept
<1>2. CASE GetsResult(p)
  <2>1. hits = Expected(p, b) /\ Expected(p, b)' = Expected(p, b) /\ GetsResult(p)'
    BY <1>2, Fixed, Zenon
  <2>2. \A h \in hits : h = [idx |-> h.idx, dup |-> h.dup]
    BY <2>1, MatchLines, Zenon DEF Expected
  <2>3. lines[p] \subseteq lines'[p] /\ Written(p)' = Written(p) \cup hits
    BY <2>2, LinesWritten, Zenon
  <2>4. Written(p) \subseteq Matches(p, Items(p), Items(Other(p)))
    BY <1>2, Zenon DEF LinesSound
  <2>5. hits \subseteq Matches(p, Items(p), Items(Other(p)))
    BY <2>1, ExpectedSound, TypeParts, Zenon DEF TaskTypes
  <2>6. LinesSound(p)'
    BY <2>1, <2>3, <2>4, <2>5, MatchesFixed, Zenon DEF LinesSound
  <2> QED BY <2>1, <2>3, <2>6, Zenon DEF Backed
<1> QED BY <1>1, <1>2

\* The lines of a party that has the same list as its peer.
LEMMA SameLists ==
  ASSUME NEW p \in Party, Skips
  PROVE  [idx : Items(p), dup : {0}] = Matches(p, Items(p), Items(Other(p)))
<1> DEFINE q == Other(p)
<1>1. DigestEqual(p, Hello(q))
  BY SkipsAlike, Zenon
<1>2. /\ \A j \in Items(q) : Dup(q, j) = 0
      /\ {Key(p, i) : i \in Items(p)} = {Key(q, j) : j \in Items(q)}
  BY <1>1 DEF DigestEqual, Hello
<1> HIDE DEF q
<1>3. ASSUME NEW i \in Items(p) PROVE [idx |-> i, dup |-> 0] \in Matches(p, Items(p), Items(q))
  <2>1. PICK j \in Items(q) : Key(q, j) = Key(p, i)
    BY <1>2
  <2>2. Key(p, i) = Key(q, j) /\ Dup(q, j) = 0
    BY <1>2, <2>1
  <2>3. [idx |-> i, dup |-> Dup(q, j)] \in Matches(p, Items(p), Items(q))
    <3>1. \A x \in Items(p), y \in Items(q) : Key(p, x) = Key(q, y)
            => [idx |-> x, dup |-> Dup(q, y)] \in Matches(p, Items(p), Items(q))
      BY MatchParts DEF q
    <3> QED BY <2>2, <3>1, Zenon
  <2> QED BY <2>2, <2>3
<1>4. ASSUME NEW h \in Matches(p, Items(p), Items(q)) PROVE h \in [idx : Items(p), dup : {0}]
  <2>1. \E i \in Items(p) : \E j \in Items(q) : h = [idx |-> i, dup |-> Dup(q, j)]
    BY MatchParts DEF q
  <2> QED BY <1>2, <2>1
<1>5. ASSUME NEW h \in [idx : Items(p), dup : {0}] PROVE h \in Matches(p, Items(p), Items(q))
  <2>1. h = [idx |-> h.idx, dup |-> 0] /\ h.idx \in Items(p)
    OBVIOUS
  <2> QED BY <1>3, <2>1, Zenon
<1>6. \A A, B : (\A h \in A : h \in B) /\ (\A h \in B : h \in A) => A = B
  OBVIOUS
<1> QED BY <1>4, <1>5, <1>6, Zenon DEF q

\* Places that say nothing about the index file.
LEMMA Silent ==
  ASSUME NEW p, pc'[p] \notin {"Handled", "AsyncRun", "OnlineSync", "PostProcess", "Finalize",
                               "FinalizeSync", "done"}
  PROVE  WrittenSoFar(p)'
BY DEF WrittenSoFar

LEMMA AllBacked ==
  ASSUME NEW p, pc'[p] \in {"OnlineSync", "PostProcess", "Finalize"},
         \A b \in 0 .. BucketNum' - 1 : Backed(p, b)'
  PROVE  WrittenSoFar(p)'
BY DEF WrittenSoFar

LEMMA FileGoes ==
  ASSUME inp' = inp, cfg' = cfg, NEW p, FileOf(p), UNCHANGED diskVars, idx' = idx,
         GetsResult(p) => WrittenSoFar(p)'
  PROVE  FileOf(p)'
<1>1. BucketNum' = BucketNum /\ (GetsResult(p)' <=> GetsResult(p))
  BY Fixed, Zenon
<1>2. lines'[p] = lines[p] /\ ckpt'[p] = ckpt[p] /\ idx'[p] = idx[p]
  BY DEF diskVars
<1>3. \A b : Backed(p, b) => Backed(p, b)'
  BY <1>2, BackedKept
<1>4. CountsBacked(p)' /\ Unsaved(p)'
  BY <1>1, <1>2, <1>3, Zenon DEF FileOf, CountsBacked, Unsaved
<1> QED BY <1>1, <1>2, <1>4, SoundKept, Zenon DEF FileOf

-----------------------------------------------------------------------------
(* The steps of the main thread.                                             *)

\* Equal lists: the lines written are matches, in Init or when the writer closes.
LEMMA EqualWritten ==
  ASSUME TypeOK, inp' = inp, cfg' = cfg, Skips, NEW p \in Party, LinesSound(p),
         NEW hits, hits \subseteq EqualLines(p), WriteLines(p, hits)
  PROVE  lines[p] \subseteq lines'[p] /\ LinesSound(p)' /\ Written(p)' = Written(p) \cup hits
<1> DEFINE all == Matches(p, Items(p), Items(Other(p)))
<1>1. EqualLines(p) = all
  BY SameLists, Zenon DEF EqualLines
<1>2. \A h \in all : h = [idx |-> h.idx, dup |-> h.dup]
  BY MatchLines, Zenon
<1>3. all' = all
  BY MatchesFixed, Zenon
<1>4. (GetsResult(p)' <=> GetsResult(p)) /\ Skips'
  BY Fixed, Zenon
<1> HIDE DEF all
<1>5. \A h \in hits : h = [idx |-> h.idx, dup |-> h.dup]
  BY <1>1, <1>2, Zenon
<1>6. lines[p] \subseteq lines'[p] /\ Written(p)' = Written(p) \cup hits
  BY <1>5, LinesWritten, Zenon
<1>7. CASE GetsResult(p)
  <2>1. Written(p) \subseteq all
    BY <1>7, Zenon DEF LinesSound, all
  <2>2. Written(p)' \subseteq all'
    BY <1>1, <1>3, <1>6, <2>1, Zenon
  <2> QED BY <1>4, <1>6, <1>7, <2>2, Zenon DEF LinesSound, all
<1>8. CASE ~GetsResult(p)
  BY <1>4, <1>6, <1>8, Zenon DEF LinesSound
<1> QED BY <1>7, <1>8

LEMMA FileInit ==
  ASSUME Counted, TypeOK, MainInv, NEW p \in Party, FileOf(p), InitEnd(p)
  PROVE  FileOf(p)'
<1> DEFINE q == Other(p)
           same == DigestEqual(p, Msg(p, "main"))
<1>0. /\ inp' = inp /\ cfg' = cfg /\ idx' = idx /\ pc[p] = "Init" /\ Arrived(p, "main")
      /\ MarkStage(p, INIT_END) /\ WriteLines(p, IF same THEN CommittedInInit(p) ELSE {})
      /\ Goto(p, IF same THEN "Close" ELSE "PreProcess")
  BY Zenon DEF InitEnd, taskVars
<1>1. same <=> Skips
  <2>1. Working(p) /\ Awaits(pc[p]) = "Init"
    BY <1>0 DEF Working, Awaits
  <2>2. Msg(p, "main") = Hello(q)
    BY <1>0, <2>1, Received, Zenon DEF Content
  <2> QED BY <2>2, SkipsAlike, Zenon
<1> HIDE DEF same
<1>2. BucketNum' = BucketNum /\ (GetsResult(p)' <=> GetsResult(p)) /\ (Skips' <=> Skips)
  BY <1>0, Fixed, Zenon
<1>3. /\ ckpt'[p].cnt = ckpt[p].cnt /\ Unsaved(p)'
      /\ ckpt'[p].stage >= ONLINE_END => ckpt[p].stage >= ONLINE_END
  <2>1. INIT_END \in {INIT_END, ONLINE_START} /\ Unsaved(p)
    BY Zenon DEF FileOf
  <2> QED BY <1>0, <2>1, Marked, Zenon
<1>4. CASE ~same
  <2>1. lines'[p] = lines[p] \cup {}
    BY <1>0, <1>4, TypeParts DEF WriteLines, LinesTypes
  <2>2. pc'[p] = "PreProcess"
    BY <1>0, <1>4, TypeParts DEF Goto, PcTypes
  <2>3. lines'[p] = lines[p]
    BY <2>1
  <2>4. \A b : Backed(p, b) => Backed(p, b)'
    BY <1>0, <2>3, BackedKept
  <2>5. CountsBacked(p)'
    BY <1>0, <1>2, <1>3, <2>4, Zenon DEF FileOf, CountsBacked
  <2>6. WrittenSoFar(p)'
    BY <2>2, Silent
  <2> QED BY <1>0, <1>3, <2>3, <2>5, <2>6, SoundKept, Zenon DEF FileOf
<1>5. CASE same
  <2>1. CommittedInInit(p) \subseteq EqualLines(p)
    BY Zenon DEF CommittedInInit
  <2>2. WriteLines(p, CommittedInInit(p)) /\ Skips /\ LinesSound(p)
    BY <1>0, <1>1, <1>5, Zenon DEF FileOf
  <2>3. lines[p] \subseteq lines'[p] /\ LinesSound(p)'
    BY <1>0, <2>1, <2>2, EqualWritten, Zenon
  <2>4. pc'[p] = "Close"
    BY <1>0, <1>5, TypeParts DEF Goto, PcTypes
  <2>5. \A b : Backed(p, b) => Backed(p, b)'
    BY <1>0, <2>3, BackedKept
  <2>6. CountsBacked(p)'
    BY <1>0, <1>2, <1>3, <2>5, Zenon DEF FileOf, CountsBacked
  <2>7. WrittenSoFar(p)'
    BY <2>4, Silent
  <2> QED BY <1>3, <2>3, <2>6, <2>7, Zenon DEF FileOf
<1> QED BY <1>4, <1>5

\* The writer is closed: every line of the equal lists is on disk.
LEMMA FileClose ==
  ASSUME Counted, TypeOK, MainInv, NEW p \in Party, FileOf(p), Close(p)
  PROVE  FileOf(p)'
<1> DEFINE all == Matches(p, Items(p), Items(Other(p)))
<1>0. /\ inp' = inp /\ cfg' = cfg /\ ckpt' = ckpt /\ pc[p] = "Close"
      /\ WriteLines(p, EqualLines(p)) /\ Goto(p, "Finalize")
  BY Zenon DEF Close, taskVars
<1>1. Skips /\ LinesSound(p) /\ EqualLines(p) \subseteq EqualLines(p)
  <2>1. Working(p)
    BY <1>0 DEF Working
  <2> QED BY <1>0, <2>1, Zenon DEF MainInv, PlaceRight, FileOf
<1>2. EqualLines(p) = all
  BY <1>1, SameLists, Zenon DEF EqualLines
<1>3. LinesSound(p)' /\ Written(p)' = Written(p) \cup all
  BY <1>0, <1>1, <1>2, EqualWritten, Zenon
<1>4. pc'[p] = "Finalize"
  BY <1>0, TypeParts DEF Goto, PcTypes
<1>5. \A b : Backed(p, b)'
  <2>1. \A b : Expected(p, b)' = Expected(p, b) /\ Expected(p, b) \subseteq all
    BY <1>0, Fixed, ExpectedSound, TypeParts, Zenon DEF TaskTypes
  <2> HIDE DEF all
  <2> QED BY <1>3, <2>1, Zenon DEF Backed
<1>6. WrittenSoFar(p)'
  BY <1>4, <1>5, AllBacked
<1>7. CountsBacked(p)' /\ Unsaved(p)'
  BY <1>0, <1>5, Zenon DEF FileOf, CountsBacked, Unsaved
<1> QED BY <1>3, <1>6, <1>7, Zenon DEF FileOf

\* Steps that leave the index file, the checkpoint and the bucket alone.
LEMMA FileSilent ==
  ASSUME Counted, TypeOK, MainInv, NEW p \in Party, FileOf(p),
         \/ PreProcess(p) \/ KkrtSetSize(p) \/ KkrtPsiSend(p) \/ KkrtPsiRecv(p)
         \/ KkrtSync(p) \/ BroadcastResult(p) \/ FinalizeThrows(p)
  PROVE  FileOf(p)'
<1>1. inp' = inp /\ cfg' = cfg /\ UNCHANGED diskVars /\ idx' = idx
  BY Zenon DEF PreProcess, KkrtSetSize, KkrtPsiSend, KkrtPsiRecv, KkrtSync, BroadcastResult,
     FinalizeThrows, taskVars
<1>2. \/ Goto(p, "OnlineStart") \/ Goto(p, "Kkrt") \/ Goto(p, "Sync") \/ Goto(p, "Broadcast")
      \/ Goto(p, "Write") \/ Goto(p, "down")
  BY Zenon DEF PreProcess, KkrtSetSize, KkrtPsiSend, KkrtPsiRecv, KkrtSync, BroadcastResult,
     FinalizeThrows
<1>3. pc'[p] \in {"OnlineStart", "Kkrt", "Sync", "Broadcast", "Write", "down"}
  BY <1>2, TypeParts DEF Goto, PcTypes
<1>4. WrittenSoFar(p)'
  BY <1>3, Silent
<1> QED BY <1>1, <1>4, FileGoes, Zenon

\* The loop is entered, and the checkpoint says nothing more than before and
\* that the buckets below b are done.
LEMMA FileLoop ==
  ASSUME Counted, TypeOK, inp' = inp, cfg' = cfg, NEW p \in Party, FileOf(p), NEW b \in Nat,
         EnterLoop(p, b), lines' = lines, Unsaved(p)',
         ckpt'[p].cnt = ckpt[p].cnt \/ ckpt'[p].cnt = b,
         ckpt'[p].stage >= ONLINE_END => ckpt[p].stage >= ONLINE_END,
         GetsResult(p) => \A c \in 0 .. BucketNum - 1 : c < b => Backed(p, c)
  PROVE  FileOf(p)'
<1>1. BucketNum' = BucketNum /\ (GetsResult(p)' <=> GetsResult(p))
  BY Fixed, Zenon
<1>2. \A c : Backed(p, c) => Backed(p, c)'
  BY BackedKept
<1>3. idx'[p] = b
  BY TypeParts DEF EnterLoop, IdxTypes
<1>4. ASSUME GetsResult(p) PROVE WrittenSoFar(p)'
  BY <1>2, <1>4, FileEnters, Zenon
<1>5. CountsBacked(p)'
  BY <1>1, <1>2, <1>3, Zenon DEF FileOf, CountsBacked
<1> QED BY <1>1, <1>4, <1>5, SoundKept, Zenon DEF FileOf

LEMMA FileOnline ==
  ASSUME Counted, TypeOK, MainInv, NEW p \in Party, FileOf(p), OnlineStart(p)
  PROVE  FileOf(p)'
<1>1. inp' = inp /\ cfg' = cfg /\ UNCHANGED diskVars
  BY Zenon DEF OnlineStart, taskVars
<1>2. CASE EnterLoop(p, 0)
  <2>1. \A c \in 0 .. BucketNum - 1 : ~(c < 0)
    OBVIOUS
  <2>2. lines' = lines /\ ckpt' = ckpt /\ Unsaved(p)' /\ 0 \in Nat
    BY <1>1, Zenon DEF diskVars, FileOf, Unsaved
  <2> QED BY <1>1, <1>2, <2>1, <2>2, FileLoop, Zenon
<1>3. CASE Goto(p, "OnlineGather") /\ idx' = idx
  <2>1. pc'[p] = "OnlineGather"
    BY <1>3, TypeParts DEF Goto, PcTypes
  <2>2. WrittenSoFar(p)'
    BY <2>1, Silent
  <2> QED BY <1>1, <1>3, <2>2, FileGoes, Zenon
<1>4. CASE Goto(p, "PostProcess") /\ idx' = idx /\ BucketNum = 0
  <2>1. pc'[p] = "PostProcess"
    BY <1>4, TypeParts DEF Goto, PcTypes
  <2>2. BucketNum' = 0
    BY <1>1, <1>4, Fixed, Zenon
  <2>3. \A b \in 0 .. BucketNum' - 1 : Backed(p, b)'
    BY <2>2
  <2>4. WrittenSoFar(p)'
    BY <2>1, <2>3, AllBacked
  <2> QED BY <1>1, <1>4, <2>4, FileGoes, Zenon
<1> QED BY <1>2, <1>3, <1>4, Zenon DEF OnlineStart

LEMMA FileGather ==
  ASSUME Counted, TypeOK, MainInv, NEW p \in Party, FileOf(p), OnlineGather(p)
  PROVE  FileOf(p)'
<1> DEFINE record == Msg(p, "main")
           finished == record.stage >= ONLINE_END /\ ckpt[p].stage >= ONLINE_END
<1>0. /\ inp' = inp /\ cfg' = cfg /\ lines' = lines /\ pc[p] = "OnlineGather" /\ Arrived(p, "main")
      /\ MarkStage(p, ONLINE_START)
      /\ IF finished THEN Goto(p, "PostProcess") /\ idx' = idx ELSE EnterLoop(p, ResumeAt(p, record))
  BY Zenon DEF OnlineGather, taskVars
<1>1. /\ ckpt'[p].cnt = ckpt[p].cnt /\ Unsaved(p)'
      /\ ckpt'[p].stage >= ONLINE_END => ckpt[p].stage >= ONLINE_END
  <2>1. ONLINE_START \in {INIT_END, ONLINE_START} /\ Unsaved(p)
    BY Zenon DEF FileOf
  <2> QED BY <1>0, <2>1, Marked, Zenon
<1>2. BucketNum' = BucketNum /\ (GetsResult(p)' <=> GetsResult(p))
  BY <1>0, Fixed, Zenon
<1>3. CASE finished
  <2>1. \A b : Backed(p, b) => Backed(p, b)'
    BY <1>0, BackedKept
  <2>2. pc'[p] = "PostProcess" /\ idx' = idx
    BY <1>0, <1>3, TypeParts DEF Goto, PcTypes
  <2>3. GetsResult(p) => \A b \in 0 .. BucketNum - 1 : Backed(p, b)
    BY <1>3, Zenon DEF FileOf, CountsBacked
  <2>4. ASSUME GetsResult(p) PROVE WrittenSoFar(p)'
    BY <1>2, <2>1, <2>2, <2>3, <2>4, AllBacked
  <2>5. CountsBacked(p)'
    BY <1>2, <2>1, <2>3, Zenon DEF CountsBacked
  <2> QED BY <1>0, <1>1, <1>2, <2>4, <2>5, SoundKept, Zenon DEF FileOf
<1>4. CASE ~finished
  <2> DEFINE b == ResumeAt(p, record)
  <2>1. record.cnt \in Nat /\ ckpt[p].cnt \in Nat
    BY <1>0, RecordsKnown, TypeParts DEF CkptTypes
  <2>2. b \in Nat /\ b <= ckpt[p].cnt
    <3> HIDE DEF record
    <3> QED BY <2>1 DEF ResumeAt, Smaller
  <2>3. EnterLoop(p, b)
    BY <1>0, <1>4, Zenon
  <2> HIDE DEF b
  <2>4. BucketNum \in Nat
    BY Lists, Constants DEF TypeOK
  <2>5. \A c \in 0 .. BucketNum - 1 : c < b => c < ckpt[p].cnt
    BY <2>1, <2>2, <2>4
  <2>6. GetsResult(p) => \A c \in 0 .. BucketNum - 1 : c < b => Backed(p, c)
    BY <2>5, Zenon DEF FileOf, CountsBacked
  <2> QED BY <1>0, <1>1, <2>2, <2>3, <2>6, FileLoop, Zenon
<1> QED BY <1>3, <1>4

\* A bucket that is empty at one party is left out: nothing is expected of it.
LEMMA FileSize ==
  ASSUME Counted, TypeOK, MainInv, NEW p \in Party, FileOf(p), KkrtSize(p)
  PROVE  FileOf(p)'
<1> DEFINE m == Msg(p, "main")
           empty == m.size = 0 \/ Bucket(p, idx[p]) = {}
<1>0. /\ inp' = inp /\ cfg' = cfg /\ UNCHANGED diskVars /\ pc[p] = "Size" /\ Arrived(p, "main")
      /\ IF empty THEN EnterLoop(p, idx[p] + 1) ELSE Goto(p, "SetSize") /\ idx' = idx
  BY Zenon DEF KkrtSize, taskVars
<1>1. CASE ~empty
  <2>1. pc'[p] = "SetSize" /\ idx' = idx
    BY <1>0, <1>1, TypeParts DEF Goto, PcTypes
  <2>2. WrittenSoFar(p)'
    BY <2>1, Silent
  <2> QED BY <1>0, <2>1, <2>2, FileGoes, Zenon
<1>2. CASE empty
  <2>1. Working(p) /\ Awaits(pc[p]) = "Size"
    BY <1>0 DEF Working, Awaits
  <2>2. m.at = "Size" /\ m.b = idx[p] /\ Content(Other(p), m)
    BY <1>0, <2>1, Received, Zenon
  <2> HIDE DEF m
  <2>3. m.size = Cardinality(Bucket(Other(p), idx[p]))
    BY <2>2 DEF Content
  <2>4. Null(idx[p])
    BY <1>2, <2>3, NullKnown, Zenon
  <2>5. Backed(p, idx[p])
    BY <2>4, NullExpected, Zenon DEF Backed
  <2>6. idx[p] \in Nat /\ idx[p] + 1 \in Nat /\ BucketNum \in Nat
    BY Lists, Constants, TypeParts DEF IdxTypes, TypeOK
  <2>7. \A c \in 0 .. BucketNum - 1 : c < idx[p] + 1 => c < idx[p] \/ c = idx[p]
    BY <2>6
  <2>8. GetsResult(p) => \A c \in 0 .. BucketNum - 1 : c < idx[p] + 1 => Backed(p, c)
    BY <2>5, <2>7, Zenon DEF FileOf, CountsBacked
  <2>9. lines' = lines /\ ckpt' = ckpt /\ Unsaved(p)' /\ EnterLoop(p, idx[p] + 1)
    BY <1>0, <1>2, Zenon DEF diskVars, FileOf, Unsaved
  <2> QED BY <1>0, <2>6, <2>8, <2>9, FileLoop, Zenon
<1> QED BY <1>1, <1>2

LEMMA FileWrite ==
  ASSUME Counted, TypeOK, MainInv, NEW p \in Party, FileOf(p), KkrtWrite(p)
  PROVE  FileOf(p)'
<1>0. /\ inp' = inp /\ cfg' = cfg /\ ckpt' = ckpt /\ idx' = idx /\ pc[p] = "Write"
      /\ WriteLines(p, res[p]) /\ Goto(p, "Handled")
  BY Zenon DEF KkrtWrite, taskVars
<1>1. res[p] = IF GetsResult(p) THEN Expected(p, idx[p]) ELSE {}
  <2>1. Working(p)
    BY <1>0 DEF Working
  <2>2. ResultHeld(p)
    BY <2>1, Zenon DEF MainInv
  <2> QED BY <1>0, <2>2 DEF ResultHeld, GetsResult
<1>2. /\ lines[p] \subseteq lines'[p] /\ LinesSound(p)'
      /\ GetsResult(p) => Backed(p, idx[p])'
  BY <1>0, <1>1, BucketWritten, Zenon DEF FileOf
<1>3. BucketNum' = BucketNum /\ (GetsResult(p)' <=> GetsResult(p))
  BY <1>0, Fixed, Zenon
<1>4. \A b : Backed(p, b) => Backed(p, b)'
  BY <1>0, <1>2, BackedKept
<1>5. CountsBacked(p)' /\ Unsaved(p)'
  BY <1>0, <1>3, <1>4, Zenon DEF FileOf, CountsBacked, Unsaved
<1>6. pc'[p] = "Handled"
  BY <1>0, TypeParts DEF Goto, PcTypes
<1>7. ASSUME GetsResult(p) PROVE WrittenSoFar(p)'
  BY <1>0, <1>2, <1>6, <1>7 DEF WrittenSoFar
<1> QED BY <1>2, <1>3, <1>5, <1>7, Zenon DEF FileOf

\* The count is saved after the lines of the bucket.
LEMMA FileNext ==
  ASSUME Counted, TypeOK, MainInv, NEW p \in Party, FileOf(p), KkrtNext(p)
  PROVE  FileOf(p)'
<1>0. /\ inp' = inp /\ cfg' = cfg /\ lines' = lines /\ pc[p] = "Handled"
      /\ UpdateParsedBucketCount(p, idx[p] + 1) /\ EnterLoop(p, idx[p] + 1)
  BY Zenon DEF KkrtNext, taskVars
<1>1. idx[p] \in Nat /\ idx[p] + 1 \in Nat /\ BucketNum \in Nat
  BY Lists, Constants, TypeParts DEF IdxTypes, TypeOK
<1>2. /\ ckpt'[p].cnt = idx[p] + 1 \/ ckpt'[p].cnt = ckpt[p].cnt
      /\ ckpt'[p].stage >= ONLINE_END => ckpt[p].stage >= ONLINE_END
      /\ Unsaved(p)'
  BY <1>0, <1>1, Saved, Zenon DEF FileOf
<1>3. \A c \in 0 .. BucketNum - 1 : c < idx[p] + 1 => c < idx[p] \/ c = idx[p]
  BY <1>1
<1>4. GetsResult(p) => Backed(p, idx[p])
  BY <1>0, Zenon DEF FileOf, WrittenSoFar
<1>5. GetsResult(p) => \A c \in 0 .. BucketNum - 1 : c < idx[p] + 1 => Backed(p, c)
  BY <1>3, <1>4, Zenon DEF FileOf, CountsBacked
<1> QED BY <1>0, <1>1, <1>2, <1>5, FileLoop, Zenon

\* AsyncRun returns when the intersection thread is past the last bucket.
LEMMA FileJoin ==
  ASSUME Counted, TypeOK, PipeInv, NEW p \in Party, FileOf(p), Join(p)
  PROVE  FileOf(p)'
<1>0. /\ inp' = inp /\ cfg' = cfg /\ UNCHANGED diskVars /\ idx' = idx /\ pc[p] = "AsyncRun"
      /\ th[p]["inter"].at = "done" /\ Goto(p, "OnlineSync")
  BY Names, Zenon DEF Join, taskVars
<1>1. pc'[p] = "OnlineSync"
  BY <1>0, TypeParts DEF Goto, PcTypes
<1>2. Runner(p, "inter").b >= BucketNum
  BY <1>0, Names, Zenon DEF PipeInv, Threads, ThreadsRight
<1>3. Runner(p, "inter").b \in Int /\ BucketNum \in Nat
  BY RunnerTypes, Names, Lists, Constants, TypeParts DEF TypeOK
<1>4. \A b \in 0 .. BucketNum - 1 : b < UpTo(p, "inter", {"pop", "recv", "post", "done"})
  BY <1>0, <1>2, <1>3 DEF UpTo
<1>5. GetsResult(p) => \A b \in 0 .. BucketNum - 1 : Backed(p, b)
  <2>1. th[p]["inter"].at # "threw"
    BY <1>0
  <2> QED BY <1>0, <1>4, <2>1, Zenon DEF FileOf, WrittenSoFar
<1>6. BucketNum' = BucketNum /\ \A b : Backed(p, b) => Backed(p, b)'
  BY <1>0, Fixed, BackedKept DEF diskVars
<1>7. ASSUME GetsResult(p) PROVE WrittenSoFar(p)'
  BY <1>1, <1>5, <1>6, <1>7, AllBacked
<1> QED BY <1>0, <1>7, FileGoes, Zenon

LEMMA FileEnding ==
  ASSUME Counted, TypeOK, NEW p \in Party, FileOf(p),
         OnlineSync(p) \/ FinalizeWrite(p) \/ FinalizeSync(p)
  PROVE  FileOf(p)'
<1>0. inp' = inp /\ cfg' = cfg /\ UNCHANGED diskVars /\ idx' = idx
  BY Zenon DEF OnlineSync, FinalizeWrite, FinalizeSync, taskVars
<1>1. BucketNum' = BucketNum /\ \A b : Backed(p, b) => Backed(p, b)'
  BY <1>0, Fixed, BackedKept DEF diskVars
<1>2. Repeated(p)' <=> Repeated(p)
  BY <1>0, Zenon DEF Repeated, diskVars
<1>3. ASSUME GetsResult(p)
      PROVE  pc[p] \in {"OnlineSync", "Finalize", "FinalizeSync"} =>
               \A b \in 0 .. BucketNum' - 1 : Backed(p, b)'
  BY <1>1, <1>3, Zenon DEF FileOf, WrittenSoFar
<1>4. \A place : Goto(p, place) => pc'[p] = place
  BY TypeParts DEF Goto, PcTypes
<1>5. ASSUME GetsResult(p) PROVE WrittenSoFar(p)'
  <2>1. CASE OnlineSync(p)
    <3>1. pc[p] = "OnlineSync" /\ pc'[p] = "PostProcess"
      BY <1>4, <2>1, Zenon DEF OnlineSync
    <3> QED BY <1>3, <1>5, <3>1, AllBacked
  <2>2. CASE FinalizeWrite(p)
    <3>1. pc[p] = "Finalize" /\ pc'[p] = "FinalizeSync" /\ ~Repeated(p)
      BY <1>4, <1>5, <2>2, Zenon DEF FinalizeWrite
    <3> QED BY <1>2, <1>3, <1>5, <3>1 DEF WrittenSoFar
  <2>3. CASE FinalizeSync(p)
    <3>1. pc[p] = "FinalizeSync" /\ pc'[p] = "done"
      BY <1>4, <2>3, Zenon DEF FinalizeSync
    <3>2. ~Repeated(p)
      BY <1>5, <3>1 DEF FileOf, WrittenSoFar
    <3> QED BY <1>2, <1>3, <1>5, <3>1, <3>2 DEF WrittenSoFar
  <2> QED BY <2>1, <2>2, <2>3, Zenon
<1> QED BY <1>0, <1>5, FileGoes, Zenon

LEMMA FilePost ==
  ASSUME Counted, TypeOK, NEW p \in Party, FileOf(p), PostProcess(p)
  PROVE  FileOf(p)'
<1>0. /\ inp' = inp /\ cfg' = cfg /\ lines' = lines /\ idx' = idx /\ pc[p] = "PostProcess"
      /\ MarkStage(p, POST_PROCESS_END) /\ Goto(p, "Finalize")
  BY Zenon DEF PostProcess, taskVars
<1>1. BucketNum' = BucketNum /\ (GetsResult(p)' <=> GetsResult(p))
      /\ \A b : Backed(p, b) => Backed(p, b)'
  BY <1>0, Fixed, BackedKept
<1>2. GetsResult(p) => \A b \in 0 .. BucketNum' - 1 : Backed(p, b)'
  BY <1>0, <1>1, Zenon DEF FileOf, WrittenSoFar
<1>3. pc'[p] = "Finalize"
  BY <1>0, TypeParts DEF Goto, PcTypes
<1>4. GetsResult(p) => WrittenSoFar(p)'
  BY <1>2, <1>3, AllBacked
<1>5. CountsBacked(p)'
  BY <1>1, <1>2, Zenon DEF CountsBacked
<1>6. Unsaved(p)'
  <2>1. ~cfg.recovery => ckpt'[p].stage = ckpt[p].stage /\ ckpt'[p].cnt = ckpt[p].cnt
    BY <1>0, TypeParts DEF MarkStage, CkptTypes
  <2> QED BY <1>0, <2>1, Zenon DEF FileOf, Unsaved
<1> QED BY <1>0, <1>1, <1>4, <1>5, <1>6, SoundKept, Zenon DEF FileOf

LEMMA FileMain ==
  ASSUME Counted, TypeOK, MainInv, PipeInv, NEW p \in Party, FileOf(p), MainStep(p)
  PROVE  FileOf(p)'
<1>1. CASE InitEnd(p) \/ Close(p) \/ OnlineStart(p) \/ OnlineGather(p)
  BY <1>1, FileInit, FileClose, FileOnline, FileGather, Zenon
<1>2. CASE Kkrt(p)
  BY <1>2, FileSilent, FileSize, FileWrite, FileNext, Zenon DEF Kkrt
<1>3. CASE \/ PreProcess(p) \/ Join(p) \/ OnlineSync(p) \/ PostProcess(p)
           \/ FinalizeWrite(p) \/ FinalizeThrows(p) \/ FinalizeSync(p)
  BY <1>3, FileSilent, FileJoin, FileEnding, FilePost, Zenon
<1> QED BY <1>1, <1>2, <1>3, Zenon DEF MainStep

-----------------------------------------------------------------------------
(* The intersection thread.                                                  *)

LEMMA FileThread ==
  ASSUME inp' = inp, cfg' = cfg, NEW p \in Party, FileOf(p), pc[p] = "AsyncRun", pc' = pc,
         idx' = idx, UNCHANGED diskVars, th[p]["inter"].at # "threw",
         UpTo(p, "inter", {"pop", "recv", "post", "done"})'
           = UpTo(p, "inter", {"pop", "recv", "post", "done"})
  PROVE  FileOf(p)'
<1>1. BucketNum' = BucketNum /\ \A b : Backed(p, b) => Backed(p, b)'
  BY Fixed, BackedKept DEF diskVars
<1>2. ASSUME GetsResult(p) PROVE WrittenSoFar(p)'
  <2>1. \A b \in 0 .. BucketNum - 1 :
          b < UpTo(p, "inter", {"pop", "recv", "post", "done"}) => Backed(p, b)
    BY <1>2, Zenon DEF FileOf, WrittenSoFar
  <2>2. pc'[p] = "AsyncRun"
    OBVIOUS
  <2>3. \A b \in 0 .. BucketNum' - 1 :
          b < UpTo(p, "inter", {"pop", "recv", "post", "done"})' => Backed(p, b)'
    BY <1>1, <2>1, Zenon
  <2> QED BY <2>2, <2>3 DEF WrittenSoFar
<1> QED BY <1>2, FileGoes, Zenon

\* Taking a bucket and receiving its masks does not move the thread on.
LEMMA FileTakes ==
  ASSUME Counted, TypeOK, MainInv, PipeInv, NEW p \in Party, FileOf(p), InterPop(p) \/ InterRecv(p)
  PROVE  FileOf(p)'
<1>0. /\ inp' = inp /\ cfg' = cfg /\ pc' = pc /\ idx' = idx /\ pc[p] = "AsyncRun"
      /\ UNCHANGED diskVars /\ ThTypes /\ Threads(p)
  BY TypeParts, Zenon DEF InterPop, InterRecv, InPipe, PipeFrame, taskVars, PipeInv
<1>1. th[p]["inter"].at \in {"pop", "recv"}
  BY DEF InterPop, InterRecv, InPipe
<1>2. th'[p]["inter"].at \in {"recv", "post"} /\ th'[p]["inter"].r.b = Runner(p, "inter").b
  <2>1. CASE InterPop(p)
    <3> DEFINE r == Head(oprf[p])
    <3>1. th[p]["inter"].at = "pop" /\ oprf[p] # <<>> /\ oprf[p] \in Seq(BucketRunner)
          /\ \E place \in {"post", "recv"} : Move(p, "inter", place, r)
      BY <2>1, TypeParts DEF InterPop, InPipe, QueueTypes
    <3>2. Queued(p, oprf[p], "run", "inter")
      BY <1>0, Zenon DEF Threads
    <3>3. Ordered(oprf[p], Runner(p, "inter").b)
      BY <3>1, <3>2 DEF Queued, UpTo
    <3>4. r = oprf[p][1] /\ 1 \in 1 .. Len(oprf[p])
      BY <3>1, HeadTail
    <3>5. Runner(p, "inter").b \in Int
      BY <1>0, RunnerTypes, Names, Zenon
    <3> HIDE DEF r
    <3>6. r.b = Runner(p, "inter").b
      BY <3>3, <3>4, <3>5 DEF Ordered
    <3>7. th'[p]["inter"].at \in {"recv", "post"} /\ th'[p]["inter"].r = r
      BY <1>0, <3>1, Moved, Names
    <3> QED BY <3>6, <3>7
  <2>2. CASE InterRecv(p)
    <3>1. \E h : Move(p, "inter", "post", [Runner(p, "inter") EXCEPT !.hits = h])
      BY <2>2, Zenon DEF InterRecv
    <3>2. PICK h : Move(p, "inter", "post", [Runner(p, "inter") EXCEPT !.hits = h])
      BY <3>1, Zenon
    <3>3. Runner(p, "inter") \in BucketRunner
      BY <1>0, RunnerTypes, Names, Zenon
    <3>4. [Runner(p, "inter") EXCEPT !.hits = h].b = Runner(p, "inter").b
      BY <3>3 DEF BucketRunner
    <3>5. /\ th'[p]["inter"].at = "post"
          /\ th'[p]["inter"].r = [Runner(p, "inter") EXCEPT !.hits = h]
      BY <1>0, <3>2, Moved, Names
    <3> QED BY <3>4, <3>5, Zenon
  <2> QED BY <2>1, <2>2
<1>3. UpTo(p, "inter", {"pop", "recv", "post", "done"})'
        = UpTo(p, "inter", {"pop", "recv", "post", "done"})
  BY <1>1, <1>2 DEF UpTo, Runner
<1>4. th[p]["inter"].at # "threw"
  BY <1>1
<1> QED BY <1>0, <1>3, <1>4, FileThread, Zenon

\* post_f writes the lines of the bucket before the count.
LEMMA FilePosts ==
  ASSUME Counted, TypeOK, MainInv, PipeInv, NEW p \in Party, FileOf(p), InterPost(p)
  PROVE  FileOf(p)'
<1>0. /\ inp' = inp /\ cfg' = cfg /\ pc' = pc /\ idx' = idx /\ pc[p] = "AsyncRun" /\ ckpt' = ckpt
      /\ ThTypes /\ Threads(p) /\ th[p]["inter"].at = "post"
      /\ WriteLines(p, Runner(p, "inter").hits) /\ Move(p, "inter", "count", Runner(p, "inter"))
  BY TypeParts, Zenon DEF InterPost, InPipe, PipeFrame, taskVars, PipeInv
<1>1. PICK b : b = Runner(p, "inter").b
  BY Zenon
<1>2. Runner(p, "inter").hits = IF GetsResult(p) THEN Expected(p, b) ELSE {}
  <2>1. th[p]["inter"].at \in {"post", "count"}
    BY <1>0
  <2> QED BY <1>0, <1>1, <2>1, Zenon DEF Threads, InterInStep
<1>3. /\ lines[p] \subseteq lines'[p] /\ LinesSound(p)'
      /\ GetsResult(p) => Backed(p, b)'
  BY <1>0, <1>2, BucketWritten, Zenon DEF FileOf
<1>4. BucketNum' = BucketNum /\ (GetsResult(p)' <=> GetsResult(p)) /\ BucketNum \in Nat
  BY <1>0, Fixed, Lists, Constants, Zenon DEF TypeOK
<1>5. \A c : Backed(p, c) => Backed(p, c)'
  BY <1>0, <1>3, BackedKept
<1>6. CountsBacked(p)' /\ Unsaved(p)'
  BY <1>0, <1>4, <1>5, Zenon DEF FileOf, CountsBacked, Unsaved
<1>7. b \in Int
  BY <1>0, <1>1, RunnerTypes, Names, Zenon
<1>8. /\ UpTo(p, "inter", {"pop", "recv", "post", "done"}) = b
      /\ UpTo(p, "inter", {"pop", "recv", "post", "done"})' = b + 1
  <2>1. th'[p]["inter"].at = "count" /\ th'[p]["inter"].r = Runner(p, "inter")
    BY <1>0, Moved, Names
  <2> QED BY <1>0, <1>1, <2>1 DEF UpTo, Runner
<1>9. ASSUME GetsResult(p) PROVE WrittenSoFar(p)'
  <2>1. th[p]["inter"].at # "threw"
    BY <1>0
  <2>2. \A c \in 0 .. BucketNum - 1 : c < b => Backed(p, c)
    BY <1>0, <1>8, <1>9, <2>1, Zenon DEF FileOf, WrittenSoFar
  <2>3. \A c \in 0 .. BucketNum - 1 : c < b + 1 => c < b \/ c = b
    BY <1>4, <1>7
  <2>4. \A c \in 0 .. BucketNum' - 1 :
          c < UpTo(p, "inter", {"pop", "recv", "post", "done"})' => Backed(p, c)'
    BY <1>3, <1>4, <1>5, <1>8, <1>9, <2>2, <2>3, Zenon
  <2>5. pc'[p] = "AsyncRun"
    BY <1>0
  <2> QED BY <2>4, <2>5 DEF WrittenSoFar
<1> QED BY <1>3, <1>4, <1>6, <1>9, Zenon DEF FileOf

LEMMA FileCounts ==
  ASSUME Counted, TypeOK, MainInv, PipeInv, NEW p \in Party, FileOf(p), InterCount(p)
  PROVE  FileOf(p)'
<1>0. /\ inp' = inp /\ cfg' = cfg /\ pc' = pc /\ idx' = idx /\ pc[p] = "AsyncRun" /\ lines' = lines
      /\ ThTypes /\ Threads(p) /\ th[p]["inter"].at = "count"
      /\ UpdateParsedBucketCount(p, Runner(p, "inter").b + 1) /\ NextRunner(p, "inter", "pop")
  BY TypeParts, Zenon DEF InterCount, InPipe, PipeFrame, taskVars, PipeInv
<1>1. PICK n : n = Runner(p, "inter").b + 1
  BY Zenon
<1>2. n \in Nat
  <2>1. Runner(p, "inter").b \in 0 .. BucketNum - 1
    BY <1>0 DEF Threads, InterInStep
  <2>2. BucketNum \in Nat
    BY Lists, Constants, Zenon DEF TypeOK
  <2> QED BY <1>1, <2>1, <2>2
<1>3. /\ ckpt'[p].cnt = n \/ ckpt'[p].cnt = ckpt[p].cnt
      /\ ckpt'[p].stage >= ONLINE_END => ckpt[p].stage >= ONLINE_END
      /\ Unsaved(p)'
  BY <1>0, <1>1, <1>2, Saved, Zenon DEF FileOf
<1>4. BucketNum' = BucketNum /\ (GetsResult(p)' <=> GetsResult(p))
  BY <1>0, Fixed, Zenon
<1>5. \A c : Backed(p, c) => Backed(p, c)'
  BY <1>0, BackedKept
<1>6. /\ UpTo(p, "inter", {"pop", "recv", "post", "done"}) = n
      /\ UpTo(p, "inter", {"pop", "recv", "post", "done"})' = n
  <2>1. th'[p]["inter"].at \in {"done", "pop"} /\ th'[p]["inter"].r.b = n
    <3>1. "inter" \in Thread
      BY Names, Zenon
    <3>2. /\ th'[p]["inter"].at = (IF n >= BucketNum THEN "done" ELSE "pop")
          /\ th'[p]["inter"].r.b = n
      <4>1. /\ th'[p]["inter"].at = (IF Runner(p, "inter").b + 1 >= BucketNum THEN "done" ELSE "pop")
            /\ th'[p]["inter"].r.b = Runner(p, "inter").b + 1
        <5>1. ThTypes /\ NextRunner(p, "inter", "pop")
          BY <1>0, Zenon
        <5>2. LET b == Runner(p, "inter").b + 1 IN
              /\ th'[p]["inter"].at = (IF b >= BucketNum THEN "done" ELSE "pop")
              /\ th'[p]["inter"].r = [NoRunner EXCEPT !.b = b]
              /\ th'[p]["inter"].r.b = b /\ th'[p]["inter"].r.hits = {}
              /\ \A u \in Thread \ {"inter"} : th'[p][u] = th[p][u]
          BY <3>1, <5>1, Turned, Zenon
        <5> QED BY <5>2, Zenon
      <4> QED BY <1>1, <4>1, Zenon
    <3> QED BY <3>2, Zenon
  <2>2. Runner(p, "inter")'.b = n /\ Runner(p, "inter").b + 1 = n
    BY <1>1, <2>1, Zenon DEF Runner
  <2>3. /\ th'[p]["inter"].at \in {"pop", "recv", "post", "done"}
        /\ th[p]["inter"].at \notin {"pop", "recv", "post", "done"}
    BY <1>0, <2>1
  <2> QED BY <2>2, <2>3, Zenon DEF UpTo
<1>7. GetsResult(p) => \A c \in 0 .. BucketNum - 1 : c < n => Backed(p, c)
  <2>1. th[p]["inter"].at # "threw"
    BY <1>0
  <2> QED BY <1>0, <1>6, <2>1, Zenon DEF FileOf, WrittenSoFar
<1>8. CountsBacked(p)'
  BY <1>0, <1>3, <1>4, <1>5, <1>7, Zenon DEF FileOf, CountsBacked
<1>9. ASSUME GetsResult(p) PROVE WrittenSoFar(p)'
  <2>1. \A c \in 0 .. BucketNum' - 1 :
          c < UpTo(p, "inter", {"pop", "recv", "post", "done"})' => Backed(p, c)'
    BY <1>4, <1>5, <1>6, <1>7, <1>9, Zenon
  <2>2. pc'[p] = "AsyncRun"
    BY <1>0
  <2> QED BY <2>1, <2>2 DEF WrittenSoFar
<1> QED BY <1>0, <1>3, <1>4, <1>8, <1>9, SoundKept, Zenon DEF FileOf

\* The two other threads do not touch the intersection thread.
LEMMA FileOthers ==
  ASSUME Counted, TypeOK, MainInv, PipeInv, NEW p \in Party, FileOf(p), Prep(p) \/ RunTh(p)
  PROVE  FileOf(p)'
<1>1. /\ inp' = inp /\ cfg' = cfg /\ pc' = pc /\ idx' = idx /\ UNCHANGED diskVars
  BY Zenon DEF Prep, PrepLoad, PrepSize, PrepVole, PrepPush, RunTh, RunPop, RunOprf, RunPush, PipeFrame,
     taskVars
<1>2. \E t \in Thread \ {"inter"} : \E at, r : Move(p, t, at, r)
  <2>1. "prep" \in Thread \ {"inter"} /\ "run" \in Thread \ {"inter"}
    BY DEF Thread
  <2>2. CASE Prep(p)
    BY <2>1, <2>2, Zenon DEF Prep, PrepLoad, PrepSize, PrepVole, PrepPush, NextRunner
  <2>3. CASE RunTh(p)
    BY <2>1, <2>3, Zenon DEF RunTh, RunPop, RunOprf, RunPush, NextRunner
  <2> QED BY <2>2, <2>3
<1>3. th'[p]["inter"] = th[p]["inter"]
  <2>1. PICK t \in Thread \ {"inter"} : \E at, r : Move(p, t, at, r)
    BY <1>2, Zenon
  <2>2. PICK at, r : Move(p, t, at, r)
    BY <2>1, Zenon
  <2>3. "inter" \in Thread \ {t} /\ ThTypes
    BY Names, TypeParts, Zenon
  <2> QED BY <2>2, <2>3, Moved
<1>4. Untouched(p)
  BY <1>1, <1>3, Zenon DEF Untouched, diskVars
<1> QED BY <1>1, <1>4, FileKept, Zenon

-----------------------------------------------------------------------------
(* The peer, failures and restarts.                                          *)

LEMMA FilePeer ==
  ASSUME Counted, TypeOK, MainInv, NEW p \in Party, FileOf(Other(p)),
         MainStep(p) \/ Prep(p) \/ RunTh(p) \/ Inter(p)
  PROVE  FileOf(Other(p))'
<1> DEFINE q == Other(p)
<1>0. q \in Party /\ q # p
  BY Parties, Zenon
<1>1. /\ lines' = lines \/ \E h : WriteLines(p, h)
      /\ ckpt' = ckpt \/ (\E s : MarkStage(p, s)) \/ \E c : UpdateParsedBucketCount(p, c)
      /\ idx' = idx \/ \E b : EnterLoop(p, b)
  <2>1. CASE MainStep(p)
    <3>1. CASE InitEnd(p) \/ Close(p) \/ PreProcess(p) \/ OnlineStart(p) \/ OnlineGather(p)
      BY <3>1, Zenon DEF InitEnd, Close, PreProcess, OnlineStart, OnlineGather, diskVars
    <3>2. CASE Kkrt(p)
      BY <3>2, Zenon DEF Kkrt, KkrtSize, KkrtSetSize, KkrtPsiSend, KkrtPsiRecv, KkrtSync,
         BroadcastResult, KkrtWrite, KkrtNext, diskVars
    <3>3. CASE \/ Join(p) \/ OnlineSync(p) \/ PostProcess(p)
               \/ FinalizeWrite(p) \/ FinalizeThrows(p) \/ FinalizeSync(p)
      BY <3>3, Zenon DEF Join, OnlineSync, PostProcess, FinalizeWrite, FinalizeThrows, FinalizeSync,
         diskVars
    <3> QED BY <2>1, <3>1, <3>2, <3>3, Zenon DEF MainStep
  <2>2. CASE Prep(p) \/ RunTh(p) \/ Inter(p)
    BY <2>2, Zenon DEF Prep, PrepLoad, PrepSize, PrepVole, PrepPush, RunTh, RunPop, RunOprf, RunPush,
       Inter, InterPop, InterRecv, InterPost, InterCount, PipeFrame, diskVars
  <2> QED BY <2>1, <2>2
<1>2. lines'[q] = lines[q]
  BY <1>0, <1>1, TypeParts, Zenon DEF WriteLines, LinesTypes
<1>3. ckpt'[q] = ckpt[q]
  BY <1>0, <1>1, TypeParts, Zenon DEF MarkStage, UpdateParsedBucketCount, CkptTypes
<1>4. idx'[q] = idx[q]
  BY <1>0, <1>1, TypeParts, Zenon DEF EnterLoop, IdxTypes
<1>5. inp' = inp /\ cfg' = cfg /\ pc'[q] = pc[q] /\ th'[q] = th[q]
  BY MainLinks, ThreadFrame, Zenon
<1>6. Untouched(q)
  BY <1>2, <1>3, <1>4, <1>5, Zenon DEF Untouched
<1> QED BY <1>5, <1>6, FileKept, Zenon

LEMMA FileFails ==
  ASSUME Counted, TypeOK, NEW p \in Party, Ends(p) \/ \E t \in Thread : ThreadThrows(p, t),
         NEW r \in Party, FileOf(r)
  PROVE  FileOf(r)'
<1>1. CASE Ends(p)
  <2>1. inp' = inp /\ cfg' = cfg /\ lines' = lines /\ ckpt' = ckpt /\ idx' = idx /\ th' = th
    BY <1>1, EndsFrame, Zenon DEF diskVars, pipeVars
  <2>2. pc'[r] = pc[r] \/ pc'[r] \in {"down", "Spin"}
    BY <1>1, EndsFrame, TypeParts DEF Goto, PcTypes
  <2>3. Untouched(r)
    BY <2>1, <2>2, Zenon DEF Untouched
  <2> QED BY <2>1, <2>3, FileKept, Zenon
<1>2. ASSUME NEW t \in Thread, ThreadThrows(p, t) PROVE FileOf(r)'
  <2>1. /\ inp' = inp /\ cfg' = cfg /\ lines' = lines /\ ckpt' = ckpt /\ idx' = idx /\ pc' = pc
    BY <1>2, Zenon DEF ThreadThrows, taskVars, diskVars
  <2>2. th'[r]["inter"] = th[r]["inter"] \/ th'[r]["inter"].at = "threw"
    <3>1. \/ th'[r]["inter"] = th[r]["inter"]
          \/ th'[r]["inter"] = [th[r]["inter"] EXCEPT !.at = "threw"]
      BY <1>2, TypeParts, Names, Zenon DEF ThreadThrows, ThTypes
    <3>2. [th[r]["inter"] EXCEPT !.at = "threw"].at = "threw"
      BY TypeParts, Names DEF ThTypes
    <3> QED BY <3>1, <3>2, Zenon
  <2>3. Untouched(r)
    BY <2>1, <2>2, Zenon DEF Untouched
  <2> QED BY <2>1, <2>3, FileKept, Zenon
<1> QED BY <1>1, <1>2, Zenon

\* A party that has just started with an empty index file and no count.
LEMMA FileEmpty ==
  ASSUME NEW p, lines[p] = {}, ckpt[p].stage = UNSPECIFIED, ckpt[p].cnt = 0, idx[p] = 0, pc[p] = "Init"
  PROVE  FileOf(p)
<1>1. CountsBacked(p)
  BY DEF CountsBacked, UNSPECIFIED, ONLINE_END
<1>2. Written(p) = {}
  BY DEF Written
<1>3. LinesSound(p)
  BY <1>2 DEF LinesSound
<1>4. WrittenSoFar(p)
  BY DEF WrittenSoFar
<1> QED BY <1>1, <1>3, <1>4, Zenon DEF FileOf, Unsaved

LEMMA FileFirst ==
  ASSUME Init
  PROVE  FileInv
<1>1. ASSUME NEW p \in Party PROVE FileOf(p)
  <2>1. /\ lines[p] = {} /\ ckpt[p].stage = UNSPECIFIED /\ ckpt[p].cnt = 0 /\ idx[p] = 0
        /\ pc[p] = "Init"
    BY DEF Init
  <2> QED BY <2>1, FileEmpty, Zenon
<1> QED BY <1>1, FileOfAll, Zenon

\* A restart finds what the last run left on disk, or starts from nothing.
LEMMA FileRestart ==
  ASSUME Counted, TypeOK, FileInv, Restart
  PROVE  FileInv'
<1>1. ASSUME NEW p \in Party PROVE FileOf(p)'
  <2>0. FileOf(p)
    BY FileOfAll, Zenon
  <2>1. /\ inp' = inp /\ cfg' = cfg /\ ckpt' = ckpt /\ idx'[p] = 0 /\ pc'[p] = "Init"
        /\ lines' = IF cfg.recovery THEN lines ELSE [r \in Party |-> {}]
    BY DEF Restart, Start
  <2>2. WrittenSoFar(p)'
    BY <2>1, Silent
  <2>3. BucketNum' = BucketNum /\ (GetsResult(p)' <=> GetsResult(p))
    BY <2>1, Fixed, Zenon
  <2>4. CASE cfg.recovery
    <3>1. lines' = lines
      BY <2>1, <2>4, Zenon
    <3>2. \A b : Backed(p, b) => Backed(p, b)'
      BY <2>1, <3>1, BackedKept
    <3>3. CountsBacked(p)'
      <4>1. \A b \in 0 .. BucketNum' - 1 : ~(b < 0)
        OBVIOUS
      <4> QED BY <2>0, <2>1, <2>3, <3>2, <4>1, Zenon DEF FileOf, CountsBacked
    <3>4. LinesSound(p)' /\ Unsaved(p)'
      BY <2>0, <2>1, <3>1, SoundKept, Zenon DEF FileOf, Unsaved
    <3> QED BY <2>2, <3>3, <3>4, Zenon DEF FileOf
  <2>5. CASE ~cfg.recovery
    <3>1. lines'[p] = {} /\ ckpt'[p].stage = UNSPECIFIED /\ ckpt'[p].cnt = 0
      BY <2>0, <2>1, <2>5 DEF FileOf, Unsaved
    <3>2. CountsBacked(p)'
      BY <2>1, <3>1 DEF CountsBacked, UNSPECIFIED, ONLINE_END
    <3>3. Written(p)' = {}
      BY <3>1 DEF Written
    <3>4. LinesSound(p)'
      BY <3>1, <3>3 DEF LinesSound
    <3> QED BY <2>2, <3>1, <3>2, <3>4, Zenon DEF FileOf, Unsaved
  <2> QED BY <2>4, <2>5
<1> QED BY <1>1, FileOfAll, Zenon

LEMMA FileInvStep ==
  ASSUME Counted, TypeOK, MainInv, PipeInv, FileInv, [Next]_vars
  PROVE  FileInv'
<1>0. \A r \in Party : FileOf(r)
  BY FileOfAll, Zenon
<1>1. ASSUME NEW p \in Party, MainStep(p) \/ Prep(p) \/ RunTh(p) \/ Inter(p) PROVE FileInv'
  <2>1. FileOf(p)'
    BY <1>0, <1>1, FileMain, FileTakes, FilePosts, FileCounts, FileOthers, Zenon DEF Inter
  <2>2. FileOf(Other(p))'
    BY <1>0, <1>1, FilePeer, Parties, Zenon
  <2>3. \A r \in Party : r = p \/ r = Other(p)
    BY Parties, Zenon
  <2>4. \A r \in Party : FileOf(r)'
    BY <2>1, <2>2, <2>3, Zenon
  <2> QED BY <2>4, FileOfAll, Zenon
<1>2. ASSUME NEW p \in Party, Crash(p) \/ Fails(p) \/ Kill(p) PROVE FileInv'
  <2>1. Ends(p) \/ \E t \in Thread : ThreadThrows(p, t)
    BY <1>2, Zenon DEF Ends, Fails
  <2>2. \A r \in Party : FileOf(r)'
    BY <1>0, <2>1, FileFails, Zenon
  <2> QED BY <2>2, FileOfAll, Zenon
<1>3. ASSUME UNCHANGED vars PROVE FileInv'
  <2>1. ASSUME NEW r \in Party PROVE FileOf(r)'
    <3>1. inp' = inp /\ cfg' = cfg /\ Untouched(r)
      BY <1>3, Zenon DEF vars, Untouched
    <3> QED BY <1>0, <3>1, FileKept, Zenon
  <2> QED BY <2>1, FileOfAll, Zenon
<1> QED BY <1>1, <1>2, <1>3, FileRestart, Zenon DEF Next, Terminated

-----------------------------------------------------------------------------
(* What the index files hold in the end.                                     *)

LEMMA BucketOf ==
  ASSUME inp \in Inputs, NEW p \in Party, NEW i \in Items(p), NEW j \in Items(Other(p)),
         Key(p, i) = Key(Other(p), j)
  PROVE  \E b \in 0 .. BucketNum - 1 : i \in Bucket(p, b) /\ j \in Bucket(Other(p), b)
<1> DEFINE n == Len(inp.key[p])
           m == Len(inp.key[Other(p)])
<1>1. n \in Nat /\ m \in Nat /\ n > 0 /\ m > 0
  <2>1. n \in Nat /\ m \in Nat
    BY Lists, Parties, Zenon
  <2>2. i \in 0 .. n - 1 /\ j \in 0 .. m - 1
    BY Zenon DEF Items
  <2> QED BY <2>1, <2>2
<1>2. BucketSize \in Nat /\ BucketSize > 0
  BY BucketAssumption
<1>3. \A x \in Nat : x > 0 => CeilDiv(x, BucketSize) >= 1
  BY <1>2 DEF CeilDiv
<1>4. BucketNum \in Nat /\ BucketNum > 0
  <2>1. BucketNum = NegotiateBucketNum(n, m) \/ BucketNum = NegotiateBucketNum(m, n)
    BY DEF BucketNum, Party, Other
  <2>2. \A x, y \in Nat : x > 0 /\ y > 0 =>
          \/ NegotiateBucketNum(x, y) = CeilDiv(x, BucketSize)
          \/ NegotiateBucketNum(x, y) = CeilDiv(y, BucketSize)
    BY DEF NegotiateBucketNum, Larger
  <2>3. BucketNum >= 1
    BY <1>1, <1>3, <2>1, <2>2
  <2> QED BY <2>3, Lists
<1>5. Key(p, i) \in Nat
  BY Lists, Zenon
<1> DEFINE b == Key(p, i) % BucketNum
<1>6. b \in 0 .. BucketNum - 1
  <2>1. \A k, d \in Nat : d > 0 => k % d \in 0 .. d - 1
    OBVIOUS
  <2> QED BY <1>4, <1>5, <2>1, Zenon
<1>7. i \in Bucket(p, b) /\ j \in Bucket(Other(p), b)
  BY Zenon DEF Bucket
<1> QED BY <1>6, <1>7, Zenon

\* The invariants imply ResultExact.
LEMMA ResultWritten ==
  ASSUME TypeOK, FileInv
  PROVE  ResultExact
<1> SUFFICES ASSUME NEW p \in Party, pc[p] = "done"
             PROVE  /\ GetsResult(p) => Written(p) = Matches(p, Items(p), Items(Other(p)))
                                        /\ ~Repeated(p)
                    /\ GetsResult(p) \/ DigestEqual(p, Hello(Other(p))) \/ lines[p] = {}
  BY Zenon DEF ResultExact
<1> DEFINE all == Matches(p, Items(p), Items(Other(p)))
<1>1. inp \in Inputs /\ LinesSound(p) /\ (GetsResult(p) => WrittenSoFar(p))
  BY Zenon DEF FileInv, TypeOK, ControlTypes
<1>2. CASE ~GetsResult(p)
  BY <1>1, <1>2, SkipsAlike, Zenon DEF LinesSound
<1>3. CASE GetsResult(p)
  <2>1. Written(p) \subseteq all
    BY <1>1, <1>3, Zenon DEF LinesSound
  <2>2. (\A b \in 0 .. BucketNum - 1 : Backed(p, b)) /\ ~Repeated(p)
    BY <1>1, <1>3 DEF WrittenSoFar
  <2>3. ASSUME NEW h \in all PROVE h \in Written(p)
    <3>1. PICK i \in Items(p) : \E j \in Items(Other(p)) :
            Key(p, i) = Key(Other(p), j) /\ h = [idx |-> i, dup |-> Dup(Other(p), j)]
      BY MatchParts
    <3>2. PICK j \in Items(Other(p)) :
            Key(p, i) = Key(Other(p), j) /\ h = [idx |-> i, dup |-> Dup(Other(p), j)]
      BY <3>1, Zenon
    <3>3. PICK b \in 0 .. BucketNum - 1 : i \in Bucket(p, b) /\ j \in Bucket(Other(p), b)
      BY <1>1, <3>2, BucketOf, Zenon
    <3>4. h \in Expected(p, b)
      <4>1. \A x \in Bucket(p, b), y \in Bucket(Other(p), b) : Key(p, x) = Key(Other(p), y)
              => [idx |-> x, dup |-> Dup(Other(p), y)] \in Expected(p, b)
        BY MatchParts, Zenon DEF Expected
      <4> QED BY <3>2, <3>3, <4>1, Zenon
    <3> QED BY <2>2, <3>4, Zenon DEF Backed
  <2> HIDE DEF all
  <2>4. Written(p) = all
    BY <2>1, <2>3, Zenon
  <2> QED BY <1>3, <2>2, <2>4 DEF all
<1> QED BY <1>2, <1>3

=============================================================================
