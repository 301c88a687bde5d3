----------------------- MODULE BucketPsiResultProofs ------------------------
(* Theorems about BucketPsi, for lists, buckets and numbers of crashes of    *)
(* any size: the parties meet at the same bucket, no saved count runs ahead  *)
(* of an index file, and a task that ends has written the intersection.      *)
EXTENDS BucketPsiMainProofs, BucketPsiPipeProofs

-----------------------------------------------------------------------------
(* Numbers of items.                                                         *)

INSTANCE FunctionTheorems
INSTANCE FiniteSetTheorems

LEMMA BucketFinite ==
  ASSUME inp \in Inputs, NEW p \in Party, NEW b
  PROVE  IsFiniteSet(Bucket(p, b))
<1>1. Len(inp.key[p]) \in Nat /\ Bucket(p, b) \subseteq Items(p)
  BY Lists, Zenon
<1>2. IsFiniteSet(Items(p))
  <2>1. 0 \in Int /\ Len(inp.key[p]) - 1 \in Int
    BY <1>1
  <2> QED BY <2>1, FS_Interval, Zenon DEF Items
<1> QED BY <1>1, <1>2, FS_Subset, Zenon

LEMMA ExpectedFinite ==
  ASSUME inp \in Inputs, NEW p \in Party, NEW b
  PROVE  IsFiniteSet(Expected(p, b))
<1> DEFINE S == Bucket(p, b) \X Bucket(Other(p), b)
           X == {y \in S : Key(p, y[1]) = Key(Other(p), y[2])}
           E == Expected(p, b)
           f == [x \in X |-> [idx |-> x[1], dup |-> Dup(Other(p), x[2])]]
<1>1. IsFiniteSet(Bucket(p, b)) /\ IsFiniteSet(Bucket(Other(p), b))
  BY BucketFinite, Parties, Zenon
<1>2. IsFiniteSet(S)
  BY <1>1, FS_Product
<1>3. IsFiniteSet(X)
  BY <1>2, FS_Subset
<1>4. E = {[idx |-> x[1], dup |-> Dup(Other(p), x[2])] : x \in X}
  BY DEF Expected, Matches
<1> HIDE DEF X, E
<1>5. f \in [X -> E] /\ \A e \in E : \E x \in X : f[x] = e
  BY <1>4
<1>6. f \in Surjection(X, E)
  BY <1>5 DEF Surjection
<1> HIDE DEF f
<1> QED BY <1>3, <1>6, FS_Surjection DEF E

\* Every key that the receiver tells is a key of the sender: if it tells as
\* many as the sender has in the bucket, it tells all of them.
LEMMA AllFound ==
  ASSUME inp \in Inputs, NEW p \in Party, NEW b,
         Cardinality(Told(Other(p), {h.idx : h \in Expected(Other(p), b)}))
           = Cardinality(Bucket(p, b))
  PROVE  Bucket(p, b) \subseteq {h.idx : h \in Expected(p, b)}
<1> DEFINE q == Other(p)
           own == Bucket(p, b)
           U == {h.idx : h \in Expected(q, b)}
           told == Told(q, U)
<1>0. q \in Party /\ Other(q) = p
  BY Parties, Zenon
<1>1. U \subseteq Bucket(q, b) /\ Bucket(q, b) \subseteq Items(q)
  BY <1>0, ExpectedItems, Lists, Zenon
<1>2. ASSUME NEW j \in U PROVE j \in Bucket(q, b) /\ \E i \in own : Key(p, i) = Key(q, j)
  <2>1. PICK h \in Expected(q, b) : j = h.idx
    BY Zenon
  <2>2. h \in Matches(q, Bucket(q, b), own)
    BY <1>0, <2>1, Zenon DEF Expected
  <2>3. \E k \in Bucket(q, b) : \E i \in own : Key(q, k) = Key(p, i) /\ h = [idx |-> k, dup |-> Dup(p, i)]
    <3> HIDE DEF q, own
    <3>1. \E k \in Bucket(q, b) : \E i \in own :
            Key(q, k) = Key(Other(q), i) /\ h = [idx |-> k, dup |-> Dup(Other(q), i)]
      BY <2>2, MatchParts
    <3> QED BY <1>0, <3>1, Zenon
  <2> QED BY <2>1, <2>3
<1>3. ASSUME NEW t \in told
      PROVE  \E j \in U : t = [key |-> Key(q, j), dup |-> Dup(q, j)] /\ t.key = Key(q, j)
  <2>1. PICK j \in U : t = [key |-> Key(q, j), dup |-> Dup(q, j)]
    BY Zenon DEF Told
  <2> QED BY <2>1
<1> HIDE DEF own, told, U, q
<1> DEFINE g == [t \in told |-> CHOOSE i \in own : Key(p, i) = t.key]
<1>4. \A t \in told : g[t] \in own /\ Key(p, g[t]) = t.key
  <2> SUFFICES ASSUME NEW t \in told PROVE g[t] \in own /\ Key(p, g[t]) = t.key
    OBVIOUS
  <2>1. g[t] = CHOOSE i \in own : Key(p, i) = t.key
    BY DEF g
  <2>2. \E i \in own : Key(p, i) = t.key
    BY <1>2, <1>3, Zenon
  <2> HIDE DEF g
  <2> QED BY <2>1, <2>2
<1>5. g \in [told -> own]
  BY <1>4
<1> HIDE DEF g
<1>6. ASSUME NEW t \in told, NEW u \in told, g[t] = g[u] PROVE t = u
  <2>1. PICK j \in U : t = [key |-> Key(q, j), dup |-> Dup(q, j)] /\ t.key = Key(q, j)
    BY <1>3, Zenon
  <2>2. PICK k \in U : u = [key |-> Key(q, k), dup |-> Dup(q, k)] /\ u.key = Key(q, k)
    BY <1>3, Zenon
  <2>3. j \in Items(q) /\ k \in Items(q) /\ Key(q, j) = Key(q, k)
    BY <1>1, <1>4, <1>6, <2>1, <2>2, Zenon
  <2>4. j = k
    BY <1>0, <2>3, Lists, Zenon
  <2> QED BY <2>1, <2>2, <2>4, Zenon
<1>7. g \in Injection(told, own)
  BY <1>5, <1>6 DEF Injection, IsInjective
<1>8. g \in Surjection(told, own)
  <2>1. IsFiniteSet(own) /\ Cardinality(told) = Cardinality(own)
    BY BucketFinite, Zenon DEF own, told, U, q
  <2> QED BY <1>7, <2>1, FS_Injection
<1>9. ASSUME NEW i \in own PROVE \E h \in Expected(p, b) : i = h.idx
  <2>1. PICK t \in told : g[t] = i
    BY <1>8 DEF Surjection
  <2>2. PICK j \in U : t = [key |-> Key(q, j), dup |-> Dup(q, j)] /\ t.key = Key(q, j)
    BY <1>3, Zenon
  <2>3. Key(p, i) = Key(q, j) /\ j \in Bucket(q, b)
    BY <1>2, <1>4, <2>1, <2>2, Zenon
  <2>4. [idx |-> i, dup |-> Dup(q, j)] \in Expected(p, b)
    <3>1. \A x \in Bucket(p, b), y \in Bucket(q, b) : Key(p, x) = Key(q, y)
            => [idx |-> x, dup |-> Dup(q, y)] \in Expected(p, b)
      BY MatchParts, Zenon DEF Expected, q
    <3> QED BY <2>3, <3>1, Zenon DEF own
  <2> QED BY <2>4
<1> QED BY <1>9 DEF own

LEMMA Sizes ==
  ASSUME inp \in Inputs
  PROVE  Counted
<1>1. ASSUME NEW p \in Party, NEW b
      PROVE  /\ Cardinality(Bucket(p, b)) \in Nat
             /\ Cardinality(Bucket(p, b)) = 0 <=> Bucket(p, b) = {}
             /\ Cardinality(Expected(p, b)) \in Nat
             /\ Cardinality(Expected(p, b)) = 0 <=> Expected(p, b) = {}
  BY BucketFinite, ExpectedFinite, FS_CardinalityType, FS_EmptySet, Zenon
<1> QED BY <1>1, AllFound, Zenon DEF Counted

-----------------------------------------------------------------------------
(* The theorems.                                                             *)

BucketInv == TypeOK /\ MainInv /\ PipeInv /\ FileInv

\* The invariants together are inductive: the contexts carry what the inputs
\* and the told checkpoints determine, the main threads and the threads of
\* AsyncRun are in step with them, and the index files hold what the counts
\* say, over all crashes and restarts (kkrt/receiver.cc:103-149,
\* rr22/receiver.cc:106-135, rr22_psi.h:189-248).
THEOREM BucketInvariant == Spec => []BucketInv
<1>1. Init => BucketInv
  <2> SUFFICES ASSUME Init PROVE BucketInv
    OBVIOUS
  <2>1. Counted
    BY Sizes, Zenon DEF Init
  <2> QED BY <2>1, TypeInit, MainFirst, PipeFirst, FileFirst, Zenon DEF BucketInv
<1>2. BucketInv /\ [Next]_vars => BucketInv'
  <2> SUFFICES ASSUME BucketInv, [Next]_vars PROVE BucketInv'
    OBVIOUS
  <2>1. TypeOK /\ MainInv /\ PipeInv /\ FileInv
    BY Zenon DEF BucketInv
  <2>2. Counted
    BY <2>1, Sizes, Zenon DEF TypeOK, ControlTypes
  <2>3. TypeOK' /\ MainInv'
    BY <2>1, <2>2, TypeStep, MainInvStep, Zenon
  <2>4. PipeInv' /\ FileInv'
    BY <2>1, <2>2, <2>3, PipeInvStep, FileInvStep, Zenon
  <2> QED BY <2>3, <2>4, Zenon DEF BucketInv
<1> QED BY <1>1, <1>2, PTL DEF Spec

\* What a party or a thread receives is what it waits for, about the bucket it
\* works on, although messages carry no tag (rr22_psi.h:203-244,
\* kkrt/receiver.cc:103-149).
THEOREM MeetsAtBucket == Spec => []SameBucket
<1>1. BucketInv => SameBucket
  <2> SUFFICES ASSUME BucketInv PROVE SameBucket
    OBVIOUS
  <2>1. Counted
    BY Sizes, Zenon DEF BucketInv, TypeOK, ControlTypes
  <2> QED BY <2>1, MeetAtBucket, Zenon DEF BucketInv
<1> QED BY <1>1, BucketInvariant, PTL

\* A saved count never runs ahead of the index file, and no resumed loop starts
\* behind a bucket whose result is missing (kkrt/receiver.cc:103-149,
\* rr22/receiver.cc:106-135).
THEOREM CountsAreBacked == Spec => []CountBacked
<1>1. BucketInv => CountBacked
  BY Zenon DEF BucketInv, FileInv
<1> QED BY <1>1, BucketInvariant, PTL

\* A task that ends has written exactly the intersection, with the peer's
\* counts of duplicates, whatever crashes and restarts it went through
\* (interface.cc:98-126, bucket.cc:162-165).
THEOREM WritesIntersection == Spec => []ResultExact
<1>1. BucketInv => ResultExact
  BY ResultWritten, Zenon DEF BucketInv
<1> QED BY <1>1, BucketInvariant, PTL

=============================================================================
