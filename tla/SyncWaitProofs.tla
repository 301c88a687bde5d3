--------------------------- MODULE SyncWaitProofs ---------------------------
(* Theorems about SyncWait, for any set of ranks and any bound on rounds.    *)
EXTENDS SyncWait, TLAPS

LEMMA InitRounds == Init => RoundsInv
BY DEF Init, RoundsInv, TypeOK

\* Appending a flag keeps the flags already posted, and adds only its own.
LEMMA PostKeeps ==
  ASSUME TypeOK, NEW r \in Ranks, NEW flag \in BOOLEAN,
         sent' = [sent EXCEPT ![r] = Append(@, flag)]
  PROVE  /\ Len(sent'[r]) = Len(sent[r]) + 1
         /\ sent'[r][Len(sent[r]) + 1] = flag
         /\ \A k \in 1 .. Len(sent[r]) : sent'[r][k] = sent[r][k]
         /\ \A s \in Ranks \ {r} : sent'[s] = sent[s]
         /\ sent' \in [Ranks -> Seq(BOOLEAN)]
         /\ \A s \in Ranks : Len(sent[s]) \in Nat /\ Len(sent'[s]) >= Len(sent[s])
         /\ \A s \in Ranks : \A k \in 1 .. Len(sent[s]) : sent'[s][k] = sent[s][k]
<1>1. sent[r] \in Seq(BOOLEAN) /\ \A s \in Ranks : sent[s] \in Seq(BOOLEAN)
  BY DEF TypeOK
<1>2. sent'[r] = Append(sent[r], flag) /\ \A s \in Ranks \ {r} : sent'[s] = sent[s]
  BY DEF TypeOK
<1>3. \A s \in Ranks : Len(sent[s]) \in Nat
  BY <1>1
<1>4. sent' \in [Ranks -> Seq(BOOLEAN)]
  BY <1>1 DEF TypeOK
<1>5. /\ Len(sent'[r]) = Len(sent[r]) + 1
      /\ sent'[r][Len(sent[r]) + 1] = flag
      /\ \A k \in 1 .. Len(sent[r]) : sent'[r][k] = sent[r][k]
  BY <1>1, <1>2
<1> QED BY <1>2, <1>3, <1>4, <1>5

\* A post of flag by r keeps the invariant, if r's function has returned where
\* the flag says so, and the round before was an unfinished one (r was in its
\* loop).
LEMMA PostRounds ==
  ASSUME RoundsInv, NEW r \in Ranks, NEW flag \in BOOLEAN,
         pc[r] = "wait", PostFlag(r, flag), UNCHANGED fut,
         done' \in [Ranks -> BOOLEAN],
         \A s \in Ranks : done'[s] => fut[s] = "ready" \/ pc[s] = "threw",
         flag => fut[r] = "ready"
  PROVE  RoundsInv'
<1> USE DEF PostFlag
<1>0. TypeOK
  BY DEF RoundsInv
<1>1. /\ Len(sent'[r]) = Len(sent[r]) + 1
      /\ sent'[r][Len(sent[r]) + 1] = flag
      /\ \A s \in Ranks \ {r} : sent'[s] = sent[s]
      /\ sent' \in [Ranks -> Seq(BOOLEAN)]
      /\ \A s \in Ranks : Len(sent[s]) \in Nat /\ Len(sent'[s]) >= Len(sent[s])
      /\ \A s \in Ranks : \A k \in 1 .. Len(sent[s]) : sent'[s][k] = sent[s][k]
  BY <1>0, PostKeeps
<1>2. pc' = [pc EXCEPT ![r] = "gather"] /\ pc \in [Ranks -> {"wait", "gather", "returned", "threw"}]
  BY <1>0 DEF TypeOK
<1>3. TypeOK'
  BY <1>0, <1>1, <1>2 DEF TypeOK
<1>4. ASSUME NEW k \in Nat, k >= 1, Unfinished(k)
      PROVE  Unfinished(k)'
  BY <1>1, <1>4 DEF Unfinished
<1>5. ASSUME NEW s \in Ranks
      PROVE  /\ done'[s] => fut'[s] = "ready" \/ pc'[s] = "threw"
             /\ \A k \in 1 .. Len(sent'[s]) : sent'[s][k] => fut'[s] = "ready"
             /\ \A k \in 1 .. Len(sent'[s]) :
                  k < Len(sent'[s]) \/ pc'[s] = "wait" => Unfinished(k)'
             /\ pc'[s] \in {"gather", "returned"} => Len(sent'[s]) >= 1
  <2>1. CASE s = r
    <3>1. \A k \in 1 .. Len(sent[s]) : Unfinished(k)
      BY <2>1 DEF RoundsInv
    <3>2. \A k \in 1 .. Len(sent'[s]) : sent'[s][k] => fut'[s] = "ready"
      BY <1>1, <2>1 DEF RoundsInv
    <3>3. \A k \in 1 .. Len(sent'[s]) : k < Len(sent'[s]) => Unfinished(k)'
      BY <1>1, <1>4, <2>1, <3>1
    <3> QED BY <1>1, <1>2, <2>1, <3>2, <3>3
  <2>2. CASE s # r
    <3>1. sent'[s] = sent[s] /\ pc'[s] = pc[s]
      BY <1>1, <1>2, <2>2
    <3>2. \A k \in 1 .. Len(sent'[s]) :
            k < Len(sent'[s]) \/ pc'[s] = "wait" => Unfinished(k)'
      BY <1>1, <1>4, <3>1 DEF RoundsInv
    <3> QED BY <3>1, <3>2 DEF RoundsInv
  <2> QED BY <2>1, <2>2
<1>6. ASSUME NEW s \in Ranks, pc'[s] = "returned", NEW q \in Ranks
      PROVE  Len(sent'[q]) >= Len(sent'[s]) /\ sent'[q][Len(sent'[s])]
  <2>1. s # r /\ pc[s] = "returned" /\ sent'[s] = sent[s]
    BY <1>1, <1>2, <1>6
  <2>2. Len(sent[q]) >= Len(sent[s]) /\ sent[q][Len(sent[s])] /\ Len(sent[s]) >= 1
    BY <2>1 DEF RoundsInv
  <2> QED BY <1>1, <2>1, <2>2
<1> QED BY <1>3, <1>5, <1>6 DEF RoundsInv

\* Every step of SyncWait keeps the invariant.
LEMMA NextRounds == RoundsInv /\ [Next]_vars => RoundsInv'
<1> SUFFICES ASSUME RoundsInv, [Next]_vars PROVE RoundsInv'
  OBVIOUS
<1>0. TypeOK
  BY DEF RoundsInv
<1>1. ASSUME NEW r \in Ranks, Work(r) PROVE RoundsInv'
  <2>1. PICK f \in {"ready", "failed"} : fut' = [fut EXCEPT ![r] = f]
    BY <1>1 DEF Work, FuncReturns, FuncThrows
  <2>2. fut[r] = "running" /\ UNCHANGED <<done, pc, sent>>
    BY <1>1 DEF Work, FuncReturns, FuncThrows
  <2>3. \A s \in Ranks : fut[s] = "ready" => fut'[s] = "ready"
    BY <1>0, <2>1, <2>2 DEF TypeOK
  <2>4. TypeOK'
    BY <1>0, <2>1, <2>2 DEF TypeOK
  <2> QED BY <2>2, <2>3, <2>4 DEF RoundsInv, Unfinished
<1>2. ASSUME NEW r \in Ranks, PollReady(r) PROVE RoundsInv'
  <2>1. done' \in [Ranks -> BOOLEAN]
    BY <1>0, <1>2 DEF PollReady, TypeOK
  <2>2. \A s \in Ranks : done'[s] => fut[s] = "ready" \/ pc[s] = "threw"
    BY <1>0, <1>2 DEF PollReady, TypeOK, RoundsInv
  <2> QED BY <1>2, <2>1, <2>2, PostRounds DEF PollReady
<1>3. ASSUME NEW r \in Ranks, PollThrows(r) PROVE RoundsInv'
  <2>1. TypeOK' /\ UNCHANGED <<fut, sent>>
    BY <1>0, <1>3 DEF PollThrows, TypeOK
  <2>2. /\ pc[r] = "wait" /\ pc'[r] = "threw"
        /\ \A s \in Ranks \ {r} : pc'[s] = pc[s] /\ done'[s] = done[s]
    BY <1>0, <1>3 DEF PollThrows, TypeOK
  <2> QED BY <2>1, <2>2 DEF RoundsInv, Unfinished
<1>4. ASSUME NEW r \in Ranks, PollTimeout(r) PROVE RoundsInv'
  BY <1>0, <1>4, PostRounds DEF PollTimeout, TypeOK, RoundsInv
<1>5. ASSUME NEW r \in Ranks, Repeat(r) PROVE RoundsInv'
  BY <1>0, <1>5, PostRounds DEF Repeat, TypeOK, RoundsInv
<1>6. ASSUME NEW r \in Ranks, Gather(r) PROVE RoundsInv'
  <2> DEFINE k == Len(sent[r])
  <2>1. UNCHANGED <<fut, done, sent>> /\ \A s \in Ranks \ {r} : pc'[s] = pc[s]
    BY <1>0, <1>6 DEF Gather, TypeOK
  <2>2. TypeOK'
    BY <1>0, <1>6 DEF Gather, TypeOK
  <2>3. pc[r] = "gather" /\ \A s \in Ranks : Len(sent[s]) >= k
    BY <1>6 DEF Gather, AllPosted
  <2>4. \/ pc'[r] = "returned" /\ \A s \in Ranks : sent[s][k]
        \/ pc'[r] = "wait" /\ Unfinished(k)
    BY <1>0, <1>6, <2>3 DEF Gather, TypeOK, Unfinished
  <2>5. \A j \in Nat : Unfinished(j)' <=> Unfinished(j)
    BY <2>1 DEF Unfinished
  <2>6. \A j \in 1 .. Len(sent[r]) : j < Len(sent[r]) \/ j = k
    BY <1>0 DEF TypeOK
  <2> QED BY <2>1, <2>2, <2>3, <2>4, <2>5, <2>6 DEF RoundsInv
<1>7. ASSUME NEW r \in Ranks, GatherTimeout(r) PROVE RoundsInv'
  <2>1. TypeOK' /\ UNCHANGED <<fut, done, sent>>
    BY <1>0, <1>7 DEF GatherTimeout, TypeOK
  <2>2. pc'[r] = "threw" /\ \A s \in Ranks \ {r} : pc'[s] = pc[s]
    BY <1>0, <1>7 DEF GatherTimeout, TypeOK
  <2> QED BY <2>1, <2>2 DEF RoundsInv, Unfinished
<1>8. CASE UNCHANGED vars
  BY <1>8 DEF vars, RoundsInv, TypeOK, Unfinished
<1> QED BY <1>1, <1>2, <1>3, <1>4, <1>5, <1>6, <1>7, <1>8
        DEF Next, Poll, Finished

\* The inductive invariant holds in every reachable state of SyncWait
\* (sync.h:41-91).
THEOREM RoundsInvariant == Spec => []RoundsInv
BY InitRounds, NextRounds, PTL DEF Spec

\* SyncWait's types are right in every reachable state.
THEOREM TypeCorrect == Spec => []TypeOK
<1>1. RoundsInv => TypeOK
  BY DEF RoundsInv
<1> QED BY <1>1, RoundsInvariant, PTL

\* All ranks leave SyncWait in the same round of AllGather: nobody waits in a
\* round that its peers never join (sync.h:76-85).
THEOREM LeaveInSameRound == Spec => []SameRound
<1>1. RoundsInv => SameRound
  <2> SUFFICES ASSUME RoundsInv, NEW r \in Ranks, NEW s \in Ranks, pc[r] = "returned"
               PROVE  Len(sent[s]) = Len(sent[r])
    BY DEF SameRound
  <2>1. Len(sent[s]) \in Nat /\ Len(sent[r]) \in Nat
    BY DEF RoundsInv, TypeOK
  <2>2. Len(sent[s]) >= Len(sent[r]) /\ Len(sent[r]) >= 1 /\ ~Unfinished(Len(sent[r]))
    BY DEF RoundsInv, Unfinished
  <2>3. Len(sent[s]) > Len(sent[r]) => Unfinished(Len(sent[r]))
    BY <2>1, <2>2 DEF RoundsInv
  <2> QED BY <2>1, <2>2, <2>3
<1> QED BY <1>1, RoundsInvariant, PTL

\* When the function threw at one rank, no rank returns normally (sync.h:68-72).
THEOREM ThrowStopsAll == Spec => []FailStop
<1>1. RoundsInv => FailStop
  <2> SUFFICES ASSUME RoundsInv, NEW r \in Ranks, fut[r] = "failed",
                      NEW s \in Ranks, pc[s] = "returned"
               PROVE  FALSE
    BY DEF FailStop
  <2>1. Len(sent[s]) \in 1 .. Len(sent[r]) /\ sent[r][Len(sent[s])]
    BY DEF RoundsInv, TypeOK
  <2> QED BY <2>1 DEF RoundsInv
<1> QED BY <1>1, RoundsInvariant, PTL

\* SyncWait implements the rendezvous: no rank gets past the call before the
\* function has returned at every rank (sync.h:41-91).
THEOREM SyncWaitRefines == Spec => ImplementsRendezvous
<1>1. Init => Promise!Init
  BY DEF Init, Promise!Init
<1>2. RoundsInv /\ [Next]_vars => [Promise!Next]_(Promise!vars)
  <2> SUFFICES ASSUME RoundsInv, [Next]_vars
               PROVE  Promise!Next \/ UNCHANGED Promise!vars
    OBVIOUS
  <2>0. TypeOK
    BY DEF RoundsInv
  <2>1. ASSUME NEW r \in Ranks, FuncReturns(r) PROVE Promise!Finish(r)
    BY <2>0, <2>1 DEF FuncReturns, TypeOK, Promise!Finish
  <2>2. ASSUME NEW r \in Ranks, FuncThrows(r) PROVE UNCHANGED Promise!vars
    BY <2>0, <2>2 DEF FuncThrows, TypeOK, Promise!vars
  <2>3. ASSUME NEW r \in Ranks, Poll(r) \/ GatherTimeout(r)
        PROVE  UNCHANGED Promise!vars
    BY <2>0, <2>3 DEF Poll, PollReady, PollThrows, PollTimeout, Repeat, PostFlag,
                      GatherTimeout, TypeOK, Promise!vars
  <2>4. ASSUME NEW r \in Ranks, Gather(r)
        PROVE  Promise!Return(r) \/ UNCHANGED Promise!vars
    <3>1. CASE \A s \in Ranks : sent[s][Len(sent[r])]
      <4>1. \A s \in Ranks : Len(sent[r]) \in 1 .. Len(sent[s])
        BY <2>0, <2>4 DEF Gather, AllPosted, RoundsInv, TypeOK
      <4>2. \A s \in Ranks : fut[s] = "ready"
        BY <3>1, <4>1 DEF RoundsInv
      <4> QED BY <2>0, <2>4, <3>1, <4>2 DEF Gather, TypeOK, Promise!Return
    <3>2. CASE ~ \A s \in Ranks : sent[s][Len(sent[r])]
      BY <2>0, <2>4, <3>2 DEF Gather, TypeOK, Promise!vars
    <3> QED BY <3>1, <3>2
  <2>5. CASE UNCHANGED vars
    BY <2>5 DEF vars, Promise!vars
  <2> QED BY <2>1, <2>2, <2>3, <2>4, <2>5 DEF Next, Work, Finished, Promise!Next
<1> QED BY <1>1, <1>2, RoundsInvariant, PTL DEF Spec, ImplementsRendezvous, Promise!Spec

=============================================================================
