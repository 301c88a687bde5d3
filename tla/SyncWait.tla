------------------------------ MODULE SyncWait ------------------------------
(* SyncWait (psi/utils/sync.h): the caller's function runs in a thread of    *)
(* its own; the calling thread polls it and, every five seconds, joins an    *)
(* AllGather of "finished" / "unfinished" flags with its peers, on a link    *)
(* context spawned for the purpose.  It leaves when a round has no           *)
(* "unfinished" flag.  An exception of the function is rethrown at once,     *)
(* without a message to the peers, who then run into the link's timeout.     *)
EXTENDS Naturals, Sequences

CONSTANTS Ranks,      \* the parties
          MaxRounds   \* bound: rounds a rank joins while its function runs

ASSUME MaxRoundsAssumption == MaxRounds \in Nat

VARIABLES
  fut,    \* fut[r]: state of the function's future
  done,   \* done[r]: the local flag of the same name
  pc,     \* pc[r]: where the calling thread is
  sent    \* sent[r]: the flags r gave to AllGather, TRUE for p_finished;
          \* AllGather round k of the spawned context carries sent[r][k]

vars == <<fut, done, pc, sent>>

Init ==
  /\ fut  = [r \in Ranks |-> "running"]
  /\ done = [r \in Ranks |-> FALSE]
  /\ pc   = [r \in Ranks |-> "wait"]
  /\ sent = [r \in Ranks |-> <<>>]

-----------------------------------------------------------------------------
(* The function, in its own thread, returns or throws. *)

FuncReturns(r) ==
  /\ fut[r] = "running"
  /\ fut' = [fut EXCEPT ![r] = "ready"]
  /\ UNCHANGED <<done, pc, sent>>

FuncThrows(r) ==
  /\ fut[r] = "running"
  /\ fut' = [fut EXCEPT ![r] = "failed"]
  /\ UNCHANGED <<done, pc, sent>>

-----------------------------------------------------------------------------
(* One turn of the polling loop up to the flags being sent. *)

PostFlag(r, flag) ==
  /\ sent' = [sent EXCEPT ![r] = Append(@, flag)]
  /\ pc'   = [pc EXCEPT ![r] = "gather"]

\* wait_for returns ready and get() returns normally
PollReady(r) ==
  /\ pc[r] = "wait" /\ ~done[r] /\ fut[r] = "ready"
  /\ done' = [done EXCEPT ![r] = TRUE]
  /\ PostFlag(r, TRUE)
  /\ UNCHANGED fut

\* the exception is swallowed and the stage counts as finished
PollThrowsSwallowed(r) ==
  /\ pc[r] = "wait" /\ ~done[r] /\ fut[r] = "failed"
  /\ done' = [done EXCEPT ![r] = TRUE]
  /\ PostFlag(r, TRUE)
  /\ UNCHANGED fut

\* wait_for returns ready and get() rethrows: the rank leaves without a flag
PollThrows(r) ==
  /\ pc[r] = "wait" /\ ~done[r] /\ fut[r] = "failed"
  /\ done' = [done EXCEPT ![r] = TRUE]
  /\ pc' = [pc EXCEPT ![r] = "threw"]
  /\ UNCHANGED <<fut, sent>>

\* five seconds pass
PollTimeout(r) ==
  /\ pc[r] = "wait" /\ ~done[r] /\ fut[r] = "running"
  /\ Len(sent[r]) < MaxRounds
  /\ PostFlag(r, FALSE)
  /\ UNCHANGED <<fut, done>>

\* a rank that is done stops taking part
NoRepeat(r) == FALSE /\ UNCHANGED vars

\* the function was done in an earlier round
Repeat(r) ==
  /\ pc[r] = "wait" /\ done[r]
  /\ PostFlag(r, TRUE)
  /\ UNCHANGED <<fut, done>>

-----------------------------------------------------------------------------
(* The other half of AllGather: every flag of the round has arrived. *)

AllPosted(k) == \A s \in Ranks : Len(sent[s]) >= k

\* any_of instead of none_of
GatherAny(r) ==
  LET k == Len(sent[r]) IN
  /\ pc[r] = "gather" /\ AllPosted(k)
  /\ pc' = [pc EXCEPT ![r] = IF \E s \in Ranks : sent[s][k] THEN "returned" ELSE "wait"]
  /\ UNCHANGED <<fut, done, sent>>

\* the newest flag of each rank instead of the flag of this round
GatherNewest(r) ==
  /\ pc[r] = "gather" /\ AllPosted(Len(sent[r]))
  /\ pc' = [pc EXCEPT ![r] = IF \A s \in Ranks : sent[s][Len(sent[s])] THEN "returned" ELSE "wait"]
  /\ UNCHANGED <<fut, done, sent>>

Gather(r) ==
  LET k == Len(sent[r]) IN
  /\ pc[r] = "gather" /\ AllPosted(k)
  /\ pc' = [pc EXCEPT ![r] = IF \A s \in Ranks : sent[s][k] THEN "returned" ELSE "wait"]
  /\ UNCHANGED <<fut, done, sent>>

\* the link's receive timeout: a peer has left before posting this round
GatherTimeout(r) ==
  /\ pc[r] = "gather"
  /\ \E s \in Ranks : pc[s] = "threw" /\ Len(sent[s]) < Len(sent[r])
  /\ pc' = [pc EXCEPT ![r] = "threw"]
  /\ UNCHANGED <<fut, done, sent>>

-----------------------------------------------------------------------------

Work(r) == FuncReturns(r) \/ FuncThrows(r)

Poll(r) == PollReady(r) \/ PollThrows(r) \/ PollTimeout(r) \/ Repeat(r)

Left(r) == pc[r] \in {"returned", "threw"}

\* Everybody has left and no function runs any more (the future's destructor
\* joins the thread)
Finished ==
  /\ \A r \in Ranks : Left(r) /\ fut[r] # "running"
  /\ UNCHANGED vars

Next ==
  \/ \E r \in Ranks : \/ Work(r) \/ Poll(r)
                      \/ Gather(r) \/ GatherTimeout(r)
  \/ Finished

Spec == Init /\ [][Next]_vars

\* The function ends, the polling thread is scheduled, the link delivers or
\* times out.
Fairness ==
  \A r \in Ranks : /\ WF_vars(Work(r))
                   /\ WF_vars(Poll(r))
                   /\ WF_vars(Gather(r))
                   /\ WF_vars(GatherTimeout(r))

FairSpec == Spec /\ Fairness

-----------------------------------------------------------------------------

\* Type invariant of the future, the done flag, the loop and the flags given to
\* AllGather (sync.h:41-91).
TypeOK ==
  /\ fut  \in [Ranks -> {"running", "ready", "failed"}]
  /\ done \in [Ranks -> BOOLEAN]
  /\ pc   \in [Ranks -> {"wait", "gather", "returned", "threw"}]
  /\ sent \in [Ranks -> Seq(BOOLEAN)]

\* Every rank that returns does so in the same AllGather round, and nobody has
\* started a later round: a rank that went on to round k+1 would wait for
\* flags that its peers never send (sync.h:76-85).
SameRound ==
  \A r, s \in Ranks : pc[r] = "returned" => Len(sent[s]) = Len(sent[r])

\* When the function threw at one rank, no rank returns normally, although
\* nobody is told about the exception (sync.h:68-72).
FailStop ==
  (\E r \in Ranks : fut[r] = "failed") => \A s \in Ranks : pc[s] # "returned"

\* The ranks agree on the outcome in the end: all of them return, or none does
\* and all of them throw.  The silent exit of sync.h:71 is noticed by everybody.
AgreedOutcome ==
  <>(\/ \A r \in Ranks : pc[r] = "returned"
     \/ \A r \in Ranks : pc[r] = "threw")

\* Why the above holds, as an inductive invariant.  A flag p_finished is only
\* posted by a rank whose function has returned (sync.h:68-78).  A rank goes
\* beyond round k, or is back in its loop after it, only if somebody posted
\* "unfinished" in round k; a rank that has returned saw none in its last round
\* (sync.h:80-85).
Unfinished(k) == \E s \in Ranks : Len(sent[s]) >= k /\ ~sent[s][k]

RoundsInv ==
  /\ TypeOK
  /\ \A r \in Ranks :
       /\ done[r] => fut[r] = "ready" \/ pc[r] = "threw"
       /\ \A k \in 1 .. Len(sent[r]) : sent[r][k] => fut[r] = "ready"
       /\ \A k \in 1 .. Len(sent[r]) :
            k < Len(sent[r]) \/ pc[r] = "wait" => Unfinished(k)
       /\ pc[r] \in {"gather", "returned"} => Len(sent[r]) >= 1
       /\ pc[r] = "returned" =>
            \A s \in Ranks : Len(sent[s]) >= Len(sent[r]) /\ sent[s][Len(sent[r])]

\* SyncWait implements the rendezvous it promises.
Promise == INSTANCE Rendezvous WITH
             finished <- {r \in Ranks : fut[r] = "ready"},
             returned <- {r \in Ranks : pc[r] = "returned"}

\* No rank leaves before the function has returned at every rank.
ImplementsRendezvous == Promise!Spec

=============================================================================
