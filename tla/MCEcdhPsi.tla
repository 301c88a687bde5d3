----------------------------- MODULE MCEcdhPsi ------------------------------
(* Instances of EcdhPsi.  The receiver is rank 0.  Keys are small numbers;   *)
(* the lists differ, as the parties of a task with equal lists take a        *)
(* shortcut in Init.                                                         *)
EXTENDS EcdhPsi, TLC

\* Three items against one, batches of two: the longer list has a full and a
\* partial batch.
N31 == [p \in Party |-> IF p = 0 THEN 3 ELSE 1]
N13 == [p \in Party |-> IF p = 0 THEN 1 ELSE 3]
N32 == [p \in Party |-> IF p = 0 THEN 3 ELSE 2]

\* Three batches from each party, the empty one included: what it takes for the
\* two MaskPeer threads to block each other if both were throttled.
N33 == [p \in Party |-> 3]

\* Key 3 is at position 1 of the first list and at position 0 of the second;
\* key 5 at positions 2 and 1.
MCKey == (0 :> (0 :> 1 @@ 1 :> 3 @@ 2 :> 5))
              @@ (1 :> (0 :> 3 @@ 1 :> 5 @@ 2 :> 8))
MCDup == (0 :> (0 :> 0 @@ 1 :> 2 @@ 2 :> 1))
      @@ (1 :> (0 :> 1 @@ 1 :> 0 @@ 2 :> 2))

\* Key 5 is the receiver's first item, so that a single item is a common one.
MCKeyCommon == [MCKey EXCEPT ![0] = 0 :> 5 @@ 1 :> 1 @@ 2 :> 3]

Both     == {0, 1}
Receiver == {0}
=============================================================================
