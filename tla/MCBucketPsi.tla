---------------------------- MODULE MCBucketPsi -----------------------------
(* Instances of BucketPsi.  The receiver is rank 0.  With buckets of one     *)
(* item, the number of buckets is the length of the longer list.             *)
EXTENDS BucketPsi, TLC

Lists(a, da, b, db) == [key |-> 0 :> a @@ 1 :> b, dup |-> 0 :> da @@ 1 :> db]

\* Bucket 0 is empty at the receiver; keys 1 and 2 are common, in buckets 1 and 2
FirstNull == Lists(<<1, 2, 4>>, <<0, 2, 0>>, <<2, 3, 1>>, <<1, 0, 0>>)
\* The last of two buckets is empty at the receiver
LastNull == Lists(<<2>>, <<1>>, <<1, 2>>, <<0, 2>>)
\* The same keys, each once: as many as the index writer caches, more, and fewer
Equal == Lists(<<1, 2>>, <<0, 0>>, <<1, 2>>, <<0, 0>>)
Equal3 == Lists(<<1, 2, 3>>, <<0, 0, 0>>, <<3, 1, 2>>, <<0, 0, 0>>)
Equal1 == Lists(<<1>>, <<0>>, <<1>>, <<0>>)
\* One party has nothing
NoItems == Lists(<<1, 2>>, <<0, 0>>, <<>>, <<>>)
\* One bucket
One == Lists(<<1>>, <<0>>, <<1>>, <<1>>)

MCInputs == {FirstNull, LastNull, Equal, Equal3, Equal1, NoItems, One}
MCInputsResume == {FirstNull}
MCConfigs == [protocol : {"KKRT", "RR22"}, broadcast : BOOLEAN, recovery : BOOLEAN]
MCRecovery == {c \in MCConfigs : c.recovery}
=============================================================================
