----------------------------- MODULE MCJoinPsi ------------------------------
(* Inner joins whose two result files, read side by side, are not the join.  *)
(* A table is a sequence of rows, a row of cells, a cell of characters.      *)
EXTENDS JoinPsi

Join(r, s, ur, us, kr, ks) ==
  [proto |-> "join", rows |-> [rcv |-> r, snd |-> s], unique |-> [rcv |-> ur, snd |-> us],
   keyCol |-> [rcv |-> kr, snd |-> ks], type |-> "inner", left |-> "snd", broadcast |-> TRUE,
   align |-> TRUE, check |-> TRUE, edit |-> <<>>]
Row2(a, b) == << <<a>>, <<b>> >>

\* A key with two rows at one party and with two at the other.
Repeated == Join(<<Row2(1, 3), Row2(1, 5)>>, <<Row2(7, 2), Row2(6, 1), Row2(4, 1)>>,
                 FALSE, FALSE, 1, 2)
\* Unique keys; the sender's key is not its first column.
OtherColumn == Join(<<Row2(2, 9), Row2(1, 8), Row2(4, 7)>>, <<Row2(9, 1), Row2(8, 2)>>,
                    TRUE, TRUE, 1, 2)
\* The keys "1", "23" and "12", "3".
Concatenated == Join(<< << <<1>>, <<1>> >>, << <<2, 3>>, <<1>> >> >>,
                     << << <<1, 2>>, <<1>> >>, << <<3>>, <<2>> >> >>, FALSE, FALSE, 1, 1)

MCTasks == {Repeated, OtherColumn, Concatenated}
=============================================================================
