----------------------------- MODULE SimplePir ------------------------------
(* SimplePIR, experiment/pir/simplepir/: the database is a square matrix     *)
(* over Z_p, a query an LWE encryption of a unit vector under a fresh secret,*)
(* and the hint (database times the public matrix) takes the secret's part   *)
(* out of the answer.  Words are Word wide, as uint64_t is in the code.      *)
EXTENDS Integers, Sequences, FiniteSetsExt

CONSTANTS
  Word,   \* 2^64 of the code; q^2 here, as for the modulus 2^32 of the tests
  Tasks   \* [proto |-> "simplepir", q, p, rows: sqrt(N), dimension, rand: the
          \*  PRG stream of the seed, db: [row -> [column -> Z_p]], secrets: Seqs
          \*  that s_ is drawn from, errors: set of errors, queries: bound]

VARIABLES task, pc, net, mem

vars == <<task, pc, net, mem>>

Rows == 0 .. task.rows - 1
Dims == 0 .. task.dimension - 1
Delta == task.q \div task.p

\* InnerProductModq: its 128-bit sum does not overflow
InnerProductModq(row, col) == MapThenSumSet(LAMBDA i : row[i] * col[i], DOMAIN row) % task.q

\* Both sides expand the seed; the client stores the transpose
ClientLweMatrix == [i \in Rows |-> [j \in Dims |-> task.rand[j * task.rows + i + 1] % task.q]]
ServerLweMatrix == [i \in Dims |-> [j \in Rows |-> task.rand[i * task.rows + j + 1] % task.q]]

Init ==
  /\ task \in Tasks
  /\ pc = "hint"
  /\ net = << >>
  /\ mem = [hint |-> << >>, s |-> << >>, row |-> 0, asked |-> 0, index |-> 0, got |-> << >>]

\* SetDatabase, GenerateLweMatrix and GetHint: the matrix product, row by row
GetHint ==
  /\ pc = "hint"
  /\ net' = [x \in 0 .. task.rows * task.dimension - 1 |->
               InnerProductModq(task.db[x \div task.dimension], ServerLweMatrix[x % task.dimension])]
  /\ pc' = "setup" /\ UNCHANGED <<task, mem>>

Setup ==
  /\ pc = "setup"
  /\ mem' = [mem EXCEPT !.hint = [i \in Rows |-> [j \in Dims |-> net[i * task.dimension + j]]]]
  /\ net' = << >> /\ pc' = "idle" /\ UNCHANGED task

\* Query: A s + e + delta u, where a negative error is a great word
Query(index, s, e) ==
  LET col == index % task.rows
      term(i) == InnerProductModq(ClientLweMatrix[i], s) + (IF i = col THEN Delta ELSE 0)
  IN
  /\ pc = "idle" /\ mem.asked < task.queries
  /\ net' = [i \in Rows |-> ((term(i) + e[i]) % Word) % task.q]
  /\ mem' = [mem EXCEPT !.s = s, !.row = index \div task.rows, !.asked = @ + 1, !.index = index]
  /\ pc' = "asked" /\ UNCHANGED task

Answer ==
  /\ pc = "asked"
  /\ net' = [i \in Rows |-> InnerProductModq(task.db[i], net)]
  /\ pc' = "answered" /\ UNCHANGED <<task, mem>>

\* Z_q to Z_p: to the nearest multiple of delta
Round(phase) ==
  (IF phase % Delta >= Delta \div 2 THEN (phase \div Delta) + 1 ELSE phase \div Delta) % task.p

\* Recover: the difference wraps at the word, not at q
Recover ==
  /\ pc = "answered"
  /\ mem' = [mem EXCEPT
       !.got = << Round((net[mem.row] - InnerProductModq(mem.hint[mem.row], mem.s)) % Word) >>]
  /\ net' = << >> /\ pc' = "idle" /\ UNCHANGED task

Terminated == pc = "idle" /\ mem.asked = task.queries /\ UNCHANGED vars

Next ==
  \/ GetHint \/ Setup \/ Answer \/ Recover
  \/ \E index \in 0 .. task.rows * task.rows - 1, s \in task.secrets, e \in [Rows -> task.errors] :
       Query(index, s, e)
  \/ Terminated

Spec == Init /\ [][Next]_vars

-----------------------------------------------------------------------------
(* Recover (client.cc:82-90) gives what the server's GetValue has at the     *)
(* index, for every secret and every error the noise budget allows: although *)
(* the phase is reduced at the word and not at q, the q - 1 multiples of q   *)
(* that a wrapped difference keeps are multiples of p times delta but for    *)
(* (q mod p)(q mod p - 1), which with the error stays below delta / 2.  This *)
(* holds because the word is q^2, as with q = 2^32; the constructor takes    *)
(* any q > 0, and for another one, q = 2^30 for instance, the multiples kept *)
(* may shift the result, of which nothing is claimed here.                   *)
SimplePirExact ==
  (pc = "idle" /\ mem.asked > 0) =>
    mem.got = << task.db[mem.index \div task.rows][mem.index % task.rows] >>
=============================================================================
