------------------------------- MODULE PpsPir -------------------------------
(* Two-server PIR from puncturable pseudorandom sets, experiment/pir/pps/:   *)
(* the offline server gives one parity per set (the hint), the online server *)
(* the parity of a set punctured at the index.  With one query the sets are  *)
(* the shifts of one set; with many, each query replaces the set it used by  *)
(* a new one that holds the index.  A bit of the database is the set of its  *)
(* index, XOR is symmetric difference.                                       *)
EXTENDS Integers, Sequences, SequencesExt, FiniteSets

CONSTANTS
  Tasks   \* [proto |-> "pps", multi: BOOLEAN, n: universe_size_, s: set_size_,
          \*  m: M() or MM(), leaf: [keys -> [positions -> 0 .. n - 1]] the PRF,
          \*  asks: set of indices, queries: bound on the queries]

VARIABLES task, pc, net, mem

vars == <<task, pc, net, mem>>

Abort == -1
Universe == 0 .. task.n - 1
ModuleAdd(a, b) == (a + b) % task.n
ModuleSub(a, b) == (a - b) % task.n
XorAll(f) == {w \in UNION {f[x] : x \in DOMAIN f} : Cardinality({x \in DOMAIN f : w \in f[x]}) % 2 = 1}

-----------------------------------------------------------------------------
\* Puncturable sets, ggm_pset.cc.  A node of the GGM tree of key k is its depth
\* and number there; only its descendants can be computed from it.

Height == CHOOSE h \in 0 .. 8 : 2 ^ h >= task.s /\ \A g \in 0 .. h - 1 : 2 ^ g < task.s
None == << >>
Node(k, depth, i) == [key |-> k, depth |-> depth, at |-> i]
AESPRG(node, bit) == Node(node.key, node.depth + 1, 2 * node.at + bit)
Sibling(i) == IF i % 2 = 0 THEN i + 1 ELSE i - 1
Ancestor(pos, depth) == pos \div 2 ^ (Height - depth)
Positions == 0 .. task.s - 1

\* LemireTrick on the value of a leaf
Value(leaf) == task.leaf[leaf.key][leaf.at]

\* EvalMap and Eval of a key: GGMTree::Gen gives every leaf
Eval(k) == {Value(Node(k, Height, i)) : i \in Positions}

\* Punc: the siblings of the nodes on the path to i
Punc(i, k, delta) ==
  LET pos == CHOOSE p \in Positions : Value(Node(k, Height, p)) = i IN
  [pos |-> pos, delta |-> delta,
   k |-> [d \in 1 .. Height |-> Node(k, d, Sibling(Ancestor(pos, d)))]]

\* Eval of a punctured key, one level of the tree after the other
EvalPunc(p) ==
  LET level[d \in 0 .. Height] ==
        [i \in 0 .. 2 ^ d - 1 |->
           IF d > 0 /\ i = Sibling(Ancestor(p.pos, d)) THEN p.k[d]
           ELSE IF d = 0 \/ level[d - 1][i \div 2] = None THEN None
           ELSE AESPRG(level[d - 1][i \div 2], i % 2)]
  IN {level[Height][i] : i \in Positions \ {p.pos}}

\* Gen draws until the set has its size; here the keys are drawn in order
GoodKeys == {k \in DOMAIN task.leaf : Cardinality(Eval(k)) = task.s}
Gen(drawn) == CHOOSE k \in GoodKeys : k > drawn /\ \A l \in GoodKeys : l > drawn => k <= l

-----------------------------------------------------------------------------
\* The servers, server.cc

Parity(set, delta) == XorAll([x \in set |-> {ModuleAdd(x, delta)}])

Answer(p) ==
  LET leaves == EvalPunc(p) IN
  IF None \in leaves THEN {Abort} ELSE Parity({Value(l) : l \in leaves}, p.delta)

AnswerMulti(l, r) ==
  [left |-> Answer(l),
   right |-> IF l.pos = r.pos /\ l.k[1] = r.k[1] THEN Answer(l) ELSE Answer(r)]

-----------------------------------------------------------------------------
Init ==
  /\ task \in Tasks
  /\ pc = "setup"
  /\ net = << >>
  /\ mem = [ck |-> << >>, v |-> << >>, drawn |-> 0, h |-> << >>, asked |-> 0,
            param |-> [i |-> 0, j |-> Abort, b |-> FALSE], got |-> << >>]

\* Setup: one key and m shifts (kept in order), or m keys without a shift;
\* ck[j] is the j-th set of the client
Setup ==
  /\ pc = "setup"
  /\ IF task.multi
     THEN LET keys[j \in 0 .. task.m] == IF j = 0 THEN 0 ELSE Gen(keys[j - 1]) IN
          mem' = [mem EXCEPT !.ck = [j \in 1 .. task.m |-> [k |-> keys[j], delta |-> 0]],
                             !.v = [j \in 1 .. task.m |-> Eval(keys[j])],
                             !.drawn = keys[task.m]]
     ELSE \E deltas \in SUBSET Universe :
            /\ Cardinality(deltas) = task.m
            /\ LET d == SetToSortSeq(deltas, <) IN
               mem' = [mem EXCEPT !.ck = [j \in 1 .. task.m |-> [k |-> Gen(0), delta |-> d[j]]],
                                  !.v = [j \in 1 .. task.m |-> Eval(Gen(0))],
                                  !.drawn = Gen(0)]
  /\ net' = mem'.ck
  /\ pc' = "hint" /\ UNCHANGED task

\* Hint, and the client receives it
Hint ==
  /\ pc = "hint"
  /\ mem' = [mem EXCEPT !.h = [j \in DOMAIN net |-> Parity(Eval(net[j].k), net[j].delta)]]
  /\ net' = << >> /\ pc' = "idle" /\ UNCHANGED task

\* The first set that has i
Has(j, i) == ModuleSub(i, mem.ck[j].delta) \in mem.v[j]
Find(i) ==
  LET js == {j \in DOMAIN mem.ck : Has(j, i)} IN
  IF js = {} THEN Abort ELSE CHOOSE j \in js : \A l \in js : j <= l

\* Query of the single-query client; first and other are what it takes from its
\* set by chance, b the coin that spoils the query
Query(i, first, other, b) ==
  LET j == Find(i)
      k == mem.ck[1].k
      delta == IF j = Abort THEN ModuleSub(i, first) ELSE mem.ck[j].delta
  IN
  /\ pc = "idle" /\ ~task.multi /\ mem.asked < task.queries
  /\ first \in Eval(k) /\ other \in Eval(k)
  /\ net' = << Punc(IF b THEN other ELSE ModuleSub(i, delta), k, delta) >>
  /\ mem' = [mem EXCEPT !.param = [i |-> i, j |-> j, b |-> b], !.asked = @ + 1]
  /\ pc' = "asked" /\ UNCHANGED task

\* Query of the multi-query client: a new set that has i goes to the left, the
\* set it replaces to the right; with the coin b the new set goes to both
QueryMulti(i, first, other, b) ==
  LET k_new == Gen(mem.drawn)
      delta == ModuleSub(i, first)
      j == IF b THEN Abort ELSE Find(i)
      i_punc == IF b THEN ModuleAdd(other, delta) ELSE i
      left == Punc(ModuleSub(i_punc, delta), k_new, delta)
  IN
  /\ pc = "idle" /\ task.multi /\ mem.asked < task.queries
  /\ first \in Eval(k_new) /\ (IF b THEN other \in Eval(k_new) ELSE other = first)
  /\ IF j = Abort
     THEN /\ net' = <<left, left>>
          /\ mem' = [mem EXCEPT !.param = [i |-> i, j |-> j, b |-> b], !.asked = @ + 1, !.drawn = k_new]
     ELSE LET right == mem.ck[j] IN
          /\ net' = <<left, Punc(ModuleSub(i_punc, right.delta), right.k, right.delta)>>
          /\ mem' = [mem EXCEPT !.param = [i |-> i, j |-> j, b |-> b], !.asked = @ + 1,
                                !.drawn = k_new, !.v[j] = Eval(k_new),
                                !.ck[j] = [k |-> k_new, delta |-> delta]]
  /\ pc' = "asked" /\ UNCHANGED task

\* The online server
Reply ==
  /\ pc = "asked"
  /\ net' = << IF task.multi THEN AnswerMulti(net[1], net[2]) ELSE Answer(net[1]) >>
  /\ pc' = "answered" /\ UNCHANGED <<task, mem>>

Xor(a, b) == (a \ b) \cup (b \ a)

Reconstruct ==
  LET p == mem.param IN
  /\ pc = "answered" /\ ~task.multi
  /\ mem' = [mem EXCEPT !.got = IF p.b \/ p.j = Abort THEN << >> ELSE << Xor(net[1], mem.h[p.j]) >>]
  /\ net' = << >> /\ pc' = "idle" /\ UNCHANGED task

\* The hint of the set used becomes that of the new set
ReconstructMulti ==
  LET p == mem.param
      r == Xor(net[1].right, mem.h[p.j]) IN
  /\ pc = "answered" /\ task.multi
  /\ mem' = IF p.j = Abort THEN [mem EXCEPT !.got = << >>]
            ELSE [mem EXCEPT !.got = << r >>, !.h[p.j] = Xor(net[1].left, r)]
  /\ net' = << >> /\ pc' = "idle" /\ UNCHANGED task

Terminated == pc = "idle" /\ mem.asked = task.queries /\ UNCHANGED vars

Next ==
  \/ Setup \/ Hint \/ Reply \/ Reconstruct \/ ReconstructMulti
  \/ \E i \in task.asks, first, other \in Universe, b \in BOOLEAN :
       Query(i, first, other, b) \/ QueryMulti(i, first, other, b)
  \/ Terminated

Spec == Init /\ [][Next]_vars

-----------------------------------------------------------------------------
(* However many queries came before, a bit that Reconstruct gives            *)
(* (client.cc:87-95, 168-178) is the bit of the database at the index; it    *)
(* gives none only when the coin said so or no set of the client has the     *)
(* index.  For this each hint is, between queries, the parity of the set the *)
(* client has at its place, which the client changes when it asks and the    *)
(* hint only when the answer is back.                                        *)
PpsExact ==
  (pc = "idle" /\ mem.asked > 0) =>
    /\ \A j \in DOMAIN mem.ck : mem.h[j] = {ModuleAdd(x, mem.ck[j].delta) : x \in mem.v[j]}
    /\ mem.got # << >> => mem.got = << {mem.param.i} >>
    /\ mem.got = << >> => mem.param.b \/ Find(mem.param.i) = Abort
=============================================================================
