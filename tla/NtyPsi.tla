------------------------------- MODULE NtyPsi -------------------------------
(* Multi-party PSI with an aided server, algorithm/nty/{nty_mp_psi,          *)
(* server_aided_psi}.cc.  Clients encode a PRF of their items for the helper, *)
(* the server encodes the sum of all those PRFs for the receiver, and the    *)
(* helper and the receiver compare their sums through the server.  With three *)
(* parties there is no client and the helper evaluates the PRF itself.       *)
(* A 128-bit word is a set of independent summands, so that XOR is symmetric *)
(* difference.                                                               *)
EXTENDS Integers, Sequences, FiniteSets

CONSTANTS
  Tasks   \* [proto |-> "nty", items: [party -> Seq(key)], broadcast: BOOLEAN]

VARIABLES task, pc, net, mem

vars == <<task, pc, net, mem>>

Parties == DOMAIN task.items
Clients == Parties \ {"server", "helper", "receiver"}

\* who evaluates a PRF under a seed of the server
Seeded == IF Clients = {} THEN {"helper"} ELSE Clients

Elements(s) == {s[i] : i \in DOMAIN s}

Word(kind, who, x) == {<<kind, who, x>>}
Xor(a, b) == (a \ b) \cup (b \ a)
XorAll(f) == {w \in UNION {f[i] : i \in DOMAIN f} : Cardinality({i \in DOMAIN f : w \in f[i]}) % 2 = 1}

Goto(t, place) == pc' = [pc EXCEPT ![t] = place]
Arrived(p, q, n) == Len(net[p][q]) >= n
Queue(nt, p, q, ms) == [nt EXCEPT ![p][q] = @ \o ms]
Taken(nt, p, q, n) == [nt EXCEPT ![p][q] = SubSeq(@, n + 1, Len(@))]

\* Threads of a process: the helper's recv_okvs, one for each client, and the
\* server's two recv_prf
Init ==
  /\ task \in Tasks
  /\ pc = [p \in Parties |-> "gather"]
  /\ net = [p \in Parties |-> [q \in Parties |-> <<>>]]
  /\ mem = [sums |-> [p \in Parties |-> <<>>], decoded |-> [p \in Parties |-> {}],
            prf |-> [p \in Parties |-> {}],
            out |-> [p \in Parties |-> {}]]

\* AllGatherItemsSize
Gather ==
  /\ \A p \in Parties : pc[p] = "gather"
  /\ pc' = [p \in Parties |-> CASE p = "server" -> "seed"
                                [] p = "receiver" -> "decode"
                                [] p = "helper" -> IF Clients = {} THEN "prf" ELSE "decode"
                                [] OTHER -> "prf"]
  /\ UNCHANGED <<task, net, mem>>

-----------------------------------------------------------------------------
(* Encoding.                                                                 *)

\* PRF of x under the seed the server gave p
Prf(p, x) == Word("prf", p, x)

\* a key that was not encoded decodes to zero
DecodeZero(p, table, x) == IF x \in DOMAIN table THEN table[x] ELSE {}

\* DecodeOkvs: what was encoded for x, and anything at all for other keys
Decode(p, table, x) == IF x \in DOMAIN table THEN table[x] ELSE Word("noise", p, x)

\* GenOkvs sends the seed of the encoding and the encoding
GenOkvs(nt, p, q, table) == Queue(nt, p, q, <<"baxos", table>>)

\* The server's seeds, and its encoding of the sum of all PRFs
ServerEncode ==
  /\ pc["server"] = "seed"
  /\ LET seeded == [net EXCEPT !["server"] = [q \in Parties |->
                      IF q \in Seeded THEN Append(@[q], "seed") ELSE @[q]]]
     IN  net' = GenOkvs(seeded, "server", "receiver",
                        [x \in Elements(task.items["server"]) |-> XorAll([q \in Seeded |-> Prf(q, x)])])
  /\ Goto("server", "assist") /\ UNCHANGED <<task, mem>>

ClientEncode(p) ==
  /\ p \in Clients /\ pc[p] = "prf" /\ Arrived("server", p, 1)
  /\ net' = GenOkvs(Taken(net, "server", p, 1), p, "helper",
                    [x \in Elements(task.items[p]) |-> Prf(p, x)])
  /\ Goto(p, "broadcast") /\ UNCHANGED <<task, mem>>

\* With three parties
HelperPrf ==
  /\ pc["helper"] = "prf" /\ Arrived("server", "helper", 1)
  /\ net' = Taken(net, "server", "helper", 1)
  /\ mem' = [mem EXCEPT !.sums["helper"] = [i \in DOMAIN task.items["helper"] |->
               LET x == task.items["helper"][i]
               IN  Xor(Word("item", "", x), Prf("helper", x))]]
  /\ Goto("helper", "send") /\ UNCHANGED task

\* recv_okvs
HelperDecode(p) ==
  /\ pc["helper"] = "decode" /\ p \in Clients /\ mem.decoded[p] = {} /\ Arrived(p, "helper", 2)
  /\ net' = Taken(net, p, "helper", 2)
  /\ mem' = [mem EXCEPT !.decoded[p] = {<<x, Decode(p, net[p]["helper"][2], x)>> :
                                          x \in Elements(task.items["helper"])}]
  /\ UNCHANGED <<task, pc>>

Decoded(q, x) == (CHOOSE d \in mem.decoded[q] : d[1] = x)[2]

HelperSum ==
  /\ pc["helper"] = "decode" /\ \A p \in Clients : mem.decoded[p] # {}
  /\ mem' = [mem EXCEPT !.sums["helper"] = [i \in DOMAIN task.items["helper"] |->
               LET x == task.items["helper"][i]
               IN  Xor(Word("item", "", x), XorAll([q \in Clients |-> Decoded(q, x)]))]]
  /\ Goto("helper", "send") /\ UNCHANGED <<task, net>>

ReceiverDecode ==
  /\ pc["receiver"] = "decode" /\ Arrived("server", "receiver", 2)
  /\ net' = Taken(net, "server", "receiver", 2)
  /\ mem' = [mem EXCEPT !.sums["receiver"] = [i \in DOMAIN task.items["receiver"] |->
               LET x == task.items["receiver"][i]
               IN  Xor(Word("item", "", x),
                       Decode("server", net["server"]["receiver"][2], x))]]
  /\ Goto("receiver", "key") /\ UNCHANGED task

-----------------------------------------------------------------------------
(* ServerAidedTwoPartyPsi.  Under AES a word stays distinct from others; the *)
(* lists are shuffled by their senders and sorted by the server.             *)

SendEncItems(nt, p) == Queue(nt, p, "server", <<Elements(mem.sums[p])>>)

HelperSend ==
  /\ pc["helper"] = "send"
  /\ net' = SendEncItems(Queue(net, "helper", "receiver", <<"aes">>), "helper")
  /\ Goto("helper", "broadcast") /\ UNCHANGED <<task, mem>>

ReceiverSend ==
  /\ pc["receiver"] = "key" /\ Arrived("helper", "receiver", 1)
  /\ net' = SendEncItems(Taken(net, "helper", "receiver", 1), "receiver")
  /\ Goto("receiver", "raw") /\ UNCHANGED <<task, mem>>

\* ServerAssist: recv_prf
RecvPrf(p) ==
  /\ pc["server"] = "assist" /\ p \in {"helper", "receiver"}
  /\ mem.prf[p] = {} /\ Arrived(p, "server", 1)
  /\ mem' = [mem EXCEPT !.prf[p] = Head(net[p]["server"])]
  /\ net' = Taken(net, p, "server", 1)
  /\ UNCHANGED <<task, pc>>

ServerAssist ==
  /\ pc["server"] = "assist" /\ \A p \in {"helper", "receiver"} : mem.prf[p] # {}
  /\ net' = Queue(net, "server", "receiver", <<mem.prf["helper"] \cap mem.prf["receiver"]>>)
  /\ Goto("server", "broadcast") /\ UNCHANGED <<task, mem>>

\* ServerAidedPsi's end, GetIntersection and the broadcast at the receiver
GetIntersection ==
  LET raw  == Head(net["server"]["receiver"])
      hits == {i \in DOMAIN mem.sums["receiver"] : mem.sums["receiver"][i] \in raw}
      res  == {task.items["receiver"][i] : i \in hits}
      sent == Taken(net, "server", "receiver", 1)
  IN
  /\ pc["receiver"] = "raw" /\ Arrived("server", "receiver", 1)
  /\ mem' = [mem EXCEPT !.out["receiver"] = res]
  /\ net' = IF task.broadcast
            THEN [sent EXCEPT !["receiver"] = [q \in Parties |->
                    IF q = "receiver" THEN @[q] ELSE Append(@[q], res)]]
            ELSE sent
  /\ Goto("receiver", "done") /\ UNCHANGED task

\* Broadcast at the others
RecvBroadcast(p) ==
  /\ pc[p] = "broadcast" /\ Arrived("receiver", p, 1) /\ task.broadcast
  /\ net' = Taken(net, "receiver", p, 1)
  /\ mem' = [mem EXCEPT !.out[p] = Head(net["receiver"][p])]
  /\ Goto(p, "done") /\ UNCHANGED task

NoBroadcast(p) ==
  /\ pc[p] = "broadcast" /\ ~task.broadcast
  /\ Goto(p, "done") /\ UNCHANGED <<task, net, mem>>

Terminated == \A p \in Parties : pc[p] = "done" /\ UNCHANGED vars

Next ==
  \/ Gather \/ ServerEncode \/ HelperPrf \/ HelperSum \/ ReceiverDecode
  \/ HelperSend \/ ReceiverSend \/ ServerAssist \/ GetIntersection
  \/ \E p \in Parties : \/ ClientEncode(p) \/ HelperDecode(p) \/ RecvPrf(p)
                        \/ RecvBroadcast(p) \/ NoBroadcast(p)
  \/ Terminated

Spec == Init /\ [][Next]_vars

-----------------------------------------------------------------------------
\* The receiver, and with broadcast_result everyone, ends with the items all
\* parties have: the sums agree for those and no others, in whatever order the
\* encodings arrive (nty_mp_psi.cc:86-322, 368-388).
NtyExact ==
  \A p \in Parties : pc[p] = "done" =>
    mem.out[p] = IF p = "receiver" \/ task.broadcast
                 THEN {x \in Elements(task.items["receiver"]) :
                         \A q \in Parties : x \in Elements(task.items[q])}
                 ELSE {}
=============================================================================
