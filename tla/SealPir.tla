------------------------------- MODULE SealPir -------------------------------
(***************************************************************************)
(* The index PIR library of psi/algorithm/sealpir: a server packs the rows *)
(* of a database into BFV plaintexts laid out as a d-dimensional matrix, a *)
(* client asks for one row with one encrypted monomial per dimension, the  *)
(* server expands it into a unit vector and multiplies the matrix by it,   *)
(* dimension after dimension.                                              *)
(*                                                                         *)
(* The polynomials are real: a query is a polynomial modulo x^N + 1 over   *)
(* Z_t, for a small power of two N and a prime t.  SEAL is external: a     *)
(* ciphertext is what it encrypts, a batched plaintext is its slots, and a *)
(* sum of products by the constants 0 and 1 selects a plaintext.           *)
(***************************************************************************)
EXTENDS Integers, Sequences, FiniteSets, SequencesExt

CONSTANT Tasks      \* [proto, N, t, logt, ratio, options, table, rows, size,
                    \*  index, dump]

VARIABLES task, pc, net, mem
vars == <<task, pc, net, mem>>

CeilDiv(a, b) == (a + b - 1) \div b

Product(s) == FoldLeft(LAMBDA a, b : a * b, 1, s)

(* The least e with 2^e >= m. *)
Log2Ceil(m) == CHOOSE e \in 0..m : 2 ^ e >= m /\ (e = 0 \/ 2 ^ (e - 1) < m)

\* ---------------------------------------------------------------------------
\* Parameters.

ElementsPerPtxt(logt, N, size) ==
  IF size > (logt * N) \div 8 THEN 1 ELSE N \div CeilDiv(8 * size, logt)

PlaintextsPerDb(logt, N, num, size) ==
  CeilDiv(num, ElementsPerPtxt(logt, N, size))

(* floor(pow(n, 1.0 / d)) in doubles: the d-th root rounded down, but one    *)
(* less for the cubes from 4^3 on, as 1.0 / 3 is below a third (their roots *)
(* come out as 3.99..., 4.99...).                                            *)
Root(n, d) ==
  LET exact == CHOOSE r \in 0..n : r ^ d <= n /\ (r + 1) ^ d > n
  IN IF d = 3 /\ exact ^ 3 = n /\ exact >= 4 THEN exact - 1 ELSE exact

(* Starts from the d-th root, at least 2, and adds 1 to one side after the *)
(* other until there is more room than plaintexts.                          *)
GetDimensions(n, d) ==
  LET root == IF Root(n, d) < 2 THEN 2 ELSE Root(n, d)
      Room(k) == (root + 1) ^ k * root ^ (d - k)
      grown == CHOOSE k \in 0..d : /\ Room(k) > n \/ k = d
                                   /\ \A j \in 0..k - 1 : Room(j) <= n
  IN [i \in 1..d |-> IF i <= grown THEN root + 1 ELSE root]

SetPirParams(num, size, d) ==
  LET n == PlaintextsPerDb(task.logt, task.N, num, size)
      part == (task.logt * task.N) \div 8
  IN [ele_num |-> num, ele_size |-> size, dimension |-> d,
      per_pt |-> ElementsPerPtxt(task.logt, task.N, size),
      num_pt |-> n, part_size |-> part, part_num |-> CeilDiv(size, part),
      dims |-> GetDimensions(n, d)]

\* ---------------------------------------------------------------------------
\* Bytes and coefficients.

Bits(v, w) == [i \in 1..w |-> (v \div 2 ^ (w - i)) % 2]

Value(bits) == FoldLeft(LAMBDA a, b : 2 * a + b, 0, bits)

(* The bits in groups of w, zeros shifted in after the last of them. *)
Chunks(bits, w) ==
  [c \in 1..CeilDiv(Len(bits), w) |->
     Value([i \in 1..w |-> LET k == (c - 1) * w + i
                           IN IF k <= Len(bits) THEN bits[k] ELSE 0])]

BytesToCoeffs(logt, bytes) ==
  Chunks(FlattenSeq([i \in 1..Len(bytes) |-> Bits(bytes[i], 8)]), logt)

(* Takes the upper bits of each coefficient, no more of an element's last   *)
(* one than the element still lacks, and stops at the end of the output.    *)
CoeffsToBytes(logt, coeffs, outSize, size) ==
  LET each == CeilDiv(8 * size, logt)
      Taken(i) == LET left == 8 * size - logt * ((i - 1) % each)
                  IN IF left < logt THEN left ELSE logt
      stream == FlattenSeq([i \in 1..Len(coeffs) |->
                              SubSeq(Bits(coeffs[i], logt), 1, Taken(i))])
      out == Chunks(stream, 8)
  IN [k \in 1..outSize |-> IF k <= Len(out) THEN out[k] ELSE 0]

\* ---------------------------------------------------------------------------
\* The database: psi/algorithm/pir_interface.

Row(i) == [k \in 1..task.size |-> (97 * i + 29 * k + 3) % 256]

RawDb == [i \in 1..task.rows |-> Row(i - 1)]

(* The columns of a raw database in pieces of len bytes, the last one filled *)
(* up with zeros; a row that fits one piece is left as it is.                *)
Partition(db, size, len) ==
  IF size <= len
  THEN << db >>
  ELSE [p \in 1..CeilDiv(size, len) |->
          [i \in 1..Len(db) |->
             [k \in 1..len |-> LET c == (p - 1) * len + k
                               IN IF c <= size THEN db[i][c] ELSE 0]]]

(* Row after row into the slots of one plaintext; the slots that no row of  *)
(* a full plaintext would use hold 1.                                       *)
PackPlaintext(rows, first, perPt) ==
  LET size == Len(rows[1])
      each == CeilDiv(8 * size, task.logt)
      coeffs == [s \in 1..task.N |->
        LET r == first + (s - 1) \div each
        IN IF s > each * perPt THEN 1
           ELSE IF r > Len(rows) THEN 0
           ELSE BytesToCoeffs(task.logt, rows[r])[((s - 1) % each) + 1]]
  IN [of |-> "slots", body |-> coeffs, digit |-> 0]

Padding == [of |-> "padding", body |-> [s \in 1..task.N |-> 1], digit |-> 0]

Matrix(rows, params) ==
  [k \in 1..Product(params.dims) |->
     IF k <= params.num_pt
     THEN PackPlaintext(rows, (k - 1) * params.per_pt + 1, params.per_pt)
     ELSE Padding]

\* ---------------------------------------------------------------------------
\* Queries: polynomials modulo x^N + 1 over Z_t, a coefficient per place.

Places == 0..task.N - 1

PolyAdd(p, q) == [i \in Places |-> (p[i] + q[i]) % task.t]

(* x -> x^g for an odd g: what SEAL's apply_galois does to the plaintext. *)
ApplyGalois(p, g) ==
  [i \in Places |->
     LET j == CHOOSE j \in Places : (j * g) % task.N = i
     IN IF ((j * g) \div task.N) % 2 = 0 THEN p[j] ELSE (task.t - p[j]) % task.t]

(* Times x^index, 0 <= index < 2N: shifted, and negated from index N on. *)
MultiplyPowerOfX(p, index) ==
  [i \in Places |->
     LET j == (i - index) % task.N
         wraps == (j + (index % task.N)) >= task.N
     IN IF wraps # (index >= task.N) THEN (task.t - p[j]) % task.t ELSE p[j]]

Galelt(i) == (task.N + 2 ^ i) \div 2 ^ i

(* One round of the expansion: the first some ciphertexts are split in two, *)
(* the others have no second half and are doubled.                          *)
ExpandRound(cts, i, some) ==
  LET s == Len(cts)
      raw == 2 * task.N - 2 ^ i
      index == (raw + task.N) % (2 * task.N)
      Rotated(j) == ApplyGalois(cts[j], Galelt(i))
      Half(k) == IF k > some THEN PolyAdd(cts[k], cts[k])
                 ELSE PolyAdd(cts[k], Rotated(k))
      Other(k) == IF k > some THEN [x \in Places |-> 0]
                  ELSE PolyAdd(MultiplyPowerOfX(cts[k], raw),
                               MultiplyPowerOfX(Rotated(k), index))
  IN [k \in 1..s |-> Half(k)] \o [k \in 1..s |-> Other(k)]

(* A missing distinction: the last round leaves alone what it does not split. *)
ExpandLastAsIs(cts, i, some) ==
  LET full == ExpandRound(cts, i, some)
  IN [k \in 1..Len(full) |-> IF k > some /\ k <= Len(cts) THEN cts[k] ELSE full[k]]

ExpandLast(cts, i, some) == ExpandRound(cts, i, some)

(* One ciphertext into m of them, the k-th encrypting the k-th coefficient. *)
ExpandQuery(p, m) ==
  LET logm == Log2Ceil(m)
      rounds == FoldLeft(LAMBDA cts, i : ExpandRound(cts, i - 1, Len(cts)),
                         << p >>, [i \in 1..logm - 1 |-> i])
  IN IF logm = 0 THEN << p >>
     ELSE SubSeq(ExpandLast(rounds, logm - 1, m - 2 ^ (logm - 1)), 1, m)

InvertMod(v) == CHOOSE x \in 1..task.t - 1 : (v * x) % task.t = 1

GetPtIndex(raw, params) == raw \div params.per_pt

GetPtOffset(raw, params) == raw % params.per_pt

(* The place along each side of the matrix, the first side the slowest. *)
ComputeIndices(index, dims) ==
  [i \in 1..Len(dims) |->
     (index \div Product(SubSeq(dims, i + 1, Len(dims)))) % dims[i]]

(* Of the ni entries of a side, those ciphertext j of count stands for. *)
Total(ni, j, count) ==
  IF j = count /\ ni % task.N # 0 THEN ni % task.N ELSE task.N

(* Per side, one ciphertext for every N entries. *)
GenerateQuery(ptIdx, dims) ==
  LET at == ComputeIndices(ptIdx, dims)
  IN [i \in 1..Len(dims) |->
        LET count == CeilDiv(dims[i], task.N)
        IN [j \in 1..count |->
              [x \in Places |->
                 IF at[i] = (j - 1) * task.N + x
                 THEN InvertMod(2 ^ Log2Ceil(Total(dims[i], j, count)))
                 ELSE 0]]]

\* ---------------------------------------------------------------------------
\* The response.

Constant(p) == \A i \in Places : i = 0 \/ p[i] = 0

Garbage == [of |-> "garbage", body |-> << >>, digit |-> 0]

(* The sum of the products: selects when the expansion is a unit vector. *)
Dot(expanded, plains) ==
  LET ones == {j \in 1..Len(expanded) : expanded[j][0] = 1}
  IN IF /\ \A j \in 1..Len(expanded) : Constant(expanded[j])
        /\ Cardinality(ones) = 1
        /\ \A j \in 1..Len(expanded) : expanded[j][0] \in {0, 1}
     THEN plains[CHOOSE j \in ones : TRUE]
     ELSE Garbage

(* A ciphertext, as so many plaintexts holding logt bits of it each, and back. *)
DecomposeToPlaintexts(ct) ==
  [e \in 1..task.ratio |-> [of |-> "digit", body |-> ct, digit |-> e]]

ComposeToCiphertext(plains) ==
  IF /\ \A e \in 1..task.ratio : plains[e].of = "digit" /\ plains[e].digit = e
     /\ \A e \in 1..task.ratio : plains[e].body = plains[1].body
  THEN plains[1].body
  ELSE Garbage

Expanded(query, ni) ==
  FlattenSeq([j \in 1..Len(query) |->
                ExpandQuery(query[j], Total(ni, j, Len(query)))])

(* One side of the matrix: cur times the expanded query; between two sides   *)
(* every ciphertext is taken apart into plaintexts.                          *)
Side(cur, expanded, ni, last) ==
  LET prod == Len(cur) \div ni
      cts == [k \in 1..prod |->
                Dot(expanded, [j \in 1..ni |-> cur[(j - 1) * prod + k]])]
  IN IF last THEN cts
     ELSE FlattenSeq([k \in 1..prod |-> DecomposeToPlaintexts(cts[k])])

GenerateResponse(db, query, dims) ==
  FoldLeft(LAMBDA cur, i : Side(cur, Expanded(query[i], dims[i]), dims[i],
                                i = Len(dims)),
           db, [i \in 1..Len(dims) |-> i])

(* The client undoes it: decrypts, and composes a ciphertext of every ratio *)
(* plaintexts, once less than there are sides.                              *)
DecodePlaintext(response, d) ==
  LET Compose(cts, i) ==
        [k \in 1..Len(cts) \div task.ratio |->
           ComposeToCiphertext(SubSeq(cts, (k - 1) * task.ratio + 1, k * task.ratio))]
  IN FoldLeft(Compose, response, [i \in 1..d - 1 |-> i])

ExtractBytes(plain, offset, len, params) ==
  LET bytes == CoeffsToBytes(task.logt, plain.body,
                             params.per_pt * params.ele_size, params.ele_size)
  IN SubSeq(bytes, offset * len + 1, (offset + 1) * len)

DecodeResponse(plains, raw, params) ==
  FlattenSeq([p \in 1..params.part_num |->
    ExtractBytes(plains[p], GetPtOffset(raw, params),
                 IF p < params.part_num THEN params.part_size
                 ELSE params.ele_size - (p - 1) * params.part_size, params)])

\* ---------------------------------------------------------------------------
\* The server and the client.

Init ==
  /\ task \in Tasks
  /\ pc = [p \in {"server", "client"} |->
             IF p = "server" THEN "generate" ELSE "query"]
  /\ net = [p \in {"server", "client"} |-> << >>]
  /\ mem = [params |-> << >>, dbs |-> << >>, file |-> << >>, got |-> << >>]

Go(p, place) == pc' = [pc EXCEPT ![p] = place]

Options == SetPirParams(task.options.rows, task.options.size, task.options.dim)

(* The client is made for the database that the server holds. *)
ClientParams ==
  SetPirParams(task.rows, task.size, IF task.table THEN 2 ELSE task.options.dim)

(* GenerateFromRawData; GenerateFromSimpleHashTable takes the number and the *)
(* length of the rows from the table, after the partitions were counted.     *)
Generate ==
  LET parts == Partition(RawDb, task.size, Options.part_size)
      params == IF task.table THEN SetPirParams(task.rows, task.size, 2) ELSE Options
  IN /\ pc["server"] = "generate"
     /\ IF Len(parts) # Options.part_num \/ Product(params.dims) <= params.num_pt
        THEN /\ Go("server", "throw")
             /\ UNCHANGED mem
        ELSE /\ Go("server", IF task.dump THEN "dump" ELSE "serve")
             /\ mem' = [mem EXCEPT !.params = params,
                          !.dbs = [p \in 1..Len(parts) |-> Matrix(parts[p], params)]]
     /\ UNCHANGED <<task, net>>

(* The parameters in the file are the constructor's arguments and, for       *)
(* comparison, what it derived from them.                                    *)
Dump ==
  /\ pc["server"] = "dump"
  /\ mem' = [mem EXCEPT !.file = [params |-> mem.params, dbs |-> mem.dbs],
                        !.params = << >>, !.dbs = << >>]
  /\ Go("server", "load")
  /\ UNCHANGED <<task, net>>

Load ==
  LET saved == mem.file.params
      params == SetPirParams(saved.ele_num, saved.ele_size, saved.dimension)
  IN /\ pc["server"] = "load"
     /\ IF \/ params.num_pt # saved.num_pt
           \/ params.part_num # saved.part_num
           \/ params.dims # saved.dims
        THEN /\ Go("server", "throw")
             /\ UNCHANGED mem
        ELSE /\ Go("server", "serve")
             /\ mem' = [mem EXCEPT !.params = params, !.dbs = mem.file.dbs]
     /\ UNCHANGED <<task, net>>

GenerateIndexQuery ==
  /\ pc["client"] = "query"
  /\ net' = [net EXCEPT !["server"] =
               << GenerateQuery(GetPtIndex(task.index, ClientParams),
                                ClientParams.dims) >>]
  /\ Go("client", "decode")
  /\ UNCHANGED <<task, mem>>

Response ==
  /\ pc["server"] = "serve"
  /\ net["server"] # << >>
  /\ net' = [server |-> << >>,
             client |-> << [p \in 1..mem.params.part_num |->
                              GenerateResponse(mem.dbs[p], Head(net["server"]),
                                               mem.params.dims)] >>]
  /\ Go("server", "done")
  /\ UNCHANGED <<task, mem>>

DecodeIndexResponse ==
  LET params == ClientParams
      plains == [p \in 1..params.part_num |->
                   DecodePlaintext(Head(net["client"])[p], params.dimension)]
  IN /\ pc["client"] = "decode"
     /\ net["client"] # << >>
     /\ IF \E p \in 1..params.part_num : Len(plains[p]) # 1
        THEN /\ Go("client", "throw")
             /\ UNCHANGED mem
        ELSE /\ Go("client", "done")
             /\ mem' = [mem EXCEPT !.got =
                          IF \E p \in 1..params.part_num : plains[p][1].of # "slots"
                          THEN << -1 >>
                          ELSE DecodeResponse([p \in 1..params.part_num |-> plains[p][1]],
                                              task.index, params)]
     /\ net' = [net EXCEPT !["client"] = << >>]
     /\ UNCHANGED task

Terminated ==
  /\ \/ pc["server"] = "throw"
     \/ pc["client"] \in {"done", "throw"}
  /\ UNCHANGED vars

Next ==
  \/ Generate \/ Dump \/ Load \/ GenerateIndexQuery \/ Response
  \/ DecodeIndexResponse \/ Terminated

Spec == Init /\ [][Next]_vars

\* ---------------------------------------------------------------------------

(* The databases that GetDimensions has no layout for: their plaintexts are  *)
(* a cube in three dimensions, whose rounded root (seal_pir.cc:72-74) leaves *)
(* a matrix without room to spare, which 657 and 759 refuse.                 *)
NoRoom(params) ==
  /\ params.dimension = 3
  /\ \E c \in 4..params.num_pt : params.num_pt = c ^ 3

(* The client decodes exactly the row it asked for, however many rows go to  *)
(* a plaintext or plaintexts to a row, from a server that holds its database *)
(* or has loaded it; the server refuses the databases above and no others,   *)
(* and the client never throws.  Packing, partitioning, dimensions, query    *)
(* expansion, the order of the matrix, (de)composition and unpacking all     *)
(* meet in it (seal_pir.cc: GenerateResponse, 989-1111, and DecodeResponse,  *)
(* 1345-1421).                                                               *)
SealPirExact ==
  /\ pc["server"] = "throw" => NoRoom(ClientParams)
  /\ pc["server"] \in {"serve", "done"} => ~NoRoom(ClientParams)
  /\ pc["client"] # "throw"
  /\ pc["client"] = "done" => mem.got = Row(task.index)
=============================================================================
