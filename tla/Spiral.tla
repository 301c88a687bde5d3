------------------------------- MODULE Spiral -------------------------------
(***************************************************************************)
(* The index PIR library of psi/algorithm/spiral.  The client encrypts a    *)
(* monomial per half of the index in one Regev ciphertext; the server       *)
(* expands its coefficients into a Regev unit vector for the first          *)
(* dimension and GSW bits for the others, multiplies the database by the    *)
(* vector, folds by the bits, packs n * n ciphertexts into one and switches *)
(* the modulus.                                                             *)
(*                                                                          *)
(* The whole computation is carried out on small parameters: polynomials of *)
(* degree below task.len over Z_q, q the product of two primes, kept as     *)
(* number-theoretic transforms modulo both.  The noise is 0, so that what   *)
(* is left is what the code computes; ternary keys and the public           *)
(* randomness are fixed values.                                             *)
(***************************************************************************)
EXTENDS Integers, Sequences, FiniteSets

CONSTANT Tasks   \* [proto, len, moduli, p, q2, t_conv, t_exp_left,
                 \*  t_exp_right, t_gsw, mode, options, rows, size, index]

VARIABLES task, pc, net, mem
vars == <<task, pc, net, mem>>

(* The same sequence, evaluated. *)
T(s) == s \o << >>

CeilDiv(a, b) == (a + b - 1) \div b

Smaller(a, b) == IF a < b THEN a ELSE b

Log2Ceil(m) == CHOOSE e \in 0..m : 2 ^ e >= m /\ (e = 0 \/ 2 ^ (e - 1) < m)

(* The sum of f(1), ..., f(n). *)
SumTo(n, f(_)) ==
  LET s[k \in 0..n] == IF k = 0 THEN 0 ELSE s[k - 1] + f(k) IN s[n]

(* Division as C++ does it, towards 0. *)
Quotient(a, b) == IF a >= 0 THEN a \div b ELSE -((-a) \div b)

\* ---------------------------------------------------------------------------
\* Parameters.

N == 2                                        \* a plaintext is an N x N matrix
PolyLen == task.len
PolyLenLog2 == Log2Ceil(PolyLen)
Modulus == task.moduli[1] * task.moduli[2]
ModulusLog2 == Log2Ceil(Modulus)
PtCoeffs == N * N * PolyLen
PtModulusBitLen == Log2Ceil(task.p)
MaxByteLenOfPt == (PtCoeffs * PtModulusBitLen) \div 8
Q1 == 4 * task.p
ScaleK == Modulus \div task.p
MaxDbDim == 11

ElementSizeOfPt(bytes) ==
  LET n == PtCoeffs \div CeilDiv(8 * bytes, PtModulusBitLen)
  IN IF n < 1 THEN 1 ELSE n

(* The sides 2^v1 and 2^v2 of the database; t_gsw once lowered stays so. *)
UpdateByDatabaseInfo(rows, size, t_gsw) ==
  LET bytes == Smaller(size, MaxByteLenOfPt)
      pts == CeilDiv(rows, ElementSizeOfPt(bytes))
      log2 == Log2Ceil(pts)
      v1 == (log2 * 6) \div 10
      v2 == (log2 * 4) \div 10
  IN [rows |-> rows, size |-> size, pts |-> pts, bytes |-> bytes,
      per_pt |-> ElementSizeOfPt(bytes), parts |-> CeilDiv(size, MaxByteLenOfPt),
      v1 |-> IF pts <= 4 THEN 2 ELSE v1,
      v2 |-> IF pts <= 4 THEN 1 ELSE IF v1 + v2 < log2 THEN log2 - v1 ELSE v2,
      t_gsw |-> IF pts <= 4 THEN 4 ELSE t_gsw]

RightExpanded(par) == par.t_gsw * par.v2

G(par) == Log2Ceil(RightExpanded(par) + 2 ^ par.v1)

StopRound(par) == Log2Ceil(RightExpanded(par))

ValidCheck(par) ==
  /\ par.v1 <= MaxDbDim
  /\ par.v2 <= MaxDbDim
  /\ G(par) <= PolyLenLog2
  /\ 2 ^ (G(par) - 1) >= 2 ^ par.v1
  /\ 2 ^ (G(par) - 1) >= RightExpanded(par)

\* ---------------------------------------------------------------------------
\* Number-theoretic transforms, modulo one prime.

Power(b, e, m) ==
  LET w[k \in 0..e] == IF k = 0 THEN 1 ELSE (w[k - 1] * b) % m IN w[e]

InvertUintMod(v, m) == CHOOSE x \in 1..m - 1 : (v * x) % m = 1

GetMinimalPrimitiveRoot(degree, m) ==
  CHOOSE r \in 1..m - 1 :
    /\ Power(r, degree \div 2, m) = m - 1
    /\ \A s \in 1..r - 1 : Power(s, degree \div 2, m) # m - 1

ReverseBits(i, w) ==
  SumTo(w, LAMBDA b : ((i \div 2 ^ (b - 1)) % 2) * 2 ^ (w - b))

Halve(v, m) == IF v % 2 = 0 THEN v \div 2 ELSE (v + m) \div 2

PowersOfPrimitiveRoot(root, m) ==
  T([k \in 1..PolyLen |-> Power(root, ReverseBits(k - 1, PolyLenLog2), m)])

BuildNttTables(m) ==
  LET root == GetMinimalPrimitiveRoot(2 * PolyLen, m)
      inverse == PowersOfPrimitiveRoot(InvertUintMod(root, m), m)
  IN [forward |-> PowersOfPrimitiveRoot(root, m),
      inverse |-> T([k \in 1..PolyLen |-> Halve(inverse[k], m)])]

Tables(m) == mem.tables[m]

(* Butterflies over distance t: 2^mm groups of them in round mm. *)
ForwardRound(x, mm, m) ==
  LET t == PolyLen \div 2 ^ (mm + 1)
      W(k) == Tables(m).forward[2 ^ mm + (k - 1) \div (2 * t) + 1]
  IN T([k \in 1..PolyLen |->
          IF (k - 1) % (2 * t) < t THEN (x[k] + W(k) * x[k + t]) % m
          ELSE (x[k - t] - W(k) * x[k]) % m])

NttForward(x, m) ==
  LET y[mm \in 0..PolyLenLog2] ==
        IF mm = 0 THEN x ELSE ForwardRound(y[mm - 1], mm - 1, m)
  IN y[PolyLenLog2]

InverseRound(x, mm, m) ==
  LET t == PolyLen \div 2 ^ (mm + 1)
      W(k) == Tables(m).inverse[2 ^ mm + (k - 1) \div (2 * t) + 1]
  IN T([k \in 1..PolyLen |->
          IF (k - 1) % (2 * t) < t THEN Halve((x[k] + x[k + t]) % m, m)
          ELSE (W(k) * (x[k - t] - x[k])) % m])

NttInverse(x, m) ==
  LET y[mm \in 0..PolyLenLog2] ==
        IF mm = PolyLenLog2 THEN x ELSE InverseRound(y[mm + 1], mm, m)
  IN y[0]

\* ---------------------------------------------------------------------------
\* Polynomials: raw (coefficients in 0..q) and transformed (a pair), and
\* matrices of them, as sequences of columns.

Zero == [i \in 1..PolyLen |-> 0]

SingleValue(v) == [Zero EXCEPT ![1] = v]

ToNtt(poly) ==
  T([c \in 1..2 |-> NttForward(T([i \in 1..PolyLen |-> poly[i] % task.moduli[c]]),
                               task.moduli[c])])

CrtCompose2(x, y) ==
  LET m0 == task.moduli[1]
      m1 == task.moduli[2]
  IN (x * m1 * InvertUintMod(m1 % m0, m0) + y * m0 * InvertUintMod(m0 % m1, m1))
       % Modulus

FromNtt(poly) ==
  LET x == NttInverse(poly[1], task.moduli[1])
      y == NttInverse(poly[2], task.moduli[2])
  IN T([i \in 1..PolyLen |-> CrtCompose2(x[i], y[i])])

ToNttAll(polys) == T([k \in 1..Len(polys) |-> ToNtt(polys[k])])

FromNttAll(polys) == T([k \in 1..Len(polys) |-> FromNtt(polys[k])])

AddPoly(a, b) ==
  T([c \in 1..2 |-> T([z \in 1..PolyLen |-> (a[c][z] + b[c][z]) % task.moduli[c]])])

MultiplyPoly(a, b) ==
  T([c \in 1..2 |-> T([z \in 1..PolyLen |-> (a[c][z] * b[c][z]) % task.moduli[c]])])

Add(x, y) == T([r \in 1..Len(x) |-> AddPoly(x[r], y[r])])

ScalarMultiply(p, x) == T([r \in 1..Len(x) |-> MultiplyPoly(p, x[r])])

(* A matrix times a column. *)
Multiply(cols, x) ==
  T([r \in 1..Len(cols[1]) |->
       T([c \in 1..2 |->
            T([z \in 1..PolyLen |->
                 SumTo(Len(cols), LAMBDA k : cols[k][r][c][z] * x[k][c][z])
                   % task.moduli[c]])])])

Invert(poly) == T([i \in 1..PolyLen |-> Modulus - poly[i]])

(* x -> x^t, t odd. *)
Automorphism(poly, t) ==
  T([r \in 1..PolyLen |->
       LET i == CHOOSE i \in 1..PolyLen : ((i - 1) * t) % PolyLen = r - 1
       IN IF (((i - 1) * t) \div PolyLen) % 2 = 0 THEN poly[i]
          ELSE Modulus - poly[i]])

GetBitsPer(t) == IF t = ModulusLog2 THEN 1 ELSE (ModulusLog2 \div t) + 1

(* The columns of the gadget matrix: powers of 2^bits for each row in turn. *)
BuildGadget(rows, t) ==
  T([k \in 1..rows * t |->
       T([r \in 1..rows |->
            IF (k - 1) % rows = r - 1
            THEN SingleValue(2 ^ (GetBitsPer(t) * ((k - 1) \div rows)))
            ELSE Zero])])

(* Its inverse on a column: the digits of every coefficient. *)
GadgetInvertRdim(col, rdim, t) ==
  LET base == 2 ^ GetBitsPer(t)
  IN T([k \in 1..rdim * t |->
          T([z \in 1..PolyLen |->
               (col[((k - 1) % rdim) + 1][z] \div base ^ ((k - 1) \div rdim)) % base])])

GadgetInvert(col, t) == GadgetInvertRdim(col, Len(col), t)

\* ---------------------------------------------------------------------------
\* Encryption: a column <<-a, s * a + m>>, with no noise.

(* The k-th word of the stream of a seed. *)
Prg(seed, k) == (seed * 7919 + k * 4049 + seed * k * 613 + 1) % 100003

RandomPrg(seed) == T([k \in 1..PolyLen |-> Prg(seed, k) % Modulus])

(* Ternary polynomials: a coefficient 1 and a coefficient -1. *)
GenTernaryMatrix(k) ==
  [i \in 1..PolyLen |-> IF i = k THEN 1
                        ELSE IF i = ((k + 2) % PolyLen) + 1 THEN Modulus - 1 ELSE 0]

SkReg == GenTernaryMatrix(2)
SkGsw == << GenTernaryMatrix(3), GenTernaryMatrix(5) >>

EncryptRegev(m, seed) ==
  LET a == RandomPrg(seed)
  IN << ToNtt(Invert(a)), AddPoly(MultiplyPoly(ToNtt(SkReg), ToNtt(a)), m) >>

EncryptMatrixRegev(row, seed) ==
  T([k \in 1..Len(row) |-> EncryptRegev(row[k], seed + k)])

(* The columns <<-a, s1 * a + m1, ..., sn * a + mn>> of a GSW-like encryption. *)
EncryptMatrixGsw(cols, seed) ==
  T([k \in 1..Len(cols) |->
       LET a == RandomPrg(seed + k)
       IN << ToNtt(Invert(a)) >> \o
          T([r \in 1..N |-> AddPoly(MultiplyPoly(ToNtt(SkGsw[r]), ToNtt(a)),
                                    cols[k][r])])])

GadgetRow(t) == ToNttAll([k \in 1..t |-> BuildGadget(1, t)[k][1]])

GenExpansionParams(num, t, seed) ==
  T([i \in 1..num |->
       EncryptMatrixRegev(
         ScalarMultiply(ToNtt(Automorphism(SkReg, PolyLen \div 2 ^ (i - 1) + 1)),
                        GadgetRow(t)), seed + 10 * i)])

PackingKey(i) ==
  LET scaled == ScalarMultiply(ToNtt(SkReg), GadgetRow(task.t_conv))
  IN EncryptMatrixGsw(T([k \in 1..task.t_conv |->
                           T([r \in 1..N |-> IF r = i THEN scaled[k] ELSE ToNtt(Zero)])]),
                      500 + 10 * i)

ConversionKey ==
  LET s == ToNtt(SkReg)
      g == BuildGadget(2, task.t_conv)
      Sigma(k) == IF k % 2 = 1 THEN MultiplyPoly(MultiplyPoly(s, s), ToNtt(g[k][1]))
                  ELSE MultiplyPoly(s, ToNtt(g[k][2]))
  IN EncryptMatrixRegev(T([k \in 1..2 * task.t_conv |-> Sigma(k)]), 600)

(* The keys travel as coefficients; every one is transformed anew. *)
PublicKeys(par) ==
  [left |-> GenExpansionParams(G(par), task.t_exp_left, 100),
   right |-> GenExpansionParams(StopRound(par) + 1, task.t_exp_right, 300),
   packing |-> T([i \in 1..N |-> PackingKey(i)]),
   conversion |-> ConversionKey]

(* Even coefficients: the place along the first dimension; odd ones: the     *)
(* bits of the place along the others, times the powers of the gadget.       *)
Sigma(pt, par) ==
  LET idx0 == pt \div 2 ^ par.v2
      further == pt % 2 ^ par.v2
      first == InvertUintMod(2 ^ G(par), Modulus)
      rest == InvertUintMod(2 ^ (StopRound(par) + 1), Modulus)
      Bit(l) == (further \div 2 ^ l) % 2
      Gsw(i) == IF i >= RightExpanded(par) THEN 0
                ELSE Bit(i \div par.t_gsw) * 2 ^ (GetBitsPer(par.t_gsw) * (i % par.t_gsw))
  IN T([k \in 1..PolyLen |->
          LET i == (k - 1) \div 2
          IN IF (k - 1) % 2 = 0 THEN IF i = idx0 THEN (ScaleK * first) % Modulus ELSE 0
             ELSE (Gsw(i) * rest) % Modulus])

QuerySeed == 77

(* Only the second row is sent, with the seed of the first. *)
GenQuery(raw, par) ==
  FromNtt(EncryptRegev(ToNtt(Sigma(raw \div par.per_pt, par)), QuerySeed)[2])

FromProtoRng(seed, row) ==
  << T([k \in 1..PolyLen |-> Modulus - (Prg(seed, k) % Modulus)]), row >>

\* ---------------------------------------------------------------------------
\* The database: bytes, coefficients, plaintexts, and their order.

Bits(v, w) == [i \in 1..w |-> (v \div 2 ^ (w - i)) % 2]

(* The bits of items of w bits each, regrouped v at a time, 0 after the last. *)
Regroup(s, w, v) ==
  LET Bit(k) == IF k > w * Len(s) THEN 0
                ELSE Bits(s[((k - 1) \div w) + 1], w)[((k - 1) % w) + 1]
  IN T([c \in 1..CeilDiv(w * Len(s), v) |->
          SumTo(v, LAMBDA i : Bit((c - 1) * v + i) * 2 ^ (v - i))])

ConvertBytesToCoeffs(bytes) == Regroup(bytes, 8, PtModulusBitLen)

ConvertCoeffsToBytes(coeffs) == Regroup(coeffs, PtModulusBitLen, 8)

Row(i) == [k \in 1..task.size |-> (97 * i + 29 * k + 3) % 256]

(* Part j of the rows: MaxByteLenOfPt bytes of each, the last part filled up. *)
PartRow(i, j, par) ==
  [k \in 1..par.bytes |->
     LET c == (j - 1) * MaxByteLenOfPt + k
     IN IF c <= par.size THEN Row(i)[c] ELSE 0]

(* Plaintext k of part j: per_pt rows, byte after byte, then 1s; the        *)
(* plaintexts after the last are all 1s.                                     *)
Plaintext(k, j, par) ==
  LET first == (k - 1) * par.per_pt
      count == Smaller(par.per_pt, par.rows - first)
      bytes == [b \in 1..count * par.bytes |->
                  PartRow(first + (b - 1) \div par.bytes, j, par)[((b - 1) % par.bytes) + 1]]
      coeffs == ConvertBytesToCoeffs(bytes)
  IN IF k > par.pts THEN [c \in 1..PtCoeffs |-> 1]
     ELSE T([c \in 1..PtCoeffs |-> IF c <= Len(coeffs) THEN coeffs[c] ELSE 1])

NumItems(par) == 2 ^ (par.v1 + par.v2)

ConvertRawDbToPtDb(par) ==
  T([j \in 1..par.parts |-> T([k \in 1..NumItems(par) |-> Plaintext(k, j, par)])])

RecenertMod(v) == IF v > task.p \div 2 THEN v - task.p + Modulus ELSE v

(* Word {trial, z, ii, j} of the reoriented database: place z of the         *)
(* transform of slice trial of plaintext j * 2^v2 + ii, modulo both primes.  *)
ReorientDatabase(db, par) ==
  LET dim0 == 2 ^ par.v1
      num_per == 2 ^ par.v2
      items == NumItems(par)
      Slice(i, trial) == T([z \in 1..PolyLen |->
                              RecenertMod(db[i + 1][trial * PolyLen + z])])
      ntt == T([i \in 1..items |-> T([s \in 1..N * N |-> ToNtt(Slice(i - 1, s - 1))])])
  IN T([w \in 1..N * N * PolyLen * items |->
          LET trial == (w - 1) \div (PolyLen * items)
              z == ((w - 1) \div items) % PolyLen
              ii == ((w - 1) \div dim0) % num_per
              j == (w - 1) % dim0
              poly == ntt[j * num_per + ii + 1][trial + 1]
          IN << poly[1][z + 1], poly[2][z + 1] >>])

\* ---------------------------------------------------------------------------
\* Answering a query.

(* Off by one: the odd half is left in its last round already. *)
SkipsEarly(i, j, par) == StopRound(par) > 0 /\ j % 2 = 1 /\ i >= StopRound(par)

(* The odd half is done after the rounds it needs. *)
Skips(i, j, par) ==
  /\ StopRound(par) > 0
  /\ j % 2 = 1
  /\ \/ i > StopRound(par)
     \/ i = StopRound(par) /\ j \div 2 >= RightExpanded(par)

(* f + f(x^t), by the key of round i. *)
ActionExpand(f, i, j, keys, par) ==
  LET left == i # 0 /\ j % 2 = 0
      w == IF left THEN keys.left[i + 1] ELSE keys.right[i + 1]
      t == PolyLen \div 2 ^ i + 1
      auto1 == Automorphism(FromNtt(f[1]), t)
      auto2 == Automorphism(FromNtt(f[2]), t)
      digits == ToNttAll(GadgetInvertRdim(<< auto1 >>, 1,
                           IF left THEN task.t_exp_left ELSE task.t_exp_right))
      prod == Multiply(w, digits)
  IN IF Skips(i, j, par) THEN f
     ELSE << AddPoly(f[1], prod[1]), AddPoly(AddPoly(f[2], prod[2]), ToNtt(auto2)) >>

VNeg1(i) == ToNtt(Invert([Zero EXCEPT ![PolyLen - 2 ^ i + 1] = 1]))

ExpansionRound(v, i, keys, par) ==
  T([k \in 1..2 ^ i |-> ActionExpand(v[k], i, k - 1, keys, par)]) \o
  T([k \in 1..2 ^ i |-> ActionExpand(ScalarMultiply(VNeg1(i), v[k]), i, k - 1, keys, par)])

CoefficientExpansion(ct, keys, par) ==
  LET v[i \in 0..G(par)] ==
        IF i = 0 THEN << ct >> ELSE ExpansionRound(v[i - 1], i - 1, keys, par)
  IN v[G(par)]

(* t_gsw Regev ciphertexts of one bit into the columns of a GSW ciphertext. *)
RegevToGsw(inputs, keys) ==
  T([k \in 1..2 * Len(inputs) |->
       LET input == inputs[((k - 1) \div 2) + 1]
       IN IF k % 2 = 0 THEN input
          ELSE Multiply(keys.conversion,
                        ToNttAll(GadgetInvert(FromNttAll(input), task.t_conv)))])

ExpandedQuery(query, keys, par) ==
  LET v == CoefficientExpansion(ToNttAll(query), keys, par)
  IN [reg |-> T([i \in 1..2 ^ par.v1 |-> v[2 * i - 1]]),
      folding |-> T([l \in 1..par.v2 |->
                       RegevToGsw(T([k \in 1..par.t_gsw |->
                                       v[2 * ((l - 1) * par.t_gsw + k)]]), keys)])]

(* Place z, entry j, row r of the first-dimension ciphertexts. *)
ReorientRegCiphertexts(reg, par) ==
  T([w \in 1..PolyLen * 2 ^ par.v1 * 2 |->
       LET z == (w - 1) \div (2 * 2 ^ par.v1)
           j == ((w - 1) \div 2) % 2 ^ par.v1
           r == (w - 1) % 2
       IN << reg[j + 1][r + 1][1][z + 1], reg[j + 1][r + 1][2][z + 1] >>])

(* For each of the 2^v2 columns, the sum over the first dimension. *)
MultiplyRegByDatabase(reg, db, trial, par) ==
  LET dim0 == 2 ^ par.v1
      num_per == 2 ^ par.v2
  IN T([i \in 1..num_per |->
          T([r \in 1..2 |->
               T([c \in 1..2 |->
                    T([z \in 1..PolyLen |->
                         SumTo(dim0, LAMBDA jm :
                           reg[((z - 1) * dim0 + jm - 1) * 2 + r][c] *
                           db[(trial - 1) * NumItems(par) * PolyLen +
                              ((z - 1) * num_per + i - 1) * dim0 + jm][c])
                           % task.moduli[c]])])])])

(* G - C for a GSW ciphertext C. *)
VFoldingNeg(gsw, par) ==
  LET gadget == BuildGadget(2, par.t_gsw)
  IN T([k \in 1..Len(gsw) |->
          Add(ToNttAll(gadget[k]),
              T([r \in 1..2 |-> ToNtt(Invert(FromNtt(gsw[k][r])))]))])

FoldOne(low, high, gsw, neg, par) ==
  FromNttAll(Add(Multiply(gsw, ToNttAll(GadgetInvert(high, par.t_gsw))),
                 Multiply(neg, ToNttAll(GadgetInvert(low, par.t_gsw)))))

(* Halves the ciphertexts once per bit, the highest bit first. *)
FoldCiphertexts(cts, folding, negs, par) ==
  LET v[d \in 0..par.v2] ==
        IF d = 0 THEN cts
        ELSE LET half == Len(v[d - 1]) \div 2
                 l == par.v2 - d + 1
             IN T([i \in 1..half |-> FoldOne(v[d - 1][i], v[d - 1][half + i],
                                             folding[l], negs[l], par)])
  IN v[par.v2][1]

(* n * n Regev ciphertexts into one matrix: column j of it takes ciphertext *)
(* i * n + j at row i.                                                       *)
Pack(cts, keys) ==
  LET Part(i, j) ==
        LET ct == cts[(i - 1) * N + j]
            prod == Multiply(keys.packing[i],
                             ToNttAll(GadgetInvert(<< ct[1] >>, task.t_conv)))
        IN [prod EXCEPT ![i + 1] = AddPoly(@, ToNtt(ct[2]))]
  IN T([j \in 1..N |-> FromNttAll(Add(Part(1, j), Part(2, j)))])

Rescale(a, out) ==
  LET v == a % Modulus
      in == IF v >= Modulus \div 2 THEN v - Modulus ELSE v
      half == IF in >= 0 THEN Modulus \div 2 ELSE -(Modulus \div 2)
  IN Quotient(in * out + half, Modulus) % out

SwitchModulus(cols) ==
  T([j \in 1..N |-> T([r \in 1..N + 1 |-> T([z \in 1..PolyLen |->
       Rescale(cols[j][r][z], IF r = 1 THEN task.q2 ELSE Q1)])])])

AnswerPart(expanded, keys, db, par) ==
  LET reg == ReorientRegCiphertexts(expanded.reg, par)
      negs == T([l \in 1..par.v2 |-> VFoldingNeg(expanded.folding[l], par)])
      Trial(trial) ==
        LET out == MultiplyRegByDatabase(reg, db, trial, par)
        IN FoldCiphertexts(T([i \in 1..Len(out) |-> FromNttAll(out[i])]),
                           expanded.folding, negs, par)
  IN SwitchModulus(Pack(T([trial \in 1..N * N |-> Trial(trial)]), keys))

\* ---------------------------------------------------------------------------
\* Decoding.

Recenter(v) == (IF v >= Modulus \div 2 THEN v - Modulus ELSE v) % task.q2

Centred(v, m) == IF v >= m \div 2 THEN v - m ELSE v

(* The second summand is a multiple of p for the q2 in use. *)
DecodeCoefficient(first, rest) ==
  LET denominator == task.q2 * (Q1 \div task.p)
      r == Centred(first, task.q2) * Q1 + Centred(rest, Q1) * task.q2
      half == IF r >= 0 THEN denominator \div 2 ELSE -(denominator \div 2)
  IN (Quotient(r + half, denominator) + denominator \div task.p + 2 * task.p) % task.p

(* Row i, column j of the N x N plaintext matrix after one another. *)
DecodeResponseInternal(cols) ==
  LET Prod(i, j) ==
        LET x == NttForward(T([z \in 1..PolyLen |-> Recenter(SkGsw[i][z])]), task.q2)
            y == NttForward(cols[j][1], task.q2)
        IN NttInverse(T([z \in 1..PolyLen |-> (x[z] * y[z]) % task.q2]), task.q2)
      prods == T([i \in 1..N |-> T([j \in 1..N |-> Prod(i, j)])])
  IN T([c \in 1..PtCoeffs |->
          LET i == (c - 1) \div (N * PolyLen) + 1
              j == (((c - 1) \div PolyLen) % N) + 1
              z == ((c - 1) % PolyLen) + 1
          IN DecodeCoefficient(prods[i][j][z], cols[j][i + 1][z])])

(* The bytes of the row from each part, the parts joined and cut. *)
DecodeResponse(response, raw, par) ==
  LET Bytes(j) == ConvertCoeffsToBytes(DecodeResponseInternal(response[j]))
      parts == T([j \in 1..par.parts |-> Bytes(j)])
      start == (raw % par.per_pt) * par.bytes
  IN T([k \in 1..par.size |->
          parts[((k - 1) \div par.bytes) + 1][start + ((k - 1) % par.bytes) + 1]])

\* ---------------------------------------------------------------------------
\* The server and the client.

Parties == {"server", "client"}

(* The constructors: the parameters and their tables. *)
Init ==
  /\ task \in Tasks
  /\ pc = [p \in Parties |-> "new"]
  /\ net = [p \in Parties |-> << >>]
  /\ mem = [tables |-> << >>, par |-> << >>, own |-> << >>, keys |-> << >>,
            pts |-> << >>, dbs |-> << >>, expanded |-> << >>, file |-> << >>,
            got |-> << >>]

Go(p, place) == pc' = [pc EXCEPT ![p] = place]

(* Parameters for the database as it was announced; the table in use is the *)
(* client's own (the library's constants are the same for both).            *)
NewClient ==
  LET par == UpdateByDatabaseInfo(task.rows, task.size, task.t_gsw)
  IN /\ pc["client"] = "new"
     /\ Go("client", IF ValidCheck(par) THEN "keys" ELSE "throw")
     /\ mem' = [mem EXCEPT !.own = par,
                  !.tables = [m \in {task.moduli[1], task.moduli[2], task.q2} |->
                                BuildNttTables(m)]]
     /\ UNCHANGED <<task, net>>

NewServer ==
  LET par == UpdateByDatabaseInfo(task.options.rows, task.options.size, task.t_gsw)
  IN /\ pc["server"] = "new"
     /\ pc["client"] # "new"
     /\ Go("server", IF ValidCheck(par) THEN task.mode ELSE "throw")
     /\ mem' = [mem EXCEPT !.par = par]
     /\ UNCHANGED <<task, net>>

(* A plaintext coefficient is stored in a byte. *)
FitsByte == PtModulusBitLen = 8

(* Plaintexts only: they are answered from after a dump and a load. *)
GenerateFromRawData ==
  /\ pc["server"] = "raw"
  /\ mem' = [mem EXCEPT !.pts = IF FitsByte THEN ConvertRawDbToPtDb(mem.par) ELSE @]
  /\ Go("server", IF FitsByte THEN "dump" ELSE "throw")
  /\ UNCHANGED <<task, net>>

(* The parameters follow the table's rows. *)
GenerateFromSimpleHashTable ==
  LET par == UpdateByDatabaseInfo(task.rows, task.size, mem.par.t_gsw)
      fits == FitsByte /\ ValidCheck(par)
  IN /\ pc["server"] = "table"
     /\ Go("server", IF fits THEN "dump" ELSE "throw")
     /\ mem' = [mem EXCEPT !.par = IF FitsByte THEN par ELSE @,
                           !.pts = IF fits THEN ConvertRawDbToPtDb(par) ELSE @]
     /\ UNCHANGED <<task, net>>

GenerateFromRawDataAndReorient ==
  /\ pc["server"] = "reorient"
  /\ mem' = [mem EXCEPT !.dbs = T([j \in 1..mem.par.parts |->
               ReorientDatabase(ConvertRawDbToPtDb(mem.par)[j], mem.par)])]
  /\ Go("server", "serve")
  /\ UNCHANGED <<task, net>>

Dump ==
  /\ pc["server"] = "dump"
  /\ mem' = [mem EXCEPT !.file = [par |-> mem.par, pts |-> mem.pts],
                        !.par = << >>, !.pts = << >>]
  /\ Go("server", "load")
  /\ UNCHANGED <<task, net>>

(* A new server, from the default parameters and the file's table size. *)
Load ==
  LET saved == mem.file.par
      par == UpdateByDatabaseInfo(saved.rows, saved.size, task.t_gsw)
      fits == /\ ValidCheck(par)
              /\ par.pts = saved.pts /\ par.v1 = saved.v1 /\ par.v2 = saved.v2
              /\ \A j \in 1..Len(mem.file.pts) : Len(mem.file.pts[j]) = NumItems(par)
  IN /\ pc["server"] = "load"
     /\ Go("server", IF fits THEN "serve" ELSE "throw")
     /\ mem' = IF ~fits THEN mem
               ELSE [mem EXCEPT !.par = par,
                       !.dbs = T([j \in 1..Len(mem.file.pts) |->
                                    ReorientDatabase(mem.file.pts[j], par)])]
     /\ UNCHANGED <<task, net>>

GenPublicKeys ==
  /\ pc["client"] = "keys"
  /\ mem' = [mem EXCEPT !.keys = PublicKeys(mem.own)]
  /\ Go("client", "query")
  /\ UNCHANGED <<task, net>>

GenerateIndexQuery ==
  /\ pc["client"] = "query"
  /\ net' = [net EXCEPT !["server"] = << [row |-> GenQuery(task.index, mem.own),
                                          seed |-> QuerySeed] >>]
  /\ Go("client", "decode")
  /\ UNCHANGED <<task, mem>>

ExpandQuery ==
  /\ pc["server"] = "serve"
  /\ net["server"] # << >>
  /\ mem' = [mem EXCEPT !.expanded =
               ExpandedQuery(FromProtoRng(net["server"][1].seed, net["server"][1].row),
                             mem.keys, mem.par)]
  /\ net' = [net EXCEPT !["server"] = << >>]
  /\ Go("server", "multiply")
  /\ UNCHANGED task

ProcessQuery ==
  /\ pc["server"] = "multiply"
  /\ net' = [net EXCEPT !["client"] =
               << T([j \in 1..mem.par.parts |->
                       AnswerPart(mem.expanded, mem.keys, mem.dbs[j], mem.par)]) >>]
  /\ Go("server", "done")
  /\ UNCHANGED <<task, mem>>

DecodeIndexResponse ==
  /\ pc["client"] = "decode"
  /\ net["client"] # << >>
  /\ mem' = [mem EXCEPT !.got = DecodeResponse(net["client"][1], task.index, mem.own)]
  /\ net' = [net EXCEPT !["client"] = << >>]
  /\ Go("client", "done")
  /\ UNCHANGED task

Terminated ==
  /\ \/ pc["client"] \in {"done", "throw"}
     \/ pc["server"] = "throw"
  /\ UNCHANGED vars

Next ==
  \/ NewClient \/ NewServer \/ GenerateFromRawData \/ GenerateFromSimpleHashTable
  \/ GenerateFromRawDataAndReorient \/ Dump \/ Load \/ GenPublicKeys
  \/ GenerateIndexQuery \/ ExpandQuery \/ ProcessQuery \/ DecodeIndexResponse
  \/ Terminated

Spec == Init /\ [][Next]_vars

\* ---------------------------------------------------------------------------

(* The client decodes exactly the row it asked for, from a server that has   *)
(* reoriented its database itself or has loaded a dump of it; somebody       *)
(* throws only when the parameters do not fit the number of plaintexts       *)
(* (UpdateByDatabaseInfo), or the server that stores plaintexts does because *)
(* a coefficient is no byte.  The transforms, the expansion with its two     *)
(* halves stopping at different rounds, the order of the database, folding,  *)
(* packing, modulus switching and the cutting of rows all meet in it         *)
(* (spiral_server.cc ProcessQuery, 682-760; spiral_client.cc DecodeResponse, *)
(* 355-387).                                                                 *)
SpiralExact ==
  LET asked == UpdateByDatabaseInfo(task.rows, task.size, task.t_gsw)
      announced == UpdateByDatabaseInfo(task.options.rows, task.options.size, task.t_gsw)
      updated == UpdateByDatabaseInfo(task.rows, task.size, announced.t_gsw)
  IN /\ pc["client"] = "done" => mem.got = Row(task.index)
     /\ pc["client"] = "throw" => ~ValidCheck(asked)
     /\ pc["server"] = "throw" =>
          \/ task.mode # "reorient" /\ ~FitsByte
          \/ \E par \in {asked, announced, updated} : ~ValidCheck(par)
=============================================================================
