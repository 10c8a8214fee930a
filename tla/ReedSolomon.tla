----------------------------- MODULE ReedSolomon -----------------------------
(***************************************************************************)
(* The arithmetic of the recovery blocks: the Galois field of              *)
(* src/src/galois.h, and the matrix and its elimination of                 *)
(* src/src/reedsolomon.h and reedsolomon.cpp.                              *)
(*                                                                         *)
(* The program has Bits = 16 and Generator = 0x1100B; the fields with      *)
(* fewer bits have the same tables, bases and matrices, only smaller.      *)
(* Rows, columns and input blocks are numbered from 1.                     *)
(***************************************************************************)
EXTENDS Integers, SequencesExt, FiniteSetsExt

CONSTANTS Bits, Generator

ASSUME FieldAssumption ==
  /\ Bits \in Nat \ {0} /\ Bits % 2 = 0
  /\ Generator \in 2 ^ Bits .. 2 ^ (Bits + 1) - 1

Count == 2 ^ Bits
Limit == Count - 1
Field == 0 .. Limit

(* What the provers do not know of a power.                                *)
ASSUME CountAssumption == Count \in Nat \ {0, 1}

-----------------------------------------------------------------------------
(* The tables.  The entry at Limit is the one of zero, which has no log.   *)

(* The exclusive or, bit by bit.                                           *)
Xor(v, w) == MapThenSumSet(LAMBDA b : 2 ^ b * ((v \div 2 ^ b + w \div 2 ^ b) % 2), 0 .. Bits)

Doubled(v) == IF 2 * v >= Count THEN Xor(2 * v, Generator) ELSE 2 * v

Antilog ==
  LET power[l \in 0 .. Limit - 1] == IF l = 0 THEN 1 ELSE Doubled(power[l - 1])
  IN [l \in 0 .. Limit |-> IF l = Limit THEN 0 ELSE power[l]]

Log == [v \in Field |-> CHOOSE l \in 0 .. Limit : Antilog[l] = v]

Folded(sum) == IF sum >= Limit THEN sum - Limit ELSE sum

Plus == [v \in Field |-> [w \in Field |-> Xor(v, w)]]
Times == [v \in Field |-> [w \in Field |->
  IF v = 0 \/ w = 0 THEN 0 ELSE Antilog[Folded(Log[v] + Log[w])]]]
Divide(v, w) ==
  IF v = 0 THEN 0
  ELSE Antilog[IF Log[v] < Log[w] THEN Log[v] - Log[w] + Limit ELSE Log[v] - Log[w]]

(* A slip: the log of the power loses the bits above the width.            *)
PowCut(v, exponent) ==
  IF exponent = 0 THEN 1
  ELSE IF v = 0 THEN 0
  ELSE Antilog[Folded((Log[v] * exponent) % Count)]

(* The bits above the width are added to those in it: 2^Bits is 1 modulo   *)
(* Limit.                                                                  *)
Pow(v, exponent) ==
  IF exponent = 0 THEN 1
  ELSE IF v = 0 THEN 0
  ELSE LET sum == Log[v] * exponent
       IN Antilog[Folded((sum \div Count) + (sum % Count))]

(* A factor times a value, by the products of their halves: L and H are    *)
(* the two tables that are put together for the factor.                    *)
LongTimes(factor, value) ==
  LET half == 2 ^ (Bits \div 2)
      fl == factor % half
      fh == (factor \div half) * half
      L(i) == Plus[Times[fl][i]][Times[fh][i]]
      H(i) == Plus[Times[fl][i * half]][Times[fh][i * half]]
  IN Plus[L(value % half)][H(value \div half)]

(* Process: what the input block adds to an output block.                  *)
Process(factor, input, output) ==
  IF factor = 0 THEN output
  ELSE [i \in DOMAIN output |-> Plus[output[i]][LongTimes(factor, input[i])]]

(* Generator is primitive: the elements but zero are its powers, each      *)
(* once, and products distribute over sums (galois_test.cpp).  The halves  *)
(* of an element are bits of it, and add up to it.                         *)
ASSUME TablesAssumption ==
  /\ Antilog \in [0 .. Limit -> Field] /\ Log \in [Field -> 0 .. Limit]
  /\ \A v \in Field : Antilog[Log[v]] = v
  /\ \A l \in 0 .. Limit : Log[Antilog[l]] = l
  /\ \A u, v \in Field :
       /\ Plus[u][v] \in Field /\ Plus[u][v] = Plus[v][u] /\ Plus[u][0] = u /\ Plus[u][u] = 0
       /\ \A w \in Field : /\ Plus[u][Plus[v][w]] = Plus[Plus[u][v]][w]
                          /\ Times[u][Plus[v][w]] = Plus[Times[u][v]][Times[u][w]]
  /\ LET half == 2 ^ (Bits \div 2)
     IN \A v \in Field : /\ {v % half, v \div half, (v \div half) * half} \subseteq Field
                         /\ Plus[v % half][(v \div half) * half] = v

-----------------------------------------------------------------------------
(* SetInput: the base of each input block is the next power of two whose   *)
(* log has no factor in common with Limit.                                 *)

Gcd(m, n) ==
  LET euclid[p \in Nat \X Nat] ==
        IF p[1] = 0 \/ p[2] = 0 THEN p[1] + p[2]
        ELSE IF p[1] > p[2] THEN euclid[<<p[1] % p[2], p[2]>>]
        ELSE euclid[<<p[1], p[2] % p[1]>>]
  IN IF m = 0 \/ n = 0 THEN 0 ELSE euclid[<<m, n>>]

(* The numbers up to n that are in s, in order.                            *)
Indices(n, s) ==
  LET upto[k \in 0 .. n] == IF k = 0 THEN <<>>
                            ELSE IF k \in s THEN Append(upto[k - 1], k)
                            ELSE upto[k - 1]
  IN upto[n]

Bases == LET logs == Indices(Limit - 1, {l \in 1 .. Limit - 1 : Gcd(Limit, l) = 1})
         IN [i \in DOMAIN logs |-> Antilog[logs[i]]]

TooManyInputs(inputcount) == inputcount > Len(Bases)

(* Compute: the rows are the present recovery blocks that are used, one    *)
(* for each missing input block, and then the recovery blocks to be made.  *)
(* The columns of the left matrix are the blocks that are read, those of   *)
(* the right one, numbered on from there, the blocks that are computed.    *)
Matrices(inputcount, missing, outputrows) ==
  LET present == Indices(inputcount, (1 .. inputcount) \ missing)
      lost == Indices(inputcount, missing)
      available == Indices(Len(outputrows), {r \in DOMAIN outputrows : outputrows[r].present})
      made == Indices(Len(outputrows), {r \in DOMAIN outputrows : ~outputrows[r].present})
      rows == SubSeq(available, 1, Len(lost)) \o made
      Entry(input, row) == Pow(Bases[input], outputrows[rows[row]].exponent)
      Left(row, col) == IF col <= Len(present) THEN Entry(present[col], row)
                        ELSE IF row = col - Len(present) THEN 1 ELSE 0
      Right(row, col) == IF col <= Len(lost) THEN Entry(lost[col], row)
                         ELSE IF row = col THEN 1 ELSE 0
  IN [at \in (1 .. Len(rows)) \X (1 .. inputcount + Len(rows)) |->
       IF at[2] <= inputcount THEN Left(at[1], at[2]) ELSE Right(at[1], at[2] - inputcount)]

Unsolvable == <<>>

(* A slip: only the rows below the pivot are cleared.                      *)
EliminateBelow(m, row, inputcount) ==
  LET pivot == m[<<row, inputcount + row>>]
      Scaled(col) == Divide(m[<<row, col>>], pivot)
  IN IF pivot = 0 THEN Unsolvable
     ELSE [at \in DOMAIN m |->
            IF at[1] = row THEN Scaled(at[2])
            ELSE IF at[1] < row THEN m[at]
            ELSE Plus[m[at]][Times[Scaled(at[2])][m[<<at[1], inputcount + row>>]]]]

(* One row of GaussElim: it is divided by its pivot, and taken from every  *)
(* other row as often as that row has it.  Rows are never exchanged.       *)
Eliminate(m, row, inputcount) ==
  LET pivot == m[<<row, inputcount + row>>]
      Scaled(col) == Divide(m[<<row, col>>], pivot)
  IN IF pivot = 0 THEN Unsolvable
     ELSE [at \in DOMAIN m |->
            IF at[1] = row THEN Scaled(at[2])
            ELSE Plus[m[at]][Times[Scaled(at[2])][m[<<at[1], inputcount + row>>]]]]

GaussElim(m, inputcount, datamissing) ==
  LET Next(solved, row) ==
        IF solved = Unsolvable THEN solved ELSE Eliminate(solved, row, inputcount)
      solving[row \in 0 .. datamissing] == IF row = 0 THEN m ELSE Next(solving[row - 1], row)
  IN solving[datamissing]

(* The matrices of a repair, or of a creation, where nothing is missing.   *)
Compute(inputcount, missing, outputrows) ==
  LET parpresent == Cardinality({i \in DOMAIN outputrows : outputrows[i].present})
  IN IF Cardinality(missing) > parpresent \/ (missing = {} /\ parpresent = Len(outputrows))
     THEN Unsolvable
     ELSE GaussElim(Matrices(inputcount, missing, outputrows), inputcount, Cardinality(missing))

(* The output block of a row, from the blocks that are read: what it is    *)
(* when so many of them have been processed.                               *)
Sums(matrix, row, inputs) ==
  LET sum[n \in 0 .. Len(inputs)] ==
        IF n = 0 THEN [p \in DOMAIN inputs[1] |-> 0]
        ELSE Process(matrix[<<row, n>>], inputs[n], sum[n - 1])
  IN sum
Output(matrix, row, inputs) == Sums(matrix, row, inputs)[Len(inputs)]

=============================================================================
