---------------------- MODULE Par2CreatorRecoveryProofs ----------------------
(***************************************************************************)
(* What a set that was created is for: from its recovery packets the       *)
(* blocks that are lost come out as they were, whichever they are, if the  *)
(* matrix is solved (ReedSolomon).  The argument is that of linear         *)
(* equations, one for each place in a block.                               *)
(* That it is solved when the packets have consecutive exponents, by the   *)
(* roots of polynomials.                                                   *)
(* And, as these need the same facts of the field, the types of all that   *)
(* a creation keeps.                                                       *)
(***************************************************************************)
EXTENDS Par2CreatorProofs

-----------------------------------------------------------------------------
(* The field.                                                              *)

LEMMA AntilogEnds == Antilog[0] = 1 /\ Antilog[Limit] = 0
<1> DEFINE Powers(g, n) == g[0] = 1 /\ \A l \in 1 .. n : g[l] = Doubled(g[l - 1])
           Right(g) == g = [l \in 0 .. Limit - 1 |-> IF l = 0 THEN 1 ELSE Doubled(g[l - 1])]
           P == {n \in Nat : \E g : Powers(g, n)}
           power == CHOOSE g : Right(g)
<1>1. Limit \in Nat /\ Limit - 1 \in Nat /\ 0 # Limit
  BY CountAssumption DEF Limit
<1>2. 0 \in P
  <2>1. Powers([l \in {0} |-> 1], 0)
    OBVIOUS
  <2> QED BY <2>1
<1>3. ASSUME NEW n \in P PROVE n + 1 \in P
  <2>1. PICK g : Powers(g, n)
    BY <1>3
  <2> DEFINE h == [l \in 0 .. n + 1 |-> IF l = n + 1 THEN Doubled(g[n]) ELSE g[l]]
  <2>2. n \in Nat
    OBVIOUS
  <2>3. h[0] = 1
    BY <2>1, <2>2
  <2>4. ASSUME NEW l \in 1 .. n + 1 PROVE h[l] = Doubled(h[l - 1])
    <3>1. l - 1 \in 0 .. n + 1 /\ l \in 0 .. n + 1 /\ l - 1 # n + 1
      BY <2>2
    <3>2. h[l - 1] = g[l - 1]
      BY <3>1
    <3>3. CASE l = n + 1
      <4>1. l - 1 = n
        BY <3>3, <2>2
      <4> QED BY <3>1, <3>2, <3>3, <4>1
    <3>4. CASE l # n + 1
      <4>1. l \in 1 .. n /\ h[l] = g[l]
        BY <3>1, <3>4, <2>2
      <4> QED BY <4>1, <3>2, <2>1
    <3> QED BY <3>3, <3>4
  <2> HIDE DEF h
  <2>5. Powers(h, n + 1)
    BY <2>3, <2>4
  <2> QED BY <2>2, <2>5
<1>4. P = Nat
  <2> HIDE DEF P
  <2>1. P \in SUBSET Nat
    BY DEF P
  <2> QED BY <1>2, <1>3, <2>1, Induction
<1>5. PICK g : Powers(g, Limit - 1)
  BY <1>1, <1>4
<1>6. Right([l \in 0 .. Limit - 1 |-> g[l]])
  <2> DEFINE h == [l \in 0 .. Limit - 1 |-> g[l]]
  <2>1. ASSUME NEW l \in 0 .. Limit - 1 PROVE h[l] = IF l = 0 THEN 1 ELSE Doubled(h[l - 1])
    <3>1. CASE l = 0
      BY <3>1, <1>5
    <3>2. CASE l # 0
      <4>1. l \in 1 .. Limit - 1 /\ l - 1 \in 0 .. Limit - 1
        BY <3>2, <1>1
      <4> QED BY <3>2, <4>1, <1>5
    <3> QED BY <3>1, <3>2
  <2>2. h = [l \in 0 .. Limit - 1 |-> IF l = 0 THEN 1 ELSE Doubled(h[l - 1])]
    BY <2>1
  <2> QED BY <2>2
<1>7. Right(power)
  <2> HIDE DEF Right
  <2> QED BY <1>6
<1>8. power[0] = 1
  <2> HIDE DEF power
  <2>1. 0 \in 0 .. Limit - 1
    BY <1>1
  <2> QED BY <1>7, <2>1
<1>9. Antilog = [l \in 0 .. Limit |-> IF l = Limit THEN 0 ELSE power[l]]
  BY DEF Antilog
<1> HIDE DEF power
<1> QED BY <1>1, <1>8, <1>9

(* The logs of the elements but zero are below Limit.                      *)
LEMMA LogFacts ==
  /\ Limit \in Nat \ {0} /\ Field = 0 .. Limit /\ 0 \in Field /\ 1 \in Field
  /\ \A l \in 0 .. Limit - 1 : Antilog[l] \in Field /\ Antilog[l] # 0 /\ Log[Antilog[l]] = l
  /\ \A v \in Field : v # 0 => Log[v] \in 0 .. Limit - 1 /\ Antilog[Log[v]] = v
  /\ Log[1] = 0
<1>1. Limit \in Nat \ {0} /\ Field = 0 .. Limit /\ 0 \in 0 .. Limit /\ 1 \in 0 .. Limit
  BY CountAssumption DEF Limit, Field
<1>2. /\ Antilog \in [0 .. Limit -> Field] /\ Log \in [Field -> 0 .. Limit]
      /\ \A v \in Field : Antilog[Log[v]] = v
      /\ \A l \in 0 .. Limit : Log[Antilog[l]] = l
  BY TablesAssumption
<1>3. \A l \in 0 .. Limit - 1 : l \in 0 .. Limit /\ l # Limit
  BY <1>1
<1>4. Log[0] = Limit
  BY <1>1, <1>2, AntilogEnds
<1>5. Log[1] = 0
  BY <1>1, <1>2, AntilogEnds
<1>6. ASSUME NEW l \in 0 .. Limit - 1 PROVE Antilog[l] \in Field /\ Antilog[l] # 0 /\ Log[Antilog[l]] = l
  BY <1>2, <1>3, <1>4
<1>7. ASSUME NEW v \in Field, v # 0 PROVE Log[v] \in 0 .. Limit - 1 /\ Antilog[Log[v]] = v
  <2>1. Log[v] \in 0 .. Limit /\ Antilog[Log[v]] = v
    BY <1>2
  <2>2. Log[v] # Limit
    BY <1>7, <2>1, AntilogEnds
  <2> QED BY <1>1, <2>1, <2>2
<1> QED BY <1>1, <1>5, <1>6, <1>7

LEMMA FoldedFacts ==
  /\ \A x, y \in 0 .. Limit - 1 : Folded(x + y) \in 0 .. Limit - 1
  /\ \A x, y, z \in 0 .. Limit - 1 : Folded(x + Folded(y + z)) = Folded(Folded(x + y) + z)
  /\ \A x \in 0 .. Limit - 1 : Folded(0 + x) = x /\ Folded(x + Limit) = x
<1> USE LogFacts DEF Folded
<1>1. \A x, y \in 0 .. Limit - 1 : Folded(x + y) \in 0 .. Limit - 1
  OBVIOUS
<1>2. \A x, y, z \in 0 .. Limit - 1 : Folded(x + Folded(y + z)) = Folded(Folded(x + y) + z)
  OBVIOUS
<1>3. \A x \in 0 .. Limit - 1 : Folded(0 + x) = x /\ Folded(x + Limit) = x
  OBVIOUS
<1> QED BY <1>1, <1>2, <1>3

(* The product of two elements but zero.                                   *)
LEMMA ProductFacts ==
  ASSUME NEW v \in Field, NEW w \in Field, v # 0, w # 0
  PROVE  /\ Times[v][w] = Antilog[Folded(Log[v] + Log[w])]
         /\ Times[v][w] \in Field /\ Times[v][w] # 0
         /\ Log[Times[v][w]] = Folded(Log[v] + Log[w])
<1>1. Times[v][w] = Antilog[Folded(Log[v] + Log[w])]
  BY DEF Times
<1>2. Folded(Log[v] + Log[w]) \in 0 .. Limit - 1
  BY LogFacts, FoldedFacts
<1> QED BY <1>1, <1>2, LogFacts

LEMMA PlusFacts ==
  /\ \A u, v \in Field : Plus[u][v] \in Field /\ Plus[u][v] = Plus[v][u]
  /\ \A u \in Field : Plus[u][0] = u /\ Plus[0][u] = u /\ Plus[u][u] = 0
  /\ \A u, v, w \in Field : Plus[u][Plus[v][w]] = Plus[Plus[u][v]][w]
  /\ \A u, v, w \in Field : Times[u][Plus[v][w]] = Plus[Times[u][v]][Times[u][w]]
<1>1. ASSUME NEW u \in Field, NEW v \in Field
      PROVE  /\ Plus[u][v] \in Field /\ Plus[u][v] = Plus[v][u] /\ Plus[u][0] = u /\ Plus[u][u] = 0
             /\ \A w \in Field : /\ Plus[u][Plus[v][w]] = Plus[Plus[u][v]][w]
                                /\ Times[u][Plus[v][w]] = Plus[Times[u][v]][Times[u][w]]
  BY TablesAssumption, Zenon
<1>2. 0 \in Field
  BY LogFacts
<1> QED BY <1>1, <1>2

(* The sum of three, for the terms that it is used with.                   *)
Associate(u, v, w) == Plus[u][Plus[v][w]] = Plus[Plus[u][v]][w]

LEMMA PlusAssociates ==
  ASSUME NEW u \in Field, NEW v \in Field, NEW w \in Field
  PROVE  Associate(u, v, w)
BY PlusFacts DEF Associate

(* The laws of a field, and what the code divides by.                      *)
LEMMA TimesFacts ==
  /\ \A v, w \in Field : Times[v][w] \in Field /\ Times[v][w] = Times[w][v]
  /\ \A v \in Field : Times[0][v] = 0 /\ Times[v][0] = 0 /\ Times[1][v] = v /\ Times[v][1] = v
  /\ \A u, v, w \in Field : Times[u][Times[v][w]] = Times[Times[u][v]][w]
  /\ \A u, v, w \in Field : Times[u][Plus[v][w]] = Plus[Times[u][v]][Times[u][w]]
  /\ \A u, v, w \in Field : Times[Plus[u][v]][w] = Plus[Times[u][w]][Times[v][w]]
<1>0. 0 \in Field /\ 1 \in Field
  BY LogFacts
<1>1. \A v, w \in Field : v = 0 \/ w = 0 => Times[v][w] = 0
  BY DEF Times
<1>2. ASSUME NEW v \in Field, NEW w \in Field PROVE Times[v][w] \in Field /\ Times[v][w] = Times[w][v]
  <2>1. CASE v = 0 \/ w = 0
    BY <2>1, <1>0, <1>1
  <2>2. CASE v # 0 /\ w # 0
    <3>1. Log[v] + Log[w] = Log[w] + Log[v]
      BY <2>2, LogFacts
    <3> QED BY <2>2, <3>1, ProductFacts
  <2> QED BY <2>1, <2>2
<1>3. ASSUME NEW v \in Field PROVE Times[1][v] = v
  <2>1. CASE v = 0
    BY <2>1, <1>0, <1>1
  <2>2. CASE v # 0
    <3>1. 1 # 0
      OBVIOUS
    <3>2. Times[1][v] = Antilog[Folded(Log[1] + Log[v])]
      BY <1>0, <2>2, <3>1, ProductFacts
    <3> QED BY <2>2, <3>2, LogFacts, FoldedFacts
  <2> QED BY <2>1, <2>2
<1>4. ASSUME NEW u \in Field, NEW v \in Field, NEW w \in Field
      PROVE  Times[u][Times[v][w]] = Times[Times[u][v]][w]
  <2>1. CASE u = 0 \/ v = 0 \/ w = 0
    BY <2>1, <1>0, <1>1, <1>2
  <2>2. CASE u # 0 /\ v # 0 /\ w # 0
    <3>1. /\ Times[v][w] \in Field /\ Times[v][w] # 0 /\ Log[Times[v][w]] = Folded(Log[v] + Log[w])
          /\ Times[u][v] \in Field /\ Times[u][v] # 0 /\ Log[Times[u][v]] = Folded(Log[u] + Log[v])
      BY <2>2, ProductFacts
    <3>2. /\ Times[u][Times[v][w]] = Antilog[Folded(Log[u] + Folded(Log[v] + Log[w]))]
          /\ Times[Times[u][v]][w] = Antilog[Folded(Folded(Log[u] + Log[v]) + Log[w])]
      BY <2>2, <3>1, ProductFacts
    <3>3. Log[u] \in 0 .. Limit - 1 /\ Log[v] \in 0 .. Limit - 1 /\ Log[w] \in 0 .. Limit - 1
      BY <2>2, LogFacts
    <3> QED BY <3>2, <3>3, FoldedFacts
  <2> QED BY <2>1, <2>2
<1>5. ASSUME NEW u \in Field, NEW v \in Field, NEW w \in Field
      PROVE  /\ Times[u][Plus[v][w]] = Plus[Times[u][v]][Times[u][w]]
             /\ Times[Plus[u][v]][w] = Plus[Times[u][w]][Times[v][w]]
  <2>2. Plus[u][v] \in Field
    BY PlusFacts
  <2>3. Times[u][Plus[v][w]] = Plus[Times[u][v]][Times[u][w]]
    BY PlusFacts
  <2>4. Times[w][Plus[u][v]] = Plus[Times[w][u]][Times[w][v]]
    BY PlusFacts
  <2> QED BY <2>2, <2>3, <2>4, <1>2
<1>6. ASSUME NEW v \in Field PROVE Times[0][v] = 0 /\ Times[v][0] = 0 /\ Times[1][v] = v /\ Times[v][1] = v
  BY <1>0, <1>1, <1>2, <1>3
<1>7. \A v, w \in Field : Times[v][w] \in Field /\ Times[v][w] = Times[w][v]
  BY <1>2
<1>8. \A u, v, w \in Field : Times[u][Times[v][w]] = Times[Times[u][v]][w]
  BY <1>4
<1>9. \A u, v, w \in Field : /\ Times[u][Plus[v][w]] = Plus[Times[u][v]][Times[u][w]]
                            /\ Times[Plus[u][v]][w] = Plus[Times[u][w]][Times[v][w]]
  BY <1>5
<1> QED BY <1>6, <1>7, <1>8, <1>9

LEMMA DivideFacts ==
  ASSUME NEW w \in Field, w # 0
  PROVE  \E inverse \in Field :
           /\ Times[inverse][w] = 1
           /\ \A v \in Field : Divide(v, w) = Times[inverse][v]
<1> DEFINE inverse == Antilog[IF Log[w] = 0 THEN 0 ELSE Limit - Log[w]]
<1>1. Log[w] \in 0 .. Limit - 1 /\ Limit \in Nat \ {0}
  BY LogFacts
<1>2. (IF Log[w] = 0 THEN 0 ELSE Limit - Log[w]) \in 0 .. Limit - 1
  BY <1>1
<1>3. /\ inverse \in Field /\ inverse # 0
      /\ Log[inverse] = IF Log[w] = 0 THEN 0 ELSE Limit - Log[w]
  BY <1>2, LogFacts
<1>4. Folded(Log[inverse] + Log[w]) = 0
  BY <1>1, <1>3 DEF Folded
<1>5. Times[inverse][w] = 1
  <2> HIDE DEF inverse
  <2> QED BY <1>3, <1>4, ProductFacts, AntilogEnds
<1>6. ASSUME NEW v \in Field PROVE Divide(v, w) = Times[inverse][v]
  <2> HIDE DEF inverse
  <2>1. CASE v = 0
    <3>1. Times[inverse][v] = 0
      BY <2>1, <1>3, TimesFacts
    <3> QED BY <2>1, <3>1 DEF Divide
  <2>2. CASE v # 0
    <3>1. Log[v] \in 0 .. Limit - 1
      BY <2>2, LogFacts
    <3>2. Folded(Log[inverse] + Log[v]) = IF Log[v] < Log[w] THEN Log[v] - Log[w] + Limit ELSE Log[v] - Log[w]
      BY <3>1, <1>1, <1>3 DEF Folded
    <3> QED BY <2>2, <3>2, <1>3, ProductFacts DEF Divide
  <2> QED BY <2>1, <2>2
<1> HIDE DEF inverse
<1> QED BY <1>3, <1>5, <1>6

Expands(u, v, x, y) ==
  Plus[Plus[Times[u][x]][Times[v][x]]][Plus[Times[u][y]][Times[v][y]]] = Times[Plus[u][v]][Plus[x][y]]

LEMMA Expanded ==
  ASSUME NEW u \in Field, NEW v \in Field, NEW x \in Field, NEW y \in Field
  PROVE  Expands(u, v, x, y)
<1>1. Plus[u][v] \in Field
  BY PlusFacts
<1>2. Plus[Times[u][x]][Times[v][x]] = Times[Plus[u][v]][x]
  BY TimesFacts
<1>3. Plus[Times[u][y]][Times[v][y]] = Times[Plus[u][v]][y]
  BY TimesFacts
<1>4. Plus[Times[Plus[u][v]][x]][Times[Plus[u][v]][y]] = Times[Plus[u][v]][Plus[x][y]]
  <2> DEFINE w == Plus[u][v]
  <2> HIDE DEF w
  <2>1. w \in Field
    BY <1>1 DEF w
  <2>2. Plus[Times[w][x]][Times[w][y]] = Times[w][Plus[x][y]]
    BY <2>1, PlusFacts
  <2> QED BY <2>2 DEF w
<1> QED BY <1>2, <1>3, <1>4 DEF Expands

(* The product that is put together from those of the halves.              *)
LEMMA LongTimesFacts ==
  ASSUME NEW factor \in Field, NEW value \in Field
  PROVE  LongTimes(factor, value) = Times[factor][value]
<1> DEFINE half == 2 ^ (Bits \div 2)
           fl == factor % half
           fh == (factor \div half) * half
           vl == value % half
           vh == (value \div half) * half
<1>1. /\ fl \in Field /\ fh \in Field /\ vl \in Field /\ vh \in Field
      /\ Plus[fl][fh] = factor /\ Plus[vl][vh] = value
  BY TablesAssumption
<1>2. LongTimes(factor, value) =
        Plus[Plus[Times[fl][vl]][Times[fh][vl]]][Plus[Times[fl][vh]][Times[fh][vh]]]
  BY DEF LongTimes
<1> HIDE DEF fl, fh, vl, vh, half
<1>3. LongTimes(factor, value) = Times[Plus[fl][fh]][Plus[vl][vh]]
  <2>1. fl \in Field /\ fh \in Field /\ vl \in Field /\ vh \in Field
    BY <1>1
  <2>2. Expands(fl, fh, vl, vh)
    BY <2>1, Expanded
  <2> QED BY ONLY <1>2, <2>2 DEF Expands
<1> QED BY <1>1, <1>3

(* A byte that is added as the code adds it.                               *)
LEMMA AddToFacts ==
  ASSUME NEW f \in Field, NEW v \in Field, NEW s \in Field
  PROVE  AddTo(f, v, s) = Plus[s][Times[f][v]]
<1>1. CASE f = 0
  BY <1>1, TimesFacts, PlusFacts DEF AddTo
<1>2. CASE f # 0
  BY <1>2, LongTimesFacts DEF AddTo
<1> QED BY <1>1, <1>2

LEMMA DivMod ==
  ASSUME NEW n \in Nat, NEW d \in Nat \ {0}
  PROVE  n \div d \in Nat /\ n % d \in 0 .. d - 1 /\ n = d * (n \div d) + (n % d)
OBVIOUS

(* The bits above the width are added to those in it: that is the rest of  *)
(* the division by Limit.                                                  *)
LEMMA FoldedRest ==
  ASSUME NEW s \in Nat, s <= (Limit - 1) * Limit
  PROVE  LET rest == Folded((s \div Count) + (s % Count))
         IN rest \in 0 .. Limit - 1 /\ \E k \in Nat : s = k * Limit + rest
<1> DEFINE q == s \div Count
           r == s % Count
           rest == Folded(q + r)
<1>1. Limit \in Nat \ {0} /\ Count = Limit + 1 /\ Count \in Nat \ {0}
  BY LogFacts, CountAssumption DEF Limit
<1>2. q \in Nat /\ r \in 0 .. Limit /\ s = Count * q + r
  <2> DEFINE d == Count
  <2> HIDE DEF d
  <2>1. d \in Nat \ {0} /\ d - 1 = Limit
    BY <1>1 DEF d
  <2>2. s \div d \in Nat /\ s % d \in 0 .. d - 1 /\ s = d * (s \div d) + (s % d)
    BY <2>1, DivMod
  <2> QED BY <2>1, <2>2 DEF d
<1> HIDE DEF q, r
<1>3. s = q * Limit + (q + r)
  BY <1>1, <1>2
<1>4. q < Limit
  <2>1. SUFFICES ASSUME Limit <= q PROVE FALSE
    BY <1>1, <1>2
  <2>2. Limit * Limit <= q * Limit
    BY <1>1, <1>2, <2>1, Monotone
  <2>3. (Limit - 1) * Limit = Limit * Limit - Limit /\ Limit * Limit \in Nat /\ q * Limit \in Nat
    BY <1>1, <1>2
  <2> QED BY <1>1, <1>2, <1>3, <2>2, <2>3
<1>5. CASE q + r >= Limit
  <2>1. rest = q + r - Limit /\ rest \in 0 .. Limit - 1
    BY <1>1, <1>2, <1>4, <1>5 DEF Folded
  <2>2. (q + 1) * Limit = q * Limit + Limit /\ q * Limit \in Nat
    BY <1>1, <1>2
  <2>3. s = (q + 1) * Limit + rest
    BY <1>1, <1>2, <1>3, <2>1, <2>2
  <2> QED BY <1>2, <2>1, <2>3 DEF q, r
<1>6. CASE ~(q + r >= Limit)
  <2>1. rest = q + r /\ rest \in 0 .. Limit - 1
    BY <1>1, <1>2, <1>6 DEF Folded
  <2> QED BY <1>2, <1>3, <2>1 DEF q, r
<1> QED BY <1>5, <1>6

LEMMA RestsAreSame ==
  ASSUME NEW n \in Nat, NEW k \in Nat, NEW l \in Nat, NEW a \in 0 .. n - 1, NEW b \in 0 .. n - 1,
         k * n + a = l * n + b
  PROVE  a = b
<1>1. ASSUME NEW x \in Nat, NEW y \in Nat, NEW c \in 0 .. n - 1, x < y PROVE x * n + c < y * n
  <2>1. (x + 1) * n <= y * n
    BY <1>1, Monotone
  <2>2. (x + 1) * n = x * n + n /\ x * n \in Nat /\ y * n \in Nat
    OBVIOUS
  <2> QED BY <2>1, <2>2
<1>2. k * n \in Nat /\ l * n \in Nat
  OBVIOUS
<1>3. CASE k < l
  BY <1>1, <1>2, <1>3
<1>4. CASE l < k
  BY <1>1, <1>2, <1>4
<1>5. CASE k = l
  BY <1>2, <1>5
<1> QED BY <1>3, <1>4, <1>5

(* The log of a power is that of the base, as often as the exponent says.  *)
LEMMA PowLog ==
  ASSUME NEW v \in Field, v # 0, NEW e \in 0 .. Limit
  PROVE  /\ Pow(v, e) \in Field /\ Pow(v, e) # 0
         /\ \E k \in Nat : Log[v] * e = k * Limit + Log[Pow(v, e)]
<1>0. Log[v] \in 0 .. Limit - 1 /\ Limit \in Nat \ {0}
  BY LogFacts
<1>1. CASE e = 0
  <2>1. Pow(v, e) = 1 /\ Log[v] * e = 0 /\ 0 * Limit + 0 = 0
    BY <1>0, <1>1 DEF Pow
  <2> QED BY <2>1, LogFacts
<1>2. CASE e # 0
  <2> DEFINE s == Log[v] * e
             rest == Folded((s \div Count) + (s % Count))
  <2>1. s \in Nat /\ s <= (Limit - 1) * Limit
    <3>1. Log[v] * e <= (Limit - 1) * e
      BY <1>0, Monotone
    <3>2. e * (Limit - 1) <= Limit * (Limit - 1)
      BY <1>0, Monotone
    <3>3. (Limit - 1) * e = e * (Limit - 1) /\ (Limit - 1) * Limit = Limit * (Limit - 1)
      BY <1>0
    <3>4. (Limit - 1) * e \in Nat /\ (Limit - 1) * Limit \in Nat /\ Log[v] * e \in Nat
      BY <1>0
    <3> QED BY <3>1, <3>2, <3>3, <3>4
  <2>2. Pow(v, e) = Antilog[rest]
    BY <1>2 DEF Pow
  <2> HIDE DEF s
  <2>3. rest \in 0 .. Limit - 1 /\ \E k \in Nat : s = k * Limit + rest
    BY <2>1, FoldedRest
  <2> HIDE DEF rest
  <2>4. Pow(v, e) \in Field /\ Pow(v, e) # 0 /\ Log[Pow(v, e)] = rest
    BY <2>2, <2>3, LogFacts
  <2> QED BY <2>3, <2>4 DEF s
<1> QED BY <1>1, <1>2

LEMMA PowNext ==
  ASSUME NEW v \in Field, v # 0, NEW e \in 0 .. Limit - 1
  PROVE  Pow(v, e + 1) = Times[v][Pow(v, e)]
<1> DEFINE p == Pow(v, e)
           t == Times[v][p]
           n == Pow(v, e + 1)
           a == Log[v]
<1>1. a \in 0 .. Limit - 1 /\ Limit \in Nat \ {0} /\ e \in 0 .. Limit /\ e + 1 \in 0 .. Limit
  BY LogFacts
<1>2. p \in Field /\ p # 0 /\ \E k \in Nat : a * e = k * Limit + Log[p]
  BY <1>1, PowLog
<1>3. n \in Field /\ n # 0 /\ \E k \in Nat : a * (e + 1) = k * Limit + Log[n]
  BY <1>1, PowLog
<1> HIDE DEF p, n
<1>4. t \in Field /\ t # 0 /\ Log[t] = Folded(a + Log[p])
  BY <1>2, ProductFacts
<1> HIDE DEF t, a
<1>5. Log[p] \in 0 .. Limit - 1 /\ Log[t] \in 0 .. Limit - 1 /\ Log[n] \in 0 .. Limit - 1
  BY <1>2, <1>3, <1>4, LogFacts
<1>6. PICK j \in Nat : a + Log[p] = j * Limit + Log[t]
  <2>1. CASE a + Log[p] >= Limit
    <3>1. a + Log[p] = 1 * Limit + Log[t]
      BY <1>1, <1>4, <1>5, <2>1 DEF Folded
    <3> QED BY <3>1
  <2>2. CASE ~(a + Log[p] >= Limit)
    <3>1. a + Log[p] = 0 * Limit + Log[t]
      BY <1>1, <1>4, <1>5, <2>2 DEF Folded
    <3> QED BY <3>1
  <2> QED BY <2>1, <2>2
<1>7. PICK k \in Nat : a * e = k * Limit + Log[p]
  BY <1>2
<1>8. PICK l \in Nat : a * (e + 1) = l * Limit + Log[n]
  BY <1>3
<1>9. a * (e + 1) = (k + j) * Limit + Log[t]
  <2>1. a * (e + 1) = a * e + a /\ (k + j) * Limit = k * Limit + j * Limit
    BY <1>1
  <2>2. a * e \in Nat /\ k * Limit \in Nat /\ j * Limit \in Nat
    BY <1>1
  <2> QED BY <1>1, <1>5, <1>6, <1>7, <2>1, <2>2
<1>10. Log[n] = Log[t]
  <2>1. k + j \in Nat
    OBVIOUS
  <2> QED BY <1>1, <1>5, <1>8, <1>9, <2>1, RestsAreSame
<1>11. n = t
  BY <1>3, <1>4, <1>10, LogFacts
<1> QED BY <1>11 DEF n, t, p

LEMMA PowInField ==
  ASSUME NEW v \in Field, NEW e \in 0 .. Limit
  PROVE  Pow(v, e) \in Field
<1>1. CASE v = 0
  BY <1>1, LogFacts DEF Pow
<1>2. CASE v # 0
  BY <1>2, PowLog
<1> QED BY <1>1, <1>2

-----------------------------------------------------------------------------
(* Sums of elements.                                                       *)

Adds(s, f, n) == s[0] = 0 /\ \A k \in 1 .. n : s[k] = Plus[s[k - 1]][f[k]]
FieldSum(f, n) == CHOOSE x : \E s : Adds(s, f, n) /\ x = s[n]

LEMMA SumExists ==
  ASSUME NEW f, NEW n \in Nat
  PROVE  \E s : Adds(s, f, n)
<1> DEFINE P == {m \in Nat : \E s : Adds(s, f, m)}
<1>1. 0 \in P
  <2>1. Adds([k \in {0} |-> 0], f, 0)
    BY DEF Adds
  <2> QED BY <2>1
<1>2. ASSUME NEW m \in P PROVE m + 1 \in P
  <2>1. PICK s : Adds(s, f, m)
    BY <1>2
  <2> DEFINE t == [k \in 0 .. m + 1 |-> IF k = m + 1 THEN Plus[s[m]][f[m + 1]] ELSE s[k]]
  <2>2. m \in Nat
    OBVIOUS
  <2>3. t[0] = 0
    BY <2>1, <2>2 DEF Adds
  <2>4. ASSUME NEW k \in 1 .. m + 1 PROVE t[k] = Plus[t[k - 1]][f[k]]
    <3>1. k - 1 \in 0 .. m + 1 /\ k \in 0 .. m + 1 /\ k - 1 # m + 1
      BY <2>2
    <3>2. t[k - 1] = s[k - 1]
      BY <3>1
    <3>3. CASE k = m + 1
      <4>1. k - 1 = m
        BY <3>3, <2>2
      <4> QED BY <3>1, <3>2, <3>3, <4>1
    <3>4. CASE k # m + 1
      <4>1. k \in 1 .. m /\ t[k] = s[k]
        BY <3>1, <3>4, <2>2
      <4> QED BY <4>1, <3>2, <2>1 DEF Adds
    <3> QED BY <3>3, <3>4
  <2> HIDE DEF t
  <2>5. Adds(t, f, m + 1)
    BY <2>3, <2>4 DEF Adds
  <2> QED BY <2>2, <2>5
<1>3. P = Nat
  <2> HIDE DEF P
  <2>1. P \in SUBSET Nat
    BY DEF P
  <2> QED BY <1>1, <1>2, <2>1, Induction
<1> QED BY <1>3

LEMMA SumIs ==
  ASSUME NEW f, NEW n \in Nat, NEW s, Adds(s, f, n)
  PROVE  FieldSum(f, n) = s[n]
<1>1. ASSUME NEW t, Adds(t, f, n) PROVE t[n] = s[n]
  <2> DEFINE P == {k \in 0 .. n : t[k] = s[k]}
  <2>1. 0 \in P
    BY <1>1 DEF Adds
  <2>2. ASSUME NEW k \in P, k < n PROVE k + 1 \in P
    <3>1. k + 1 \in 1 .. n /\ (k + 1) - 1 = k /\ k + 1 \in 0 .. n
      BY <2>2
    <3> QED BY <3>1, <2>2, <1>1 DEF Adds
  <2>3. P = 0 .. n
    <3> HIDE DEF P
    <3>1. P \in SUBSET (0 .. n)
      BY DEF P
    <3> QED BY <2>1, <2>2, <3>1, InductionUpTo
  <2>4. n \in P
    BY <2>3
  <2> QED BY <2>4
<1>2. FieldSum(f, n) = CHOOSE x : \E t : Adds(t, f, n) /\ x = t[n]
  BY DEF FieldSum
<1>3. \E t : Adds(t, f, n) /\ FieldSum(f, n) = t[n]
  BY <1>2
<1> QED BY <1>1, <1>3

LEMMA SumSteps ==
  ASSUME NEW f
  PROVE  /\ FieldSum(f, 0) = 0
         /\ \A n \in Nat : FieldSum(f, n + 1) = Plus[FieldSum(f, n)][f[n + 1]]
<1>1. FieldSum(f, 0) = 0
  <2>1. PICK s : Adds(s, f, 0)
    BY SumExists
  <2> QED BY <2>1, SumIs DEF Adds
<1>2. ASSUME NEW n \in Nat PROVE FieldSum(f, n + 1) = Plus[FieldSum(f, n)][f[n + 1]]
  <2>1. PICK s : Adds(s, f, n + 1)
    BY SumExists
  <2>2. Adds(s, f, n) /\ s[n + 1] = Plus[s[n]][f[n + 1]]
    <3>1. n + 1 \in 1 .. n + 1 /\ (n + 1) - 1 = n /\ \A k \in 1 .. n : k \in 1 .. n + 1
      OBVIOUS
    <3> QED BY <2>1, <3>1 DEF Adds
  <2>3. FieldSum(f, n) = s[n] /\ FieldSum(f, n + 1) = s[n + 1]
    BY <2>1, <2>2, SumIs
  <2> QED BY <2>2, <2>3
<1> QED BY <1>1, <1>2

LEMMA SumTyped ==
  ASSUME NEW n \in Nat, NEW f, \A k \in 1 .. n : f[k] \in Field
  PROVE  \A k \in 0 .. n : FieldSum(f, k) \in Field
<1> DEFINE P == {k \in 0 .. n : FieldSum(f, k) \in Field}
<1>1. 0 \in P
  BY SumSteps, LogFacts
<1>2. ASSUME NEW k \in P, k < n PROVE k + 1 \in P
  <2>1. k \in Nat /\ k + 1 \in 1 .. n /\ k + 1 \in 0 .. n
    BY <1>2
  <2>2. FieldSum(f, k + 1) = Plus[FieldSum(f, k)][f[k + 1]] /\ f[k + 1] \in Field
    BY <2>1, SumSteps
  <2> QED BY <2>1, <2>2, PlusFacts
<1>3. P = 0 .. n
  <2> HIDE DEF P
  <2>1. P \in SUBSET (0 .. n)
    BY DEF P
  <2> QED BY <1>1, <1>2, <2>1, InductionUpTo
<1>4. \A k \in 0 .. n : k \in P
  BY <1>3
<1> QED BY <1>4

Exchanged(u, v, x, y) == Plus[Plus[u][v]][Plus[x][y]] = Plus[Plus[u][x]][Plus[v][y]]

LEMMA Exchange ==
  ASSUME NEW u \in Field, NEW v \in Field, NEW x \in Field, NEW y \in Field
  PROVE  Exchanged(u, v, x, y)
<1>1. Plus[x][y] \in Field /\ Plus[v][y] \in Field
  BY PlusFacts
<1>2. Associate(u, v, Plus[x][y]) /\ Associate(u, x, Plus[v][y])
  BY <1>1, PlusAssociates
<1>3. Associate(v, x, y) /\ Associate(x, v, y) /\ Plus[v][x] = Plus[x][v]
  BY PlusAssociates, PlusFacts
<1> QED BY ONLY <1>2, <1>3 DEF Associate, Exchanged

(* The sum of a combination is the combination of the sums.                *)
Combined(h, f, q, g, n) == \A k \in 1 .. n : h[k] = Plus[f[k]][Times[q][g[k]]]
Elements(f, n) == \A k \in 1 .. n : f[k] \in Field

LEMMA SumCombines ==
  ASSUME NEW n \in Nat, NEW f, NEW g, NEW h, NEW q \in Field,
         Elements(f, n), Elements(g, n), Combined(h, f, q, g, n)
  PROVE  FieldSum(h, n) = Plus[FieldSum(f, n)][Times[q][FieldSum(g, n)]]
<1> DEFINE P == {k \in 0 .. n : FieldSum(h, k) = Plus[FieldSum(f, k)][Times[q][FieldSum(g, k)]]}
<1>1. 0 \in P
  <2>1. FieldSum(f, 0) = 0 /\ FieldSum(g, 0) = 0 /\ FieldSum(h, 0) = 0
    BY SumSteps
  <2>2. Times[q][0] = 0 /\ Plus[0][0] = 0
    BY TimesFacts, PlusFacts, LogFacts
  <2> QED BY <2>1, <2>2
<1>2. ASSUME NEW k \in P, k < n PROVE k + 1 \in P
  <2>1. k \in Nat /\ k \in 0 .. n /\ k + 1 \in 1 .. n /\ k + 1 \in 0 .. n
    BY <1>2
  <2> DEFINE F == FieldSum(f, k)
             G == FieldSum(g, k)
             x == f[k + 1]
             y == g[k + 1]
  <2>2. F \in Field /\ G \in Field /\ x \in Field /\ y \in Field
    BY <2>1, SumTyped DEF Elements
  <2>3. /\ FieldSum(f, k + 1) = Plus[F][x] /\ FieldSum(g, k + 1) = Plus[G][y]
        /\ FieldSum(h, k + 1) = Plus[Plus[F][Times[q][G]]][Plus[x][Times[q][y]]]
    <3>1. h[k + 1] = Plus[x][Times[q][y]]
      BY <2>1 DEF Combined
    <3>2. FieldSum(h, k + 1) = Plus[FieldSum(h, k)][h[k + 1]]
      BY <2>1, SumSteps
    <3>3. FieldSum(f, k + 1) = Plus[F][x] /\ FieldSum(g, k + 1) = Plus[G][y]
      BY <2>1, SumSteps
    <3>4. FieldSum(h, k) = Plus[F][Times[q][G]]
      OBVIOUS
    <3> QED BY ONLY <3>1, <3>2, <3>3, <3>4
  <2> HIDE DEF F, G, x, y, P
  <2>4. Times[q][G] \in Field /\ Times[q][y] \in Field
    BY <2>2, TimesFacts
  <2>5. Times[q][Plus[G][y]] = Plus[Times[q][G]][Times[q][y]]
    BY <2>2, PlusFacts
  <2>6. Exchanged(F, Times[q][G], x, Times[q][y])
    BY <2>2, <2>4, Exchange
  <2>7. FieldSum(h, k + 1) = Plus[FieldSum(f, k + 1)][Times[q][FieldSum(g, k + 1)]]
    BY ONLY <2>3, <2>5, <2>6 DEF Exchanged
  <2> QED BY <2>1, <2>7 DEF P
<1>3. P = 0 .. n
  <2> HIDE DEF P
  <2>1. P \in SUBSET (0 .. n)
    BY DEF P
  <2> QED BY <1>1, <1>2, <2>1, InductionUpTo
<1>4. n \in P
  BY <1>3
<1> QED BY <1>4

LEMMA SumScales ==
  ASSUME NEW n \in Nat, NEW g, NEW h, NEW q \in Field,
         Elements(g, n), \A k \in 1 .. n : h[k] = Times[q][g[k]]
  PROVE  FieldSum(h, n) = Times[q][FieldSum(g, n)]
<1> DEFINE f == [k \in 1 .. n |-> 0]
<1>1. Elements(f, n)
  BY LogFacts DEF Elements
<1>2. \A k \in 1 .. n : Times[q][g[k]] \in Field
  BY TimesFacts DEF Elements
<1>3. Combined(h, f, q, g, n)
  BY <1>2, PlusFacts DEF Combined
<1>4. ASSUME NEW k \in 0 .. n PROVE FieldSum(f, k) = 0
  <2> DEFINE P == {j \in 0 .. n : FieldSum(f, j) = 0}
  <2> HIDE DEF f
  <2>1. 0 \in P
    BY SumSteps
  <2>2. ASSUME NEW j \in P, j < n PROVE j + 1 \in P
    <3>1. j \in Nat /\ j + 1 \in 1 .. n /\ j + 1 \in 0 .. n
      BY <2>2
    <3>2. f[j + 1] = 0
      BY <3>1 DEF f
    <3>3. FieldSum(f, j + 1) = Plus[0][0]
      BY <3>1, <3>2, SumSteps
    <3> QED BY <3>1, <3>3, PlusFacts, LogFacts
  <2>3. P = 0 .. n
    <3> HIDE DEF P
    <3>1. P \in SUBSET (0 .. n)
      BY DEF P
    <3> QED BY <2>1, <2>2, <3>1, InductionUpTo
  <2>4. k \in P
    BY <2>3
  <2> QED BY <2>4
<1> HIDE DEF f
<1>5. FieldSum(h, n) = Plus[FieldSum(f, n)][Times[q][FieldSum(g, n)]]
  BY <1>1, <1>3, SumCombines
<1>6. FieldSum(g, n) \in Field
  BY SumTyped DEF Elements
<1>7. FieldSum(f, n) = 0
  BY <1>4
<1>8. Times[q][FieldSum(g, n)] \in Field
  BY <1>6, TimesFacts
<1> QED BY <1>5, <1>7, <1>8, PlusFacts

LEMMA SumSame ==
  ASSUME NEW n \in Nat, NEW f, NEW g, \A k \in 1 .. n : f[k] = g[k]
  PROVE  FieldSum(f, n) = FieldSum(g, n)
<1>1. PICK s : Adds(s, f, n)
  BY SumExists
<1>2. Adds(s, g, n)
  BY <1>1 DEF Adds
<1> QED BY <1>1, <1>2, SumIs

(* The sum of a sequence that is put together.                             *)
Follow(f, g, m, h, n) ==
  /\ \A k \in 1 .. m : f[k] = g[k]
  /\ \A k \in 1 .. n : f[m + k] = h[k]

LEMMA SumJoins ==
  ASSUME NEW m \in Nat, NEW n \in Nat, NEW f, NEW g, NEW h,
         Elements(g, m), Elements(h, n), Follow(f, g, m, h, n)
  PROVE  FieldSum(f, m + n) = Plus[FieldSum(g, m)][FieldSum(h, n)]
<1> DEFINE P == {k \in 0 .. n : FieldSum(f, m + k) = Plus[FieldSum(g, m)][FieldSum(h, k)]}
<1>1. FieldSum(g, m) \in Field
  BY SumTyped DEF Elements
<1>2. 0 \in P
  <2>1. FieldSum(f, m) = FieldSum(g, m)
    BY SumSame DEF Follow
  <2>2. FieldSum(h, 0) = 0 /\ m + 0 = m
    BY SumSteps
  <2> QED BY <2>1, <2>2, <1>1, PlusFacts
<1>3. ASSUME NEW k \in P, k < n PROVE k + 1 \in P
  <2>1. k \in Nat /\ k \in 0 .. n /\ k + 1 \in 1 .. n /\ k + 1 \in 0 .. n /\ m + k \in Nat
        /\ m + (k + 1) = (m + k) + 1
    BY <1>3
  <2>2. FieldSum(f, (m + k) + 1) = Plus[FieldSum(f, m + k)][f[(m + k) + 1]]
    BY <2>1, SumSteps
  <2>3. f[(m + k) + 1] = h[k + 1] /\ h[k + 1] \in Field
    BY <2>1 DEF Follow, Elements
  <2>4. FieldSum(h, k + 1) = Plus[FieldSum(h, k)][h[k + 1]] /\ FieldSum(h, k) \in Field
    BY <2>1, SumSteps, SumTyped DEF Elements
  <2>5. Associate(FieldSum(g, m), FieldSum(h, k), h[k + 1])
    BY <1>1, <2>3, <2>4, PlusAssociates
  <2>6. FieldSum(f, m + k) = Plus[FieldSum(g, m)][FieldSum(h, k)]
    OBVIOUS
  <2>7. FieldSum(f, m + (k + 1)) = Plus[FieldSum(g, m)][FieldSum(h, k + 1)]
    BY ONLY <2>1, <2>2, <2>3, <2>4, <2>5, <2>6 DEF Associate
  <2> QED BY <2>1, <2>7
<1>4. P = 0 .. n
  <2> HIDE DEF P
  <2>1. P \in SUBSET (0 .. n)
    BY DEF P
  <2> QED BY <1>2, <1>3, <2>1, InductionUpTo
<1>5. n \in P
  BY <1>4
<1> QED BY <1>5

(* A sum of one term.                                                      *)
LEMMA SumOfOne ==
  ASSUME NEW n \in Nat, NEW j \in 1 .. n, NEW v \in Field, NEW f,
         \A k \in 1 .. n : f[k] = IF k = j THEN v ELSE 0
  PROVE  FieldSum(f, n) = v
<1> DEFINE P == {k \in 0 .. n : FieldSum(f, k) = IF k < j THEN 0 ELSE v}
<1>1. 0 \in P
  BY SumSteps
<1>2. ASSUME NEW k \in P, k < n PROVE k + 1 \in P
  <2>1. k \in Nat /\ k \in 0 .. n /\ k + 1 \in 1 .. n /\ k + 1 \in 0 .. n
    BY <1>2
  <2>2. FieldSum(f, k + 1) = Plus[IF k < j THEN 0 ELSE v][IF k + 1 = j THEN v ELSE 0]
    BY <2>1, <1>2, SumSteps
  <2>3. Plus[0][0] = 0 /\ Plus[0][v] = v /\ Plus[v][0] = v
    BY PlusFacts, LogFacts
  <2>5. FieldSum(f, k + 1) = IF k + 1 < j THEN 0 ELSE v
    <3>1. CASE k + 1 < j
      <4>1. k < j /\ k + 1 # j
        BY <3>1, <2>1
      <4> QED BY <4>1, <3>1, <2>2, <2>3
    <3>2. CASE k + 1 = j
      <4>1. k < j /\ ~(k + 1 < j)
        BY <3>2, <2>1
      <4> QED BY <4>1, <3>2, <2>2, <2>3
    <3>3. CASE k + 1 > j
      <4>1. ~(k < j) /\ ~(k + 1 < j) /\ k + 1 # j
        BY <3>3, <2>1
      <4> QED BY <4>1, <2>2, <2>3
    <3> QED BY <3>1, <3>2, <3>3, <2>1
  <2> QED BY <2>1, <2>5
<1>3. P = 0 .. n
  <2> HIDE DEF P
  <2>1. P \in SUBSET (0 .. n)
    BY DEF P
  <2> QED BY <1>1, <1>2, <2>1, InductionUpTo
<1>4. n \in P
  BY <1>3
<1> QED BY <1>4

-----------------------------------------------------------------------------
(* The numbers of a set in their order.                                    *)

Enumerates(g, s, n) ==
  /\ g[0] = <<>>
  /\ \A k \in 1 .. n : g[k] = IF k \in s THEN Append(g[k - 1], k) ELSE g[k - 1]

LEMMA EnumerationExists ==
  ASSUME NEW s, NEW n \in Nat
  PROVE  \E g : Enumerates(g, s, n)
<1> DEFINE P == {m \in Nat : \E g : Enumerates(g, s, m)}
<1>1. 0 \in P
  <2>1. Enumerates([k \in {0} |-> <<>>], s, 0)
    BY DEF Enumerates
  <2> QED BY <2>1
<1>2. ASSUME NEW m \in P PROVE m + 1 \in P
  <2>1. PICK g : Enumerates(g, s, m)
    BY <1>2
  <2> DEFINE next == IF m + 1 \in s THEN Append(g[m], m + 1) ELSE g[m]
             h == [k \in 0 .. m + 1 |-> IF k = m + 1 THEN next ELSE g[k]]
  <2>2. m \in Nat
    OBVIOUS
  <2>3. h[0] = <<>>
    BY <2>1, <2>2 DEF Enumerates
  <2>4. ASSUME NEW k \in 1 .. m + 1 PROVE h[k] = IF k \in s THEN Append(h[k - 1], k) ELSE h[k - 1]
    <3>1. k - 1 \in 0 .. m + 1 /\ k \in 0 .. m + 1 /\ k - 1 # m + 1
      BY <2>2
    <3>2. h[k - 1] = g[k - 1]
      BY <3>1
    <3>3. CASE k = m + 1
      <4>1. k - 1 = m
        BY <3>3, <2>2
      <4> QED BY <3>1, <3>2, <3>3, <4>1
    <3>4. CASE k # m + 1
      <4>1. k \in 1 .. m /\ h[k] = g[k]
        BY <3>1, <3>4, <2>2
      <4> QED BY <4>1, <3>2, <2>1 DEF Enumerates
    <3> QED BY <3>3, <3>4
  <2> HIDE DEF h
  <2>5. Enumerates(h, s, m + 1)
    BY <2>3, <2>4 DEF Enumerates
  <2> QED BY <2>2, <2>5
<1>3. P = Nat
  <2> HIDE DEF P
  <2>1. P \in SUBSET Nat
    BY DEF P
  <2> QED BY <1>1, <1>2, <2>1, Induction
<1> QED BY <1>3

LEMMA IndicesEnumerate ==
  ASSUME NEW s, NEW n \in Nat
  PROVE  \E g : Enumerates(g, s, n) /\ Indices(n, s) = g[n]
<1> DEFINE Right(g) == g = [k \in 0 .. n |-> IF k = 0 THEN <<>>
                                             ELSE IF k \in s THEN Append(g[k - 1], k) ELSE g[k - 1]]
           upto == CHOOSE g : Right(g)
<1>1. PICK g : Enumerates(g, s, n)
  BY EnumerationExists
<1>2. Right([k \in 0 .. n |-> g[k]])
  <2> DEFINE h == [k \in 0 .. n |-> g[k]]
  <2>1. ASSUME NEW k \in 0 .. n
        PROVE  h[k] = IF k = 0 THEN <<>> ELSE IF k \in s THEN Append(h[k - 1], k) ELSE h[k - 1]
    <3>1. CASE k = 0
      BY <3>1, <1>1 DEF Enumerates
    <3>2. CASE k # 0
      <4>1. k \in 1 .. n /\ k - 1 \in 0 .. n
        BY <3>2
      <4> QED BY <3>2, <4>1, <1>1 DEF Enumerates
    <3> QED BY <3>1, <3>2
  <2>2. h = [k \in 0 .. n |-> IF k = 0 THEN <<>>
                              ELSE IF k \in s THEN Append(h[k - 1], k) ELSE h[k - 1]]
    BY <2>1
  <2> QED BY <2>2
<1>3. Right(upto)
  <2> HIDE DEF Right
  <2> QED BY <1>2
<1>4. Indices(n, s) = upto[n]
  BY DEF Indices
<1> HIDE DEF upto
<1>5. Enumerates(upto, s, n)
  <2>1. upto[0] = <<>>
    <3>1. 0 \in 0 .. n
      OBVIOUS
    <3> QED BY <3>1, <1>3
  <2>2. ASSUME NEW k \in 1 .. n PROVE upto[k] = IF k \in s THEN Append(upto[k - 1], k) ELSE upto[k - 1]
    <3>1. k \in 0 .. n /\ k # 0
      OBVIOUS
    <3> QED BY <3>1, <1>3
  <2> QED BY <2>1, <2>2 DEF Enumerates
<1> QED BY <1>4, <1>5

LEMMA EnumerationFacts ==
  ASSUME NEW s, NEW n \in Nat, NEW g, Enumerates(g, s, n)
  PROVE  \A k \in 0 .. n : g[k] \in Seq(s \intersect (1 .. k)) /\ Len(g[k]) = Cardinality(s \intersect (1 .. k))
<1> DEFINE Part(k) == s \intersect (1 .. k)
           P == {k \in 0 .. n : g[k] \in Seq(Part(k)) /\ Len(g[k]) = Cardinality(Part(k))}
<1>1. 0 \in P
  <2>1. Part(0) = {} /\ g[0] = <<>>
    BY DEF Enumerates
  <2>2. <<>> \in Seq(Part(0)) /\ Len(<<>>) = 0
    OBVIOUS
  <2> HIDE DEF Part
  <2>3. g[0] \in Seq(Part(0)) /\ Len(g[0]) = Cardinality(Part(0)) /\ 0 \in 0 .. n
    BY <2>1, <2>2, FS_EmptySet
  <2> QED BY <2>3
<1>2. ASSUME NEW k \in P, k < n PROVE k + 1 \in P
  <2>1. k \in Nat /\ k + 1 \in 1 .. n /\ (k + 1) - 1 = k /\ k + 1 \in 0 .. n /\ k + 1 \notin Part(k)
    BY <1>2
  <2>2. g[k + 1] = IF k + 1 \in s THEN Append(g[k], k + 1) ELSE g[k]
    BY <2>1 DEF Enumerates
  <2>3. Part(k + 1) = IF k + 1 \in s THEN Part(k) \union {k + 1} ELSE Part(k)
    BY <2>1
  <2>4. IsFiniteSet(Part(k))
    <3>1. IsFiniteSet(1 .. k)
      BY <2>1, FS_Interval
    <3> QED BY <3>1, FS_Subset
  <2>5. g[k] \in Seq(Part(k)) /\ Len(g[k]) = Cardinality(Part(k)) /\ k + 1 \in Nat
    BY <2>1
  <2> HIDE DEF Part
  <2>6. CASE k + 1 \in s
    <3>1. Cardinality(Part(k + 1)) = Cardinality(Part(k)) + 1
      BY <2>1, <2>3, <2>4, <2>6, FS_AddElement
    <3>2. g[k] \in Seq(Part(k + 1)) /\ k + 1 \in Part(k + 1)
      BY <2>3, <2>5, <2>6
    <3>3. Append(g[k], k + 1) \in Seq(Part(k + 1)) /\ Len(Append(g[k], k + 1)) = Len(g[k]) + 1
      BY <3>2
    <3> QED BY <2>1, <2>2, <2>5, <2>6, <3>1, <3>3
  <2>7. CASE k + 1 \notin s
    BY <2>1, <2>2, <2>3, <2>5, <2>7
  <2> QED BY <2>6, <2>7
<1>3. P = 0 .. n
  <2> HIDE DEF P
  <2>1. P \in SUBSET (0 .. n)
    BY DEF P
  <2> QED BY <1>1, <1>2, <2>1, InductionUpTo
<1>4. \A k \in 0 .. n : k \in P
  BY <1>3
<1> QED BY <1>4

LEMMA IndicesFacts ==
  ASSUME NEW s, NEW n \in Nat
  PROVE  Indices(n, s) \in Seq(s \intersect (1 .. n)) /\ Len(Indices(n, s)) = Cardinality(s \intersect (1 .. n))
BY IndicesEnumerate, EnumerationFacts

LEMMA AllIndices ==
  ASSUME NEW s, NEW n \in Nat, 1 .. n \subseteq s
  PROVE  Indices(n, s) = [i \in 1 .. n |-> i]
<1>1. PICK g : Enumerates(g, s, n) /\ Indices(n, s) = g[n]
  BY IndicesEnumerate
<1> DEFINE Same(k) == [i \in 1 .. k |-> i]
           P == {k \in 0 .. n : g[k] = Same(k)}
<1>2. 0 \in P
  BY <1>1 DEF Enumerates
<1>3. ASSUME NEW k \in P, k < n PROVE k + 1 \in P
  <2>1. k \in Nat /\ k + 1 \in 1 .. n /\ (k + 1) - 1 = k /\ k + 1 \in 0 .. n
    BY <1>3
  <2>2. g[k + 1] = Append(Same(k), k + 1)
    BY <1>1, <2>1 DEF Enumerates
  <2>3. Same(k) \in Seq(Nat) /\ Len(Same(k)) = k
    BY <2>1
  <2>4. Append(Same(k), k + 1) = Same(k + 1)
    <3>1. /\ Len(Append(Same(k), k + 1)) = k + 1 /\ Append(Same(k), k + 1) \in Seq(Nat)
          /\ \A i \in 1 .. k + 1 : Append(Same(k), k + 1)[i] = i
      BY <2>1, <2>3
    <3>2. Append(Same(k), k + 1) = [i \in 1 .. k + 1 |-> Append(Same(k), k + 1)[i]]
      BY <3>1, <2>1
    <3> HIDE DEF Same
    <3> QED BY <3>1, <3>2 DEF Same
  <2> QED BY <2>1, <2>2, <2>4
<1>4. P = 0 .. n
  <2> HIDE DEF P
  <2>1. P \in SUBSET (0 .. n)
    BY DEF P
  <2> QED BY <1>2, <1>3, <2>1, InductionUpTo
<1>5. n \in P
  <2> HIDE DEF P
  <2> QED BY <1>4
<1>6. g[n] = Same(n)
  <2> HIDE DEF Same
  <2> QED BY <1>5
<1> QED BY <1>1, <1>6

LEMMA NoIndices ==
  ASSUME NEW s, NEW n \in Nat, s \intersect (1 .. n) = {}
  PROVE  Indices(n, s) = <<>>
<1>1. Indices(n, s) \in Seq({}) /\ Len(Indices(n, s)) = 0
  BY IndicesFacts, FS_EmptySet
<1> QED BY <1>1

(* A sum is that over some of the indices and that over the others.        *)
Along(f, s) == [i \in DOMAIN s |-> f[s[i]]]
SumAlong(f, s) == FieldSum(Along(f, s), Len(s))

LEMMA SumAlongNext ==
  ASSUME NEW f, NEW s \in Seq(Nat), NEW k \in Nat
  PROVE  SumAlong(f, Append(s, k)) = Plus[SumAlong(f, s)][f[k]]
<1> DEFINE t == Append(s, k)
           n == Len(s)
<1>1. /\ t \in Seq(Nat) /\ n \in Nat /\ Len(t) = n + 1 /\ DOMAIN t = 1 .. n + 1 /\ DOMAIN s = 1 .. n
      /\ t[n + 1] = k /\ \A i \in 1 .. n : t[i] = s[i]
  OBVIOUS
<1> HIDE DEF t, n
<1>2. Along(f, t)[n + 1] = f[k] /\ \A i \in 1 .. n : Along(f, t)[i] = Along(f, s)[i]
  BY <1>1 DEF Along
<1>3. FieldSum(Along(f, t), n + 1) = Plus[FieldSum(Along(f, t), n)][Along(f, t)[n + 1]]
  BY <1>1, SumSteps
<1>4. FieldSum(Along(f, t), n) = FieldSum(Along(f, s), n)
  BY <1>1, <1>2, SumSame
<1>5. SumAlong(f, t) = FieldSum(Along(f, t), n + 1) /\ SumAlong(f, s) = FieldSum(Along(f, s), n)
  BY <1>1 DEF SumAlong, n
<1> QED BY <1>2, <1>3, <1>4, <1>5 DEF t

LEMMA SumAlongTyped ==
  ASSUME NEW n \in Nat, NEW f, Elements(f, n), NEW s \in Seq(1 .. n)
  PROVE  SumAlong(f, s) \in Field
<1>1. Len(s) \in Nat /\ DOMAIN s = 1 .. Len(s) /\ \A i \in 1 .. Len(s) : s[i] \in 1 .. n
  OBVIOUS
<1>2. \A i \in 1 .. Len(s) : Along(f, s)[i] \in Field
  BY <1>1 DEF Along, Elements
<1>3. Len(s) \in 0 .. Len(s)
  BY <1>1
<1> QED BY <1>1, <1>2, <1>3, SumTyped DEF SumAlong

LEMMA SumSplits ==
  ASSUME NEW n \in Nat, NEW f, Elements(f, n), NEW s
  PROVE  FieldSum(f, n) = Plus[SumAlong(f, Indices(n, s))][SumAlong(f, Indices(n, (1 .. n) \ s))]
<1> DEFINE c == (1 .. n) \ s
<1>1. PICK g : Enumerates(g, s, n) /\ Indices(n, s) = g[n]
  BY IndicesEnumerate
<1>2. PICK h : Enumerates(h, c, n) /\ Indices(n, c) = h[n]
  BY IndicesEnumerate
<1>3. ASSUME NEW k \in 0 .. n
      PROVE  /\ g[k] \in Seq(Nat) /\ h[k] \in Seq(Nat)
             /\ SumAlong(f, g[k]) \in Field /\ SumAlong(f, h[k]) \in Field
  <2>1. g[k] \in Seq(s \intersect (1 .. k)) /\ h[k] \in Seq(c \intersect (1 .. k))
    BY <1>1, <1>2, EnumerationFacts
  <2>2. s \intersect (1 .. k) \subseteq 1 .. n /\ c \intersect (1 .. k) \subseteq 1 .. n /\ 1 .. n \subseteq Nat
    OBVIOUS
  <2>3. g[k] \in Seq(1 .. n) /\ h[k] \in Seq(1 .. n)
    BY <2>1, <2>2
  <2>4. g[k] \in Seq(Nat) /\ h[k] \in Seq(Nat)
    BY <2>2, <2>3
  <2> QED BY <2>3, <2>4, SumAlongTyped
<1> DEFINE P == {k \in 0 .. n : FieldSum(f, k) = Plus[SumAlong(f, g[k])][SumAlong(f, h[k])]}
<1>4. 0 \in P
  <2>1. g[0] = <<>> /\ h[0] = <<>>
    BY <1>1, <1>2 DEF Enumerates
  <2>2. SumAlong(f, <<>>) = 0
    <3>1. Len(<<>>) = 0
      OBVIOUS
    <3> QED BY <3>1, SumSteps DEF SumAlong
  <2>3. FieldSum(f, 0) = 0 /\ Plus[0][0] = 0 /\ 0 \in 0 .. n
    BY SumSteps, PlusFacts, LogFacts
  <2> QED BY <2>1, <2>2, <2>3
<1>5. ASSUME NEW k \in P, k < n PROVE k + 1 \in P
  <2>1. k \in Nat /\ k \in 0 .. n /\ k + 1 \in 1 .. n /\ (k + 1) - 1 = k /\ k + 1 \in 0 .. n
    BY <1>5
  <2> DEFINE G == SumAlong(f, g[k])
             H == SumAlong(f, h[k])
             x == f[k + 1]
  <2>2. G \in Field /\ H \in Field /\ x \in Field
    BY <2>1, <1>3 DEF Elements
  <2>3. FieldSum(f, k) = Plus[G][H]
    OBVIOUS
  <2>4. FieldSum(f, k + 1) = Plus[FieldSum(f, k)][x]
    BY <2>1, SumSteps
  <2>5. FieldSum(f, k + 1) = Plus[SumAlong(f, g[k + 1])][SumAlong(f, h[k + 1])]
    <3>1. CASE k + 1 \in s
      <4>1. g[k + 1] = Append(g[k], k + 1) /\ h[k + 1] = h[k]
        BY <3>1, <2>1, <1>1, <1>2 DEF Enumerates
      <4>2. SumAlong(f, g[k + 1]) = Plus[G][x] /\ SumAlong(f, h[k + 1]) = H
        BY <4>1, <2>1, <1>3, SumAlongNext
      <4> HIDE DEF G, H, x
      <4>3. Plus[Plus[G][H]][x] = Plus[Plus[G][x]][H]
        <5>1. Associate(G, H, x) /\ Associate(G, x, H) /\ Plus[H][x] = Plus[x][H]
          BY <2>2, PlusAssociates, PlusFacts
        <5> QED BY ONLY <5>1 DEF Associate
      <4> QED BY ONLY <2>3, <2>4, <4>2, <4>3
    <3>2. CASE k + 1 \notin s
      <4>1. g[k + 1] = g[k] /\ h[k + 1] = Append(h[k], k + 1)
        BY <3>2, <2>1, <1>1, <1>2 DEF Enumerates
      <4>2. SumAlong(f, h[k + 1]) = Plus[H][x] /\ SumAlong(f, g[k + 1]) = G
        BY <4>1, <2>1, <1>3, SumAlongNext
      <4> HIDE DEF G, H, x
      <4>3. Associate(G, H, x)
        BY <2>2, PlusAssociates
      <4> QED BY ONLY <2>3, <2>4, <4>2, <4>3 DEF Associate
    <3> QED BY <3>1, <3>2
  <2> QED BY <2>1, <2>5
<1>6. P = 0 .. n
  <2> HIDE DEF P
  <2>1. P \in SUBSET (0 .. n)
    BY DEF P
  <2> QED BY <1>4, <1>5, <2>1, InductionUpTo
<1>7. n \in P
  BY <1>6
<1> QED BY <1>1, <1>2, <1>7

-----------------------------------------------------------------------------
(* The elimination.                                                        *)

IsMatrix(m, k, N) == m \in [(1 .. k) \X (1 .. N + k) -> Field]
LeftRow(m, i, N) == [n \in 1 .. N |-> m[<<i, n>>]]
RightRow(m, i, N, k) == [j \in 1 .. k |-> m[<<i, N + j>>]]
Products(a, x, n) == [i \in 1 .. n |-> Times[a[i]][x[i]]]

(* What is read makes, by a row, the same sum as what is computed.         *)
Equation(m, i, x, y, N, k) ==
  FieldSum(Products(LeftRow(m, i, N), x, N), N) = FieldSum(Products(RightRow(m, i, N, k), y, k), k)
Equations(m, x, y, N, k) == \A i \in 1 .. k : Equation(m, i, x, y, N, k)
UnitUpTo(m, r, N, k) == \A i \in 1 .. k, j \in 1 .. r : m[<<i, N + j>>] = IF i = j THEN 1 ELSE 0

(* A row is scaled, and taken from the others.                             *)
Cleared(m, new, row, inverse, N, k) ==
  /\ Times[inverse][m[<<row, N + row>>]] = 1
  /\ \A c \in 1 .. N + k : new[<<row, c>>] = Times[inverse][m[<<row, c>>]]
  /\ \A i \in 1 .. k : i # row =>
       \A c \in 1 .. N + k : new[<<i, c>>] = Plus[m[<<i, c>>]][Times[m[<<i, N + row>>]][new[<<row, c>>]]]

LEMMA EliminateFacts ==
  ASSUME NEW N \in Nat, NEW k \in Nat, NEW row \in 1 .. k, NEW m, IsMatrix(m, k, N),
         Eliminate(m, row, N) # Unsolvable
  PROVE  /\ IsMatrix(Eliminate(m, row, N), k, N)
         /\ \E inverse \in Field : Cleared(m, Eliminate(m, row, N), row, inverse, N, k)
<1> DEFINE D == (1 .. k) \X (1 .. N + k)
           pivot == m[<<row, N + row>>]
           Scaled(c) == Divide(m[<<row, c>>], pivot)
           new == [at \in D |-> IF at[1] = row THEN Scaled(at[2])
                                ELSE Plus[m[at]][Times[Scaled(at[2])][m[<<at[1], N + row>>]]]]
<1>1. DOMAIN m = D /\ N + row \in 1 .. N + k /\ row \in 1 .. k /\ \A at \in D : m[at] \in Field
  BY DEF IsMatrix
<1>2. \A i \in 1 .. k, c \in 1 .. N + k : <<i, c>> \in D /\ m[<<i, c>>] \in Field
  BY <1>1
<1>3. pivot # 0 /\ Eliminate(m, row, N) = new
  BY <1>1 DEF Eliminate
<1>4. pivot \in Field
  BY <1>1, <1>2
<1> HIDE DEF pivot
<1>5. PICK inverse \in Field : /\ Times[inverse][pivot] = 1
                               /\ \A v \in Field : Divide(v, pivot) = Times[inverse][v]
  BY <1>3, <1>4, DivideFacts
<1>6. ASSUME NEW c \in 1 .. N + k PROVE Scaled(c) = Times[inverse][m[<<row, c>>]] /\ Scaled(c) \in Field
  <2>1. m[<<row, c>>] \in Field
    BY <1>2
  <2> QED BY <2>1, <1>5, TimesFacts
<1>7. ASSUME NEW i \in 1 .. k, NEW c \in 1 .. N + k
      PROVE  /\ new[<<i, c>>] = IF i = row THEN Times[inverse][m[<<row, c>>]]
                            ELSE Plus[m[<<i, c>>]][Times[m[<<i, N + row>>]][Times[inverse][m[<<row, c>>]]]]
             /\ new[<<i, c>>] \in Field
  <2>1. /\ Scaled(c) = Times[inverse][m[<<row, c>>]] /\ Scaled(c) \in Field
        /\ m[<<i, c>>] \in Field /\ m[<<i, N + row>>] \in Field
    BY <1>1, <1>2, <1>6
  <2>2. new[<<i, c>>] = IF i = row THEN Scaled(c) ELSE Plus[m[<<i, c>>]][Times[Scaled(c)][m[<<i, N + row>>]]]
    BY <1>2
  <2>3. /\ Times[Scaled(c)][m[<<i, N + row>>]] = Times[m[<<i, N + row>>]][Scaled(c)]
        /\ Times[m[<<i, N + row>>]][Scaled(c)] \in Field
    BY <2>1, TimesFacts
  <2> HIDE DEF Scaled, new
  <2>4. Plus[m[<<i, c>>]][Times[m[<<i, N + row>>]][Scaled(c)]] \in Field
    BY <2>1, <2>3, PlusFacts
  <2> QED BY <2>1, <2>2, <2>3, <2>4
<1>8. new \in [D -> Field]
  <2>1. ASSUME NEW at \in D PROVE new[at] \in Field
    <3>1. PICK i \in 1 .. k, c \in 1 .. N + k : at = <<i, c>>
      OBVIOUS
    <3> HIDE DEF new
    <3> QED BY <3>1, <1>7
  <2>2. new = [at \in D |-> new[at]]
    OBVIOUS
  <2> HIDE DEF new, D
  <2> QED BY <2>1, <2>2
<1> HIDE DEF new, Scaled, D
<1>9. \A c \in 1 .. N + k : new[<<row, c>>] = Times[inverse][m[<<row, c>>]]
  BY <1>1, <1>7
<1>10. ASSUME NEW i \in 1 .. k, i # row, NEW c \in 1 .. N + k
       PROVE  new[<<i, c>>] = Plus[m[<<i, c>>]][Times[m[<<i, N + row>>]][new[<<row, c>>]]]
  BY <1>7, <1>9, <1>10
<1>11. Cleared(m, new, row, inverse, N, k)
  BY <1>5, <1>9, <1>10 DEF Cleared, pivot
<1> QED BY <1>3, <1>5, <1>8, <1>11 DEF IsMatrix, D

LEMMA ProductOfThree ==
  ASSUME NEW q \in Field, NEW v \in Field, NEW w \in Field
  PROVE  Times[Times[q][v]][w] = Times[q][Times[v][w]]
BY TimesFacts

LEMMA ProductOfSum ==
  ASSUME NEW u \in Field, NEW q \in Field, NEW v \in Field, NEW w \in Field
  PROVE  Times[Plus[u][Times[q][v]]][w] = Plus[Times[u][w]][Times[q][Times[v][w]]]
<1> DEFINE z == Times[q][v]
<1>1. z \in Field
  BY TimesFacts
<1>2. Times[z][w] = Times[q][Times[v][w]]
  BY ProductOfThree
<1> HIDE DEF z
<1>3. Times[Plus[u][z]][w] = Plus[Times[u][w]][Times[z][w]]
  BY <1>1, TimesFacts
<1> QED BY <1>2, <1>3 DEF z

(* A sum of products with a row that is scaled, or that another was added  *)
(* to.                                                                     *)
LEMMA ScaledRow ==
  ASSUME NEW n \in Nat, NEW a, Elements(a, n), NEW x, Elements(x, n), NEW q \in Field,
         NEW b, \A i \in 1 .. n : b[i] = Times[q][a[i]]
  PROVE  FieldSum(Products(b, x, n), n) = Times[q][FieldSum(Products(a, x, n), n)]
<1> DEFINE g == Products(a, x, n)
           h == Products(b, x, n)
<1>1. ASSUME NEW i \in 1 .. n PROVE g[i] \in Field /\ h[i] = Times[q][g[i]]
  <2> DEFINE v == a[i]
             w == x[i]
  <2>1. v \in Field /\ w \in Field /\ b[i] = Times[q][v]
    BY DEF Elements
  <2>2. g[i] = Times[v][w] /\ h[i] = Times[b[i]][w]
    BY DEF Products
  <2> HIDE DEF g, h, v, w
  <2>3. Times[v][w] \in Field /\ Times[Times[q][v]][w] = Times[q][Times[v][w]]
    BY <2>1, ProductOfThree, TimesFacts
  <2> QED BY <2>1, <2>2, <2>3
<1> HIDE DEF g, h
<1>2. Elements(g, n)
  BY <1>1 DEF Elements
<1>3. FieldSum(h, n) = Times[q][FieldSum(g, n)]
  BY <1>1, <1>2, SumScales
<1> QED BY <1>3 DEF g, h

LEMMA AddedRow ==
  ASSUME NEW n \in Nat, NEW a, Elements(a, n), NEW b, Elements(b, n), NEW x, Elements(x, n), NEW q \in Field,
         NEW c, Combined(c, a, q, b, n)
  PROVE  FieldSum(Products(c, x, n), n)
           = Plus[FieldSum(Products(a, x, n), n)][Times[q][FieldSum(Products(b, x, n), n)]]
<1> DEFINE f == Products(a, x, n)
           g == Products(b, x, n)
           h == Products(c, x, n)
<1>1. ASSUME NEW i \in 1 .. n PROVE f[i] \in Field /\ g[i] \in Field /\ h[i] = Plus[f[i]][Times[q][g[i]]]
  <2> DEFINE u == a[i]
             v == b[i]
             w == x[i]
  <2>1. u \in Field /\ v \in Field /\ w \in Field /\ c[i] = Plus[u][Times[q][v]]
    BY DEF Elements, Combined
  <2>2. f[i] = Times[u][w] /\ g[i] = Times[v][w] /\ h[i] = Times[c[i]][w]
    BY DEF Products
  <2> HIDE DEF f, g, h, u, v, w
  <2>3. f[i] \in Field /\ g[i] \in Field
    BY <2>1, <2>2, TimesFacts
  <2>4. Times[Plus[u][Times[q][v]]][w] = Plus[Times[u][w]][Times[q][Times[v][w]]]
    BY <2>1, ProductOfSum
  <2> QED BY <2>1, <2>2, <2>3, <2>4
<1> HIDE DEF f, g, h
<1>2. Elements(f, n) /\ Elements(g, n) /\ Combined(h, f, q, g, n)
  BY <1>1 DEF Elements, Combined
<1>3. FieldSum(h, n) = Plus[FieldSum(f, n)][Times[q][FieldSum(g, n)]]
  BY <1>2, SumCombines
<1> QED BY <1>3 DEF f, g, h

LEMMA RowFacts ==
  ASSUME NEW N \in Nat, NEW k \in Nat, NEW m, IsMatrix(m, k, N), NEW i \in 1 .. k
  PROVE  Elements(LeftRow(m, i, N), N) /\ Elements(RightRow(m, i, N, k), k)
<1>1. \A c \in 1 .. N + k : m[<<i, c>>] \in Field
  BY DEF IsMatrix
<1>2. (\A n \in 1 .. N : n \in 1 .. N + k) /\ (\A j \in 1 .. k : N + j \in 1 .. N + k)
  OBVIOUS
<1> QED BY <1>1, <1>2 DEF Elements, LeftRow, RightRow

LEMMA ProductsTyped ==
  ASSUME NEW n \in Nat, NEW a, Elements(a, n), NEW x, Elements(x, n)
  PROVE  FieldSum(Products(a, x, n), n) \in Field
<1>1. \A i \in 1 .. n : Products(a, x, n)[i] \in Field
  BY TimesFacts DEF Elements, Products
<1>2. n \in 0 .. n
  OBVIOUS
<1> QED BY <1>1, <1>2, SumTyped

LEMMA ClearedKeeps ==
  ASSUME NEW N \in Nat, NEW k \in Nat, NEW row \in 1 .. k, NEW inverse \in Field,
         NEW m, IsMatrix(m, k, N), NEW new, IsMatrix(new, k, N), Cleared(m, new, row, inverse, N, k),
         NEW x, Elements(x, N), NEW y, Elements(y, k), Equations(m, x, y, N, k)
  PROVE  Equations(new, x, y, N, k)
<1> DEFINE L(t, i) == FieldSum(Products(LeftRow(t, i, N), x, N), N)
           R(t, i) == FieldSum(Products(RightRow(t, i, N, k), y, k), k)
<1>0. (\A n \in 1 .. N : n \in 1 .. N + k) /\ (\A j \in 1 .. k : N + j \in 1 .. N + k)
  OBVIOUS
<1>1. \A i \in 1 .. k : L(m, i) = R(m, i)
  BY DEF Equations, Equation
<1>2. L(new, row) = R(new, row)
  <2>1. \A n \in 1 .. N : LeftRow(new, row, N)[n] = Times[inverse][LeftRow(m, row, N)[n]]
    BY <1>0 DEF LeftRow, Cleared
  <2>2. \A j \in 1 .. k : RightRow(new, row, N, k)[j] = Times[inverse][RightRow(m, row, N, k)[j]]
    BY <1>0 DEF RightRow, Cleared
  <2>3. L(new, row) = Times[inverse][L(m, row)]
    BY <2>1, RowFacts, ScaledRow
  <2>4. R(new, row) = Times[inverse][R(m, row)]
    BY <2>2, RowFacts, ScaledRow
  <2> QED BY <2>3, <2>4, <1>1
<1>3. ASSUME NEW i \in 1 .. k, i # row PROVE L(new, i) = R(new, i)
  <2> DEFINE q == m[<<i, N + row>>]
  <2>1. q \in Field
    BY <1>0 DEF IsMatrix
  <2>2. \A c \in 1 .. N + k : new[<<i, c>>] = Plus[m[<<i, c>>]][Times[q][new[<<row, c>>]]]
    BY <1>3 DEF Cleared
  <2> HIDE DEF q
  <2>3. Combined(LeftRow(new, i, N), LeftRow(m, i, N), q, LeftRow(new, row, N), N)
    BY <1>0, <2>2 DEF LeftRow, Combined
  <2>4. Combined(RightRow(new, i, N, k), RightRow(m, i, N, k), q, RightRow(new, row, N, k), k)
    BY <1>0, <2>2 DEF RightRow, Combined
  <2>5. L(new, i) = Plus[L(m, i)][Times[q][L(new, row)]]
    BY <2>1, <2>3, RowFacts, AddedRow
  <2>6. R(new, i) = Plus[R(m, i)][Times[q][R(new, row)]]
    BY <2>1, <2>4, RowFacts, AddedRow
  <2> QED BY <2>5, <2>6, <1>1, <1>2
<1> QED BY <1>2, <1>3 DEF Equations, Equation

LEMMA ClearedUnit ==
  ASSUME NEW N \in Nat, NEW k \in Nat, NEW row \in 1 .. k, NEW inverse \in Field,
         NEW m, IsMatrix(m, k, N), NEW new, Cleared(m, new, row, inverse, N, k),
         UnitUpTo(m, row - 1, N, k)
  PROVE  UnitUpTo(new, row, N, k)
<1>0. \A j \in 1 .. k : N + j \in 1 .. N + k
  OBVIOUS
<1>1. 0 \in Field /\ 1 \in Field /\ Times[inverse][0] = 0 /\ Plus[0][0] = 0
  BY LogFacts, TimesFacts, PlusFacts
<1>2. ASSUME NEW i \in 1 .. k, NEW j \in 1 .. row PROVE new[<<i, N + j>>] = IF i = j THEN 1 ELSE 0
  <2>1. j \in 1 .. k /\ N + j \in 1 .. N + k /\ N + row \in 1 .. N + k
    BY <1>0
  <2>2. CASE j = row /\ i = row
    BY <2>1, <2>2 DEF Cleared
  <2>3. CASE j = row /\ i # row
    <3>1. new[<<row, N + row>>] = 1
      BY <2>1 DEF Cleared
    <3>2. new[<<i, N + row>>] = Plus[m[<<i, N + row>>]][Times[m[<<i, N + row>>]][new[<<row, N + row>>]]]
      BY <2>1, <2>3 DEF Cleared
    <3> DEFINE v == m[<<i, N + row>>]
    <3>3. v \in Field
      BY <2>1 DEF IsMatrix
    <3> HIDE DEF v
    <3>4. Times[v][1] = v /\ Plus[v][v] = 0
      BY <3>3, TimesFacts, PlusFacts
    <3>5. new[<<i, N + row>>] = Plus[v][Times[v][1]]
      BY <3>1, <3>2 DEF v
    <3> QED BY <2>3, <3>4, <3>5
  <2>4. CASE j # row
    <3>1. j \in 1 .. row - 1
      BY <2>4
    <3>2. m[<<i, N + j>>] = IF i = j THEN 1 ELSE 0
      BY <3>1 DEF UnitUpTo
    <3>3. m[<<row, N + j>>] = 0
      BY <2>4, <3>1 DEF UnitUpTo
    <3>4. new[<<row, N + j>>] = 0
      BY <2>1, <3>3, <1>1 DEF Cleared
    <3>5. CASE i = row
      BY <2>4, <3>4, <3>5
    <3>6. CASE i # row
      <4> DEFINE v == m[<<i, N + row>>]
                 w == m[<<i, N + j>>]
      <4>1. v \in Field /\ w \in Field
        BY <2>1 DEF IsMatrix
      <4>2. new[<<i, N + j>>] = Plus[w][Times[v][0]]
        BY <2>1, <3>4, <3>6 DEF Cleared
      <4> HIDE DEF v, w
      <4>3. Times[v][0] = 0 /\ Plus[w][0] = w
        BY <4>1, TimesFacts, PlusFacts
      <4> QED BY <3>2, <4>2, <4>3 DEF w
    <3> QED BY <3>5, <3>6
  <2> QED BY <2>2, <2>3, <2>4
<1> QED BY <1>2 DEF UnitUpTo

(* Row by row.                                                             *)
Solving(g, m, N, n) ==
  /\ g[0] = m
  /\ \A r \in 1 .. n : g[r] = IF g[r - 1] = Unsolvable THEN g[r - 1] ELSE Eliminate(g[r - 1], r, N)

LEMMA SolvingExists ==
  ASSUME NEW m, NEW N, NEW n \in Nat
  PROVE  \E g : Solving(g, m, N, n)
<1> DEFINE P == {l \in Nat : \E g : Solving(g, m, N, l)}
           Next1(s, r) == IF s = Unsolvable THEN s ELSE Eliminate(s, r, N)
<1>1. 0 \in P
  <2>1. Solving([r \in {0} |-> m], m, N, 0)
    BY DEF Solving
  <2> QED BY <2>1
<1>2. ASSUME NEW l \in P PROVE l + 1 \in P
  <2>1. PICK g : Solving(g, m, N, l)
    BY <1>2
  <2> DEFINE next == Next1(g[l], l + 1)
             h == [r \in 0 .. l + 1 |-> IF r = l + 1 THEN next ELSE g[r]]
  <2>2. l \in Nat
    OBVIOUS
  <2>3. h[0] = m
    BY <2>1, <2>2 DEF Solving
  <2>4. \A r \in 1 .. l : g[r] = Next1(g[r - 1], r)
    BY <2>1 DEF Solving
  <2> HIDE DEF Next1
  <2>5. ASSUME NEW r \in 1 .. l + 1 PROVE h[r] = Next1(h[r - 1], r)
    <3>1. r - 1 \in 0 .. l + 1 /\ r \in 0 .. l + 1 /\ r - 1 # l + 1
      BY <2>2
    <3>2. h[r - 1] = g[r - 1]
      BY <3>1
    <3>3. CASE r = l + 1
      <4>1. r - 1 = l
        BY <3>3, <2>2
      <4> QED BY <3>1, <3>2, <3>3, <4>1
    <3>4. CASE r # l + 1
      <4>1. r \in 1 .. l /\ h[r] = g[r]
        BY <3>1, <3>4, <2>2
      <4> QED BY <4>1, <3>2, <2>4
    <3> QED BY <3>3, <3>4
  <2> HIDE DEF h
  <2>6. Solving(h, m, N, l + 1)
    BY <2>3, <2>5 DEF Solving, Next1
  <2> QED BY <2>2, <2>6
<1>3. P = Nat
  <2> HIDE DEF P
  <2>1. P \in SUBSET Nat
    BY DEF P
  <2> QED BY <1>1, <1>2, <2>1, Induction
<1> QED BY <1>3

LEMMA GaussElimSolves ==
  ASSUME NEW m, NEW N, NEW n \in Nat
  PROVE  \E g : Solving(g, m, N, n) /\ GaussElim(m, N, n) = g[n]
<1> DEFINE Next1(s, r) == IF s = Unsolvable THEN s ELSE Eliminate(s, r, N)
           Right(g) == g = [r \in 0 .. n |-> IF r = 0 THEN m ELSE Next1(g[r - 1], r)]
           solving == CHOOSE g : Right(g)
<1>1. PICK g : Solving(g, m, N, n)
  BY SolvingExists
<1>2. g[0] = m /\ \A r \in 1 .. n : g[r] = Next1(g[r - 1], r)
  BY <1>1 DEF Solving
<1>3. GaussElim(m, N, n) = solving[n]
  BY DEF GaussElim
<1> HIDE DEF Next1
<1>4. Right([r \in 0 .. n |-> g[r]])
  <2> DEFINE h == [r \in 0 .. n |-> g[r]]
  <2>1. ASSUME NEW r \in 0 .. n PROVE h[r] = IF r = 0 THEN m ELSE Next1(h[r - 1], r)
    <3>1. CASE r = 0
      BY <3>1, <1>2
    <3>2. CASE r # 0
      <4>1. r \in 1 .. n /\ r - 1 \in 0 .. n
        BY <3>2
      <4> QED BY <3>2, <4>1, <1>2
    <3> QED BY <3>1, <3>2
  <2>2. h = [r \in 0 .. n |-> IF r = 0 THEN m ELSE Next1(h[r - 1], r)]
    BY <2>1
  <2> QED BY <2>2
<1>5. Right(solving)
  <2> HIDE DEF Right
  <2> QED BY <1>4
<1> HIDE DEF solving
<1>6. solving[0] = m /\ \A r \in 1 .. n : solving[r] = Next1(solving[r - 1], r)
  <2>1. 0 \in 0 .. n /\ \A r \in 1 .. n : r \in 0 .. n /\ r # 0
    OBVIOUS
  <2> QED BY <2>1, <1>5
<1>7. Solving(solving, m, N, n)
  BY <1>6 DEF Solving, Next1
<1> QED BY <1>3, <1>7

(* If the matrix is solved, every row is the sum for one of the blocks     *)
(* that are computed.                                                      *)
LEMMA SolvedFacts ==
  ASSUME NEW N \in Nat, NEW k \in Nat, NEW m, IsMatrix(m, k, N), GaussElim(m, N, k) # Unsolvable,
         NEW x, Elements(x, N), NEW y, Elements(y, k), Equations(m, x, y, N, k)
  PROVE  /\ IsMatrix(GaussElim(m, N, k), k, N)
         /\ \A i \in 1 .. k : FieldSum(Products(LeftRow(GaussElim(m, N, k), i, N), x, N), N) = y[i]
<1>1. PICK g : Solving(g, m, N, k) /\ GaussElim(m, N, k) = g[k]
  BY GaussElimSolves
<1> DEFINE Good(t, r) == IsMatrix(t, k, N) /\ Equations(t, x, y, N, k) /\ UnitUpTo(t, r, N, k)
           P == {r \in 0 .. k : g[r] = Unsolvable \/ Good(g[r], r)}
<1>2. 0 \in P
  <2>1. UnitUpTo(m, 0, N, k)
    BY DEF UnitUpTo
  <2>2. g[0] = m /\ 0 \in 0 .. k
    BY <1>1 DEF Solving
  <2> QED BY <2>1, <2>2
<1>3. ASSUME NEW r \in P, r < k PROVE r + 1 \in P
  <2>1. r \in Nat /\ r + 1 \in 1 .. k /\ (r + 1) - 1 = r /\ r + 1 \in 0 .. k
    BY <1>3
  <2>2. g[r + 1] = IF g[r] = Unsolvable THEN g[r] ELSE Eliminate(g[r], r + 1, N)
    BY <1>1, <2>1 DEF Solving
  <2>3. CASE g[r + 1] = Unsolvable
    BY <2>1, <2>3
  <2>4. CASE g[r + 1] # Unsolvable
    <3>1. g[r] # Unsolvable /\ g[r + 1] = Eliminate(g[r], r + 1, N)
      BY <2>2, <2>4
    <3>2. IsMatrix(g[r], k, N) /\ Equations(g[r], x, y, N, k) /\ UnitUpTo(g[r], r, N, k)
      BY <3>1
    <3> DEFINE old == g[r]
               new == g[r + 1]
               row == r + 1
    <3>3. IsMatrix(new, k, N) /\ \E inverse \in Field : Cleared(old, new, row, inverse, N, k)
      BY <2>1, <2>4, <3>1, <3>2, EliminateFacts
    <3>4. row \in 1 .. k /\ UnitUpTo(old, row - 1, N, k) /\ IsMatrix(old, k, N) /\ Equations(old, x, y, N, k)
      BY <2>1, <3>2
    <3> HIDE DEF old, new, row, Good, P
    <3>5. PICK inverse \in Field : Cleared(old, new, row, inverse, N, k)
      BY <3>3
    <3>6. Equations(new, x, y, N, k)
      BY <3>3, <3>4, <3>5, ClearedKeeps
    <3>7. UnitUpTo(new, row, N, k)
      BY <3>3, <3>4, <3>5, ClearedUnit
    <3>8. Good(new, row)
      BY <3>3, <3>6, <3>7 DEF Good
    <3> QED BY <2>1, <3>8 DEF P, new, row
  <2> QED BY <2>3, <2>4
<1>4. k \in P
  <2>1. P = 0 .. k
    <3> HIDE DEF P
    <3>1. P \in SUBSET (0 .. k)
      BY DEF P
    <3> QED BY <1>2, <1>3, <3>1, InductionUpTo
  <2> HIDE DEF P
  <2> QED BY <2>1
<1> DEFINE s == g[k]
<1>5. IsMatrix(s, k, N) /\ Equations(s, x, y, N, k) /\ UnitUpTo(s, k, N, k)
  BY <1>1, <1>4
<1> HIDE DEF s, P
<1>6. ASSUME NEW i \in 1 .. k PROVE FieldSum(Products(LeftRow(s, i, N), x, N), N) = y[i]
  <2> DEFINE f == Products(RightRow(s, i, N, k), y, k)
  <2>1. y[i] \in Field
    BY DEF Elements
  <2>2. ASSUME NEW j \in 1 .. k PROVE f[j] = IF j = i THEN y[i] ELSE 0
    <3>1. f[j] = Times[s[<<i, N + j>>]][y[j]] /\ y[j] \in Field
      BY DEF Products, RightRow, Elements
    <3>2. s[<<i, N + j>>] = IF i = j THEN 1 ELSE 0
      BY <1>5 DEF UnitUpTo
    <3>3. Times[1][y[j]] = y[j] /\ Times[0][y[j]] = 0
      BY <3>1, TimesFacts
    <3> QED BY <3>1, <3>2, <3>3
  <2> HIDE DEF f
  <2>3. FieldSum(f, k) = y[i]
    BY <2>1, <2>2, SumOfOne
  <2>4. Equation(s, i, x, y, N, k)
    BY <1>5 DEF Equations
  <2> QED BY <2>3, <2>4 DEF Equation, f
<1> QED BY <1>1, <1>5, <1>6 DEF s

-----------------------------------------------------------------------------
(* The output of a row, a place at a time.                                 *)

Column(inputs, p, n) == [k \in 1 .. n |-> inputs[k][p]]

AreWords(inputs, N, size) == \A n \in 1 .. N : inputs[n] \in [1 .. size -> Field]

LEMMA OutputAt ==
  ASSUME NEW inputs, NEW N \in Nat \ {0}, Len(inputs) = N, NEW size \in Nat, AreWords(inputs, N, size),
         NEW m, NEW i, Elements(LeftRow(m, i, N), N)
  PROVE  Output(m, i, inputs) =
           [p \in 1 .. size |-> FieldSum(Products(LeftRow(m, i, N), Column(inputs, p, N), N), N)]
<1> DEFINE row == LeftRow(m, i, N)
           Sum(p, n) == FieldSum(Products(row, Column(inputs, p, N), N), n)
<1>1. \A n \in 1 .. N : row[n] = m[<<i, n>>] /\ row[n] \in Field
  BY DEF LeftRow, Elements
<1>2. PICK h : Summing(h, row, inputs, size, N)
  BY SummingExists
<1>3. Output(m, i, inputs) = h[N]
  <2>1. DOMAIN inputs[1] = 1 .. size
    BY DEF AreWords
  <2>2. IsRow(row, m, i, N)
    BY <1>1 DEF IsRow
  <2> HIDE DEF row
  <2> QED BY <1>2, <2>1, <2>2, OutputIsSum
<1> HIDE DEF row
<1>4. h[0] = Zeros(size) /\ \A n \in 1 .. N : h[n] = [p \in 1 .. size |-> AddTo(row[n], inputs[n][p], h[n - 1][p])]
  BY <1>2 DEF Summing
<1>5. ASSUME NEW p \in 1 .. size PROVE h[N][p] = Sum(p, N)
  <2> DEFINE f == Products(row, Column(inputs, p, N), N)
             P == {n \in 0 .. N : h[n][p] = FieldSum(f, n) /\ h[n][p] \in Field}
  <2>1. ASSUME NEW n \in 1 .. N PROVE f[n] = Times[row[n]][inputs[n][p]] /\ inputs[n][p] \in Field
    BY <1>1 DEF Products, Column, AreWords
  <2> HIDE DEF f
  <2>2. 0 \in P
    <3>1. h[0][p] = 0 /\ 0 \in 0 .. N
      BY <1>4 DEF Zeros
    <3>2. FieldSum(f, 0) = 0 /\ 0 \in Field
      BY SumSteps, LogFacts
    <3> QED BY <3>1, <3>2
  <2>3. ASSUME NEW n \in P, n < N PROVE n + 1 \in P
    <3>1. n \in Nat /\ n + 1 \in 1 .. N /\ (n + 1) - 1 = n /\ n + 1 \in 0 .. N
      BY <2>3
    <3>2. h[n + 1][p] = AddTo(row[n + 1], inputs[n + 1][p], h[n][p])
      <4>1. h[n + 1] = [q \in 1 .. size |-> AddTo(row[n + 1], inputs[n + 1][q], h[(n + 1) - 1][q])]
        BY <3>1, <1>4
      <4>2. (n + 1) - 1 = n
        BY <3>1
      <4> HIDE DEF P
      <4> QED BY <4>1, <4>2
    <3> DEFINE a == row[n + 1]
               v == inputs[n + 1][p]
               s == h[n][p]
    <3>3. a \in Field /\ v \in Field /\ s \in Field /\ f[n + 1] = Times[a][v]
      BY <3>1, <1>1, <2>1
    <3>4. FieldSum(f, n + 1) = Plus[s][f[n + 1]]
      BY <3>1, SumSteps
    <3> HIDE DEF a, v, s, P
    <3>5. AddTo(a, v, s) = Plus[s][Times[a][v]] /\ Plus[s][Times[a][v]] \in Field
      BY <3>3, AddToFacts, TimesFacts, PlusFacts
    <3>6. h[n + 1][p] = FieldSum(f, n + 1) /\ h[n + 1][p] \in Field
      BY <3>2, <3>3, <3>4, <3>5 DEF a, v, s
    <3> QED BY <3>1, <3>6 DEF P
  <2>4. P = 0 .. N
    <3> HIDE DEF P
    <3>1. P \in SUBSET (0 .. N)
      BY DEF P
    <3> QED BY <2>2, <2>3, <3>1, InductionUpTo
  <2>5. N \in P
    <3> HIDE DEF P
    <3> QED BY <2>4
  <2> QED BY <2>5 DEF f
<1>6. h[N] = [p \in 1 .. size |-> h[N][p]]
  <2>1. N \in 1 .. N
    OBVIOUS
  <2>2. h[N] = [p \in 1 .. size |-> AddTo(row[N], inputs[N][p], h[N - 1][p])]
    BY <2>1, <1>4
  <2> QED BY <2>2
<1> HIDE DEF Sum
<1>7. h[N] = [p \in 1 .. size |-> Sum(p, N)]
  BY <1>5, <1>6
<1> QED BY <1>3, <1>7 DEF Sum, row

-----------------------------------------------------------------------------
(* The matrices.                                                           *)

LEMMA BasesInField == Bases \in Seq(Field)
<1> DEFINE S == {l \in 1 .. Limit - 1 : Gcd(Limit, l) = 1}
           logs == Indices(Limit - 1, S)
<1>1. Limit - 1 \in Nat
  BY LogFacts
<1> HIDE DEF S
<1>2. logs \in Seq(S \intersect (1 .. Limit - 1))
  BY <1>1, IndicesFacts
<1>3. Bases = [i \in DOMAIN logs |-> Antilog[logs[i]]]
  BY DEF Bases, S
<1> HIDE DEF logs
<1>4. Len(logs) \in Nat /\ DOMAIN logs = 1 .. Len(logs) /\ \A i \in 1 .. Len(logs) : logs[i] \in 1 .. Limit - 1
  BY <1>2
<1>5. \A i \in 1 .. Len(logs) : Antilog[logs[i]] \in Field
  <2>1. \A l \in 1 .. Limit - 1 : l \in 0 .. Limit - 1
    BY <1>1
  <2> QED BY <1>4, <2>1, LogFacts
<1>6. Bases \in [1 .. Len(logs) -> Field]
  BY <1>3, <1>4, <1>5
<1> QED BY <1>4, <1>6

(* No block is missing: the factors of the recovery blocks.                *)
ToMake(rows, r) == Len(rows) = r /\ DOMAIN rows = 1 .. r /\ \A i \in 1 .. r : ~rows[i].present
HasFactors(m, rows, r, N) == \A i \in 1 .. r, n \in 1 .. N : m[<<i, n>>] = Pow(Bases[n], rows[i].exponent)

LEMMA MatrixOfCreation ==
  ASSUME NEW N \in Nat, NEW r \in Nat \ {0}, NEW rows, ToMake(rows, r)
  PROVE  HasFactors(Compute(N, {}, rows), rows, r, N)
<1>0. Len(rows) = r /\ DOMAIN rows = 1 .. r /\ \A i \in 1 .. r : ~rows[i].present
  BY DEF ToMake
<1> DEFINE present == Indices(N, (1 .. N) \ {})
           lost == Indices(N, {})
           available == Indices(Len(rows), {i \in DOMAIN rows : rows[i].present})
           made == Indices(Len(rows), {i \in DOMAIN rows : ~rows[i].present})
           used == SubSeq(available, 1, Len(lost)) \o made
           M == Matrices(N, {}, rows)
<1>1. present = [n \in 1 .. N |-> n] /\ lost = <<>>
  BY AllIndices, NoIndices
<1>2. available = <<>> /\ made = [i \in 1 .. r |-> i]
  <2>1. {i \in DOMAIN rows : rows[i].present} = {} /\ {i \in DOMAIN rows : ~rows[i].present} = 1 .. r
    BY <1>0
  <2> QED BY <2>1, AllIndices, NoIndices
<1>3. used = [i \in 1 .. r |-> i]
  <2>1. used = SubSeq(<<>>, 1, 0) \o made
    BY <1>1, <1>2
  <2>2. SubSeq(<<>>, 1, 0) = <<>>
    OBVIOUS
  <2>3. made \in Seq(Nat)
    BY <1>2
  <2> HIDE DEF made, used
  <2>4. <<>> \o made = made
    BY <2>3
  <2> QED BY <2>1, <2>2, <2>4, <1>2
<1>4. Len(present) = N /\ Len(lost) = 0 /\ Len(used) = r
  <2>1. Len([n \in 1 .. N |-> n]) = N /\ Len([i \in 1 .. r |-> i]) = r /\ Len(<<>>) = 0
    OBVIOUS
  <2> HIDE DEF present, lost, used
  <2> QED BY <2>1, <1>1, <1>3
<1>5. ASSUME NEW i \in 1 .. r, NEW n \in 1 .. N PROVE M[<<i, n>>] = Pow(Bases[n], rows[i].exponent)
  <2>1. <<i, n>> \in (1 .. Len(used)) \X (1 .. N + Len(used)) /\ n <= N
    BY <1>4
  <2>2. M[<<i, n>>] = IF n <= Len(present) THEN Pow(Bases[present[n]], rows[used[i]].exponent)
                      ELSE IF i = n - Len(present) THEN 1 ELSE 0
    BY <2>1 DEF Matrices
  <2>3. present[n] = n /\ used[i] = i
    BY <1>1, <1>3
  <2> QED BY <2>1, <2>2, <2>3, <1>4
<1>6. Compute(N, {}, rows) = GaussElim(M, N, 0)
  <2>1. {i \in DOMAIN rows : rows[i].present} = {}
    BY <1>0
  <2>2. Cardinality({}) = 0
    BY FS_EmptySet
  <2> HIDE DEF M
  <2>3. ~(0 > 0) /\ 0 # Len(rows)
    BY <1>0
  <2> QED BY <2>1, <2>2, <2>3 DEF Compute, M
<1> HIDE DEF M
<1>7. GaussElim(M, N, 0) = M
  <2>1. PICK g : Solving(g, M, N, 0) /\ GaussElim(M, N, 0) = g[0]
    BY GaussElimSolves
  <2> QED BY <2>1 DEF Solving
<1> QED BY <1>5, <1>6, <1>7 DEF HasFactors

(* Blocks are missing, and there are as many recovery blocks.              *)
Rows(e) == [i \in DOMAIN e |-> [present |-> TRUE, exponent |-> e[i]]]

LEMMA SeqOfMore ==
  ASSUME NEW S, NEW T, S \subseteq T, NEW s \in Seq(S)
  PROVE  s \in Seq(T)
<1>1. Len(s) \in Nat /\ s \in [1 .. Len(s) -> S]
  OBVIOUS
<1>2. s \in [1 .. Len(s) -> T]
  BY <1>1
<1> QED BY <1>1, <1>2

LEMMA MissingFacts ==
  ASSUME NEW N \in Nat, NEW missing \in SUBSET (1 .. N)
  PROVE  LET present == Indices(N, (1 .. N) \ missing)
             lost == Indices(N, missing)
         IN /\ present \in Seq(1 .. N) /\ lost \in Seq(1 .. N)
            /\ Len(lost) = Cardinality(missing) /\ Len(present) = N - Len(lost)
            /\ Len(lost) \in 0 .. N
<1> DEFINE D == 1 .. N
           present == Indices(N, D \ missing)
           lost == Indices(N, missing)
<1>1. IsFiniteSet(D) /\ Cardinality(D) = N
  <2>1. IsFiniteSet(D) /\ Cardinality(D) = IF 1 > N THEN 0 ELSE N - 1 + 1
    BY FS_Interval
  <2> QED BY <2>1
<1>2. missing \intersect D = missing /\ (D \ missing) \intersect D = D \ missing /\ D \intersect missing = missing
  OBVIOUS
<1> HIDE DEF D
<1>3. lost \in Seq(missing) /\ Len(lost) = Cardinality(missing)
  BY <1>2, IndicesFacts DEF D
<1>4. present \in Seq(D \ missing) /\ Len(present) = Cardinality(D \ missing)
  BY <1>2, IndicesFacts DEF D
<1>5. Cardinality(D \ missing) = Cardinality(D) - Cardinality(missing)
  BY ONLY <1>1, <1>2, FS_Difference
<1>6. lost \in Seq(D) /\ present \in Seq(D)
  <2>1. missing \subseteq D /\ D \ missing \subseteq D
    BY DEF D
  <2> HIDE DEF lost, present
  <2> QED BY <1>3, <1>4, <2>1, SeqOfMore
<1>7. Len(lost) \in Nat /\ Len(present) \in Nat
  BY <1>6
<1> HIDE DEF lost, present
<1>8. Len(present) = N - Len(lost) /\ Len(lost) \in 0 .. N
  BY <1>1, <1>3, <1>4, <1>5, <1>7
<1> QED BY <1>3, <1>6, <1>8 DEF lost, present, D

(* The rows of a matrix m for the present and the lost blocks.             *)
RepairRows(m, present, lost, e, c, k) ==
  \A i \in 1 .. k :
    /\ \A n \in 1 .. c : m[<<i, n>>] = Pow(Bases[present[n]], e[i])
    /\ \A j \in 1 .. k : /\ m[<<i, c + j>>] = IF j = i THEN 1 ELSE 0
                         /\ m[<<i, (c + k) + j>>] = Pow(Bases[lost[j]], e[i])

ToRepair(N, missing, e, c, k) ==
  LET M == Matrices(N, missing, Rows(e))
  IN /\ IsMatrix(M, k, N)
     /\ Compute(N, missing, Rows(e)) = GaussElim(M, N, k)
     /\ RepairRows(M, Indices(N, (1 .. N) \ missing), Indices(N, missing), e, c, k)

LEMMA ColumnsOfRepair ==
  ASSUME NEW c \in Nat, NEW k \in Nat, NEW x \in 1 .. (c + k) + k
  PROVE  \/ x \in 1 .. c
         \/ \E j \in 1 .. k : x = c + j
         \/ \E j \in 1 .. k : x = (c + k) + j
<1>1. CASE x > c /\ x <= c + k
  <2>1. x - c \in 1 .. k /\ x = c + (x - c)
    BY <1>1
  <2> QED BY <2>1
<1>2. CASE x > c + k
  <2>1. x - (c + k) \in 1 .. k /\ x = (c + k) + (x - (c + k))
    BY <1>2
  <2> QED BY <2>1
<1> QED BY <1>1, <1>2

LEMMA MatrixOfRepair ==
  ASSUME NEW c \in Nat, NEW k \in Nat \ {0}, NEW N, N = c + k, N <= Len(Bases), NEW missing \in SUBSET (1 .. N),
         k = Cardinality(missing), NEW e \in [1 .. k -> 0 .. Limit]
  PROVE  ToRepair(N, missing, e, c, k)
<1> DEFINE present == Indices(N, (1 .. N) \ missing)
           lost == Indices(N, missing)
           rows == Rows(e)
           available == Indices(Len(rows), {i \in DOMAIN rows : rows[i].present})
           made == Indices(Len(rows), {i \in DOMAIN rows : ~rows[i].present})
           used == SubSeq(available, 1, Len(lost)) \o made
           M == Matrices(N, missing, rows)
           Entry(block, row) == Pow(Bases[block], rows[used[row]].exponent)
           Left(row, col) == IF col <= Len(present) THEN Entry(present[col], row)
                             ELSE IF row = col - Len(present) THEN 1 ELSE 0
           Right(row, col) == IF col <= Len(lost) THEN Entry(lost[col], row)
                              ELSE IF row = col THEN 1 ELSE 0
<1>0. N \in Nat /\ k \in Nat /\ c \in Nat /\ N = c + k
  OBVIOUS
<1>1. /\ present \in Seq(1 .. N) /\ lost \in Seq(1 .. N)
      /\ Len(lost) = k /\ Len(present) = c
  <2>1. /\ present \in Seq(1 .. N) /\ lost \in Seq(1 .. N)
        /\ Len(lost) = k /\ Len(present) = N - Len(lost)
    BY <1>0, MissingFacts
  <2> HIDE DEF present, lost
  <2> QED BY ONLY <2>1, c \in Nat, k \in Nat \ {0}, N = c + k
<1>2. DOMAIN rows = 1 .. k /\ \A i \in 1 .. k : rows[i].present = TRUE /\ rows[i].exponent = e[i]
  BY DEF Rows
<1>3. Len(rows) = k
  BY DEF Rows
<1>4. available = [i \in 1 .. k |-> i] /\ made = <<>>
  <2>1. {i \in DOMAIN rows : rows[i].present} = 1 .. k /\ {i \in DOMAIN rows : ~rows[i].present} = {}
    BY <1>2
  <2> HIDE DEF rows
  <2> QED BY <2>1, <1>3, AllIndices, NoIndices
<1>5. used = [i \in 1 .. k |-> i] /\ Len(used) = k
  <2> DEFINE same == [i \in 1 .. k |-> i]
  <2>1. same \in Seq(Nat) /\ Len(same) = k
    OBVIOUS
  <2>2. SubSeq(same, 1, k) = same
    <3>1. SubSeq(same, 1, k) \in Seq(Nat) /\ Len(SubSeq(same, 1, k)) = k
          /\ \A i \in 1 .. k : SubSeq(same, 1, k)[i] = same[i]
      BY <2>1
    <3>2. SubSeq(same, 1, k) = [i \in 1 .. k |-> SubSeq(same, 1, k)[i]] /\ same = [i \in 1 .. k |-> same[i]]
      BY <2>1, <3>1
    <3> HIDE DEF same
    <3> QED BY <3>1, <3>2
  <2>3. same \o <<>> = same
    BY <2>1
  <2>4. used = SubSeq(same, 1, k) \o <<>>
    BY <1>1, <1>4
  <2> QED BY <2>1, <2>2, <2>3, <2>4
<1>6. M = [at \in (1 .. Len(used)) \X (1 .. N + Len(used)) |->
             IF at[2] <= N THEN Left(at[1], at[2]) ELSE Right(at[1], at[2] - N)]
  BY DEF Matrices
<1>7. \A i \in 1 .. k : used[i] = i
  BY <1>5
<1> HIDE DEF present, lost, rows, used, M, Entry, available, made
<1>8. ASSUME NEW i \in 1 .. k, NEW n \in 1 .. N PROVE Entry(n, i) = Pow(Bases[n], e[i]) /\ Entry(n, i) \in Field
  <2>1. rows[used[i]].exponent = e[i] /\ e[i] \in 0 .. Limit
    BY <1>2, <1>7
  <2>2. Bases[n] \in Field
    <3>1. Len(Bases) \in Nat /\ n \in 1 .. Len(Bases)
      BY BasesInField
    <3> QED BY <3>1, BasesInField
  <2> QED BY <2>1, <2>2, PowInField DEF Entry
<1>9. ASSUME NEW i \in 1 .. k, NEW x \in 1 .. N + k
      PROVE  M[<<i, x>>] = IF x <= N THEN Left(i, x) ELSE Right(i, x - N)
  BY <1>5, <1>6
<1>10. (\A n \in 1 .. c : present[n] \in 1 .. N) /\ \A j \in 1 .. k : lost[j] \in 1 .. N
  <2> DEFINE D == 1 .. N
  <2>1. present \in Seq(D) /\ lost \in Seq(D) /\ Len(lost) = k /\ Len(present) = c
    BY <1>1
  <2> HIDE DEF D
  <2>2. (\A n \in 1 .. c : present[n] \in D) /\ \A j \in 1 .. k : lost[j] \in D
    BY <2>1
  <2> QED BY <2>2 DEF D
<1>11. ASSUME NEW i \in 1 .. k, NEW n \in 1 .. c PROVE M[<<i, n>>] = Entry(present[n], i)
  <2>1. n \in 1 .. N + k /\ n <= N /\ n <= Len(present)
    BY ONLY <1>0, <1>1, n \in 1 .. c
  <2> QED BY <2>1, <1>9
<1>12. ASSUME NEW i \in 1 .. k, NEW j \in 1 .. k PROVE M[<<i, c + j>>] = IF j = i THEN 1 ELSE 0
  <2> DEFINE x == c + j
  <2>1. x \in 1 .. N + k /\ x <= N /\ ~(x <= c) /\ x - c = j
    OBVIOUS
  <2> HIDE DEF x
  <2>2. M[<<i, x>>] = Left(i, x)
    BY <2>1, <1>9
  <2>3. Left(i, x) = IF i = j THEN 1 ELSE 0
    BY <2>1, <1>1
  <2> QED BY <2>2, <2>3 DEF x
<1>13. ASSUME NEW i \in 1 .. k, NEW j \in 1 .. k PROVE M[<<i, (c + k) + j>>] = Entry(lost[j], i)
  <2> DEFINE x == (c + k) + j
  <2>1. x \in 1 .. N + k /\ ~(x <= N) /\ x - N = j /\ j <= k
    BY ONLY <1>0, j \in 1 .. k
  <2> HIDE DEF x
  <2>2. M[<<i, x>>] = Right(i, j)
    BY <2>1, <1>9
  <2>3. Right(i, j) = Entry(lost[j], i)
    BY <2>1, <1>1
  <2> QED BY <2>2, <2>3 DEF x
<1>14. M \in [(1 .. k) \X (1 .. N + k) -> Field]
  <2>1. ASSUME NEW i \in 1 .. k, NEW x \in 1 .. N + k PROVE M[<<i, x>>] \in Field
    <3>0. x \in 1 .. c \/ (\E j \in 1 .. k : x = c + j) \/ (\E j \in 1 .. k : x = (c + k) + j)
      <4>1. x \in 1 .. (c + k) + k
        BY <1>0
      <4> QED BY ONLY <1>0, <4>1, ColumnsOfRepair
    <3>1. 0 \in Field /\ 1 \in Field
      BY LogFacts
    <3>2. CASE x \in 1 .. c
      <4>1. present[x] \in 1 .. N
        BY <3>2, <1>10
      <4> QED BY <4>1, <3>2, <1>8, <1>11
    <3>3. CASE \E j \in 1 .. k : x = c + j
      <4>1. PICK j \in 1 .. k : x = c + j
        BY <3>3
      <4>2. M[<<i, c + j>>] = IF j = i THEN 1 ELSE 0
        BY <1>12
      <4> QED BY <4>1, <4>2, <3>1
    <3>4. CASE \E j \in 1 .. k : x = (c + k) + j
      <4>1. PICK j \in 1 .. k : x = (c + k) + j
        BY <3>4
      <4>2. lost[j] \in 1 .. N
        BY <1>10
      <4> QED BY <4>1, <4>2, <1>8, <1>13
    <3> QED BY <3>0, <3>2, <3>3, <3>4
  <2>2. \A at \in (1 .. k) \X (1 .. N + k) : M[at] \in Field
    BY <2>1
  <2>3. DOMAIN M = (1 .. k) \X (1 .. N + k) /\ M = [at \in (1 .. k) \X (1 .. N + k) |-> M[at]]
    BY <1>5, <1>6
  <2> QED BY <2>2, <2>3
<1>15. Compute(N, missing, rows) = GaussElim(M, N, k)
  <2> DEFINE K == {i \in DOMAIN rows : rows[i].present}
  <2>1. Cardinality(K) = k
    <3>1. K = 1 .. k
      BY <1>2
    <3> HIDE DEF K
    <3>2. Cardinality(1 .. k) = k
      <4>1. Cardinality(1 .. k) = IF 1 > k THEN 0 ELSE k - 1 + 1
        BY ONLY <1>0, FS_Interval
      <4> QED BY <4>1
    <3> QED BY <3>1, <3>2
  <2>2. missing # {} /\ ~(k > k)
    BY FS_EmptySet
  <2> QED BY <2>1, <2>2 DEF Compute, M
<1>16. RepairRows(M, present, lost, e, c, k)
  <2>1. ASSUME NEW i \in 1 .. k, NEW n \in 1 .. c PROVE M[<<i, n>>] = Pow(Bases[present[n]], e[i])
    <3>1. present[n] \in 1 .. N
      BY <1>10
    <3> QED BY <3>1, <1>8, <1>11
  <2>2. ASSUME NEW i \in 1 .. k, NEW j \in 1 .. k PROVE M[<<i, (c + k) + j>>] = Pow(Bases[lost[j]], e[i])
    <3>1. lost[j] \in 1 .. N
      BY <1>10
    <3> QED BY <3>1, <1>8, <1>13
  <2> QED BY <2>1, <2>2, <1>12 DEF RepairRows
<1>17. IsMatrix(M, k, N)
  BY <1>14 DEF IsMatrix
<1> QED BY <1>15, <1>16, <1>17 DEF ToRepair, present, lost, rows, M

(* Whatever blocks are missing come out as they were.                      *)
Factor(n, e) == Pow(Bases[n], e)
Factors(e, N) == [n \in 1 .. N |-> Factor(n, e)]
RecoveryWord(word, blocks, e, N, size) ==
  word = [p \in 1 .. size |-> FieldSum(Products(Factors(e, N), Column(blocks, p, N), N), N)]
IsGiven(inputs, blocks, present, words, c, k, N, size) ==
  /\ Len(inputs) = N /\ AreWords(inputs, N, size)
  /\ \A n \in 1 .. c : inputs[n] = blocks[present[n]]
  /\ \A j \in 1 .. k : inputs[c + j] = words[j]
Given(blocks, present, words) == [i \in DOMAIN present |-> blocks[present[i]]] \o words

InTwoParts(u, s, t, c, k, W) ==
  /\ Len(u) = c + k
  /\ \A n \in 1 .. c : u[n] = s[n]
  /\ \A j \in 1 .. k : u[c + j] = t[j]
  /\ \A n \in 1 .. c + k : u[n] \in W

LEMMA TwoParts ==
  ASSUME NEW W, NEW s \in Seq(W), NEW t \in Seq(W), NEW c \in Nat, NEW k \in Nat, Len(s) = c, Len(t) = k
  PROVE  InTwoParts(s \o t, s, t, c, k, W)
<1>1. Len(s \o t) = c + k /\ s \o t \in Seq(W)
  OBVIOUS
<1>2. \A n \in 1 .. Len(s) + Len(t) : (s \o t)[n] = IF n <= Len(s) THEN s[n] ELSE t[n - Len(s)]
  OBVIOUS
<1>3. ASSUME NEW n \in 1 .. c PROVE (s \o t)[n] = s[n]
  BY <1>2
<1>4. ASSUME NEW j \in 1 .. k PROVE (s \o t)[c + j] = t[j]
  <2> DEFINE n == c + j
  <2>1. n \in 1 .. Len(s) + Len(t) /\ ~(n <= Len(s)) /\ n - Len(s) = j
    OBVIOUS
  <2> HIDE DEF n
  <2>2. (s \o t)[n] = t[j]
    BY <2>1, <1>2
  <2> QED BY <2>2 DEF n
<1>5. ASSUME NEW n \in 1 .. c + k PROVE (s \o t)[n] \in W
  <2> DEFINE u == s \o t
  <2>1. u \in Seq(W) /\ n \in 1 .. Len(u)
    BY <1>1
  <2> HIDE DEF u
  <2>2. u[n] \in W
    BY <2>1
  <2> QED BY <2>2 DEF u
<1> QED BY <1>1, <1>3, <1>4, <1>5 DEF InTwoParts

LEMMA WhatIsRead ==
  ASSUME NEW N \in Nat, NEW blocks, NEW size \in Nat, AreWords(blocks, N, size),
         NEW c \in Nat, NEW present \in Seq(1 .. N), Len(present) = c,
         NEW k \in Nat, c + k = N, NEW words \in [1 .. k -> [1 .. size -> Field]]
  PROVE  IsGiven(Given(blocks, present, words), blocks, present, words, c, k, N, size)
<1> DEFINE W == [1 .. size -> Field]
           read == [i \in DOMAIN present |-> blocks[present[i]]]
<1>1. DOMAIN present = 1 .. c /\ \A i \in 1 .. c : present[i] \in 1 .. N
  OBVIOUS
<1>2. read \in [1 .. c -> W]
  BY <1>1 DEF AreWords
<1> HIDE DEF W
<1>3. read \in Seq(W) /\ Len(read) = c /\ words \in Seq(W) /\ Len(words) = k
  <2> HIDE DEF read
  <2> QED BY <1>2 DEF W
<1>4. \A n \in 1 .. c : read[n] = blocks[present[n]]
  BY <1>1
<1> HIDE DEF read
<1>5. InTwoParts(read \o words, read, words, c, k, W)
  BY <1>3, TwoParts
<1>6. Given(blocks, present, words) = read \o words
  BY DEF Given, read
<1> HIDE DEF Given
<1>7. /\ Len(Given(blocks, present, words)) = N
      /\ \A n \in 1 .. c : Given(blocks, present, words)[n] = read[n]
      /\ \A j \in 1 .. k : Given(blocks, present, words)[c + j] = words[j]
      /\ \A n \in 1 .. N : Given(blocks, present, words)[n] \in W
  BY <1>5, <1>6 DEF InTwoParts
<1> QED BY <1>4, <1>7 DEF W, IsGiven, AreWords

(* One byte of the blocks: col is that of all blocks, x of those that are   *)
(* read, y of the lost ones; a are the factors of a recovery block.        *)
RowOfRepair(m, i, a, present, lost, c, k) ==
  /\ \A n \in 1 .. c : m[<<i, n>>] = a[present[n]]
  /\ \A j \in 1 .. k : m[<<i, c + j>>] = IF j = i THEN 1 ELSE 0
  /\ \A j \in 1 .. k : m[<<i, (c + k) + j>>] = a[lost[j]]
ReadByte(x, i, col, sum, present, c, k) ==
  /\ \A n \in 1 .. c : x[n] = col[present[n]]
  /\ \A j \in 1 .. k : x[c + j] \in Field
  /\ x[c + i] = sum
LostByte(y, col, lost, k) == \A j \in 1 .. k : y[j] = col[lost[j]]
IndexSequence(s, n, N) == s \in Seq(1 .. N) /\ Len(s) = n

LEMMA AlongFacts ==
  ASSUME NEW N \in Nat, NEW n \in Nat, NEW s, IndexSequence(s, n, N), NEW a, NEW col, NEW g, NEW u, NEW v,
         \A j \in 1 .. n : u[j] = a[s[j]] /\ v[j] = col[s[j]],
         g = Products(u, v, n)
  PROVE  FieldSum(g, n) = SumAlong(Products(a, col, N), s)
<1> DEFINE D == 1 .. N
           f == Products(a, col, N)
<1>1. s \in Seq(D) /\ Len(s) = n
  BY DEF IndexSequence
<1> HIDE DEF D
<1>2. DOMAIN s = 1 .. n /\ \A j \in 1 .. n : s[j] \in D
  BY <1>1
<1>3. \A d \in D : f[d] = Times[a[d]][col[d]]
  BY DEF Products, D
<1> HIDE DEF f
<1>4. \A j \in 1 .. n : g[j] = Along(f, s)[j]
  BY <1>2, <1>3 DEF Products, Along
<1>5. FieldSum(g, n) = FieldSum(Along(f, s), n)
  BY <1>4, SumSame
<1> QED BY <1>1, <1>5 DEF SumAlong, f

LEMMA ByteOfRepair ==
  ASSUME NEW c \in Nat, NEW k \in Nat, NEW N \in Nat, N = c + k, NEW missing,
         NEW present, present = Indices(N, (1 .. N) \ missing), IndexSequence(present, c, N),
         NEW lost, lost = Indices(N, missing), IndexSequence(lost, k, N),
         NEW a, Elements(a, N), NEW col, Elements(col, N),
         NEW m, NEW i \in 1 .. k, RowOfRepair(m, i, a, present, lost, c, k),
         NEW x, ReadByte(x, i, col, FieldSum(Products(a, col, N), N), present, c, k),
         NEW y, LostByte(y, col, lost, k)
  PROVE  Equation(m, i, x, y, N, k)
<1> DEFINE f == Products(a, col, N)
           left == LeftRow(m, i, N)
           right == RightRow(m, i, N, k)
           given == SumAlong(f, present)
           missed == SumAlong(f, lost)
           sum == FieldSum(f, N)
           first == Products(left, x, c)
           second == [j \in 1 .. k |-> IF j = i THEN sum ELSE 0]
           all == Products(left, x, N)
<1>1. Elements(f, N)
  BY TimesFacts DEF Elements, Products
<1>2. present \in Seq(1 .. N) /\ lost \in Seq(1 .. N)
  BY DEF IndexSequence
<1>3. given \in Field /\ missed \in Field
  <2> HIDE DEF f
  <2> QED BY <1>1, <1>2, SumAlongTyped
<1>4. sum = Plus[missed][given]
  <2> HIDE DEF f
  <2> QED BY <1>1, SumSplits
<1>5. sum \in Field
  <2> HIDE DEF f, sum, missed, given
  <2> QED BY <1>3, <1>4, PlusFacts
<1>6. /\ \A n \in 1 .. c : left[n] = a[present[n]] /\ x[n] = col[present[n]]
      /\ \A j \in 1 .. k : left[c + j] = IF j = i THEN 1 ELSE 0
      /\ \A j \in 1 .. k : right[j] = a[lost[j]]
  <2>1. ASSUME NEW n \in 1 .. c PROVE left[n] = a[present[n]] /\ x[n] = col[present[n]]
    <3>1. n \in 1 .. N
      BY ONLY c \in Nat, k \in Nat, N = c + k, n \in 1 .. c
    <3> QED BY <3>1 DEF LeftRow, RowOfRepair, ReadByte
  <2>2. ASSUME NEW j \in 1 .. k PROVE left[c + j] = IF j = i THEN 1 ELSE 0
    <3> DEFINE n == c + j
    <3>1. n \in 1 .. N
      BY ONLY c \in Nat, k \in Nat, N = c + k, j \in 1 .. k
    <3>2. m[<<i, n>>] = IF j = i THEN 1 ELSE 0
      BY DEF RowOfRepair
    <3> HIDE DEF n
    <3>3. left[n] = IF j = i THEN 1 ELSE 0
      BY <3>1, <3>2 DEF LeftRow
    <3> QED BY <3>3 DEF n
  <2>3. ASSUME NEW j \in 1 .. k PROVE right[j] = a[lost[j]]
    BY DEF RightRow, RowOfRepair
  <2> QED BY <2>1, <2>2, <2>3
<1> HIDE DEF f, left, right, sum, given, missed
<1>7. FieldSum(first, c) = given
  <2>1. \A j \in 1 .. c : left[j] = a[present[j]] /\ x[j] = col[present[j]]
    BY <1>6
  <2>2. first = Products(left, x, c) /\ c \in Nat /\ N \in Nat /\ IndexSequence(present, c, N)
    OBVIOUS
  <2> HIDE DEF first
  <2>3. FieldSum(first, c) = SumAlong(Products(a, col, N), present)
    BY ONLY <2>1, <2>2, AlongFacts
  <2> QED BY <2>3 DEF given, f
<1>8. FieldSum(Products(right, y, k), k) = missed
  BY <1>6, AlongFacts DEF missed, f, LostByte
<1>9. FieldSum(second, k) = sum
  <2>1. \A j \in 1 .. k : second[j] = IF j = i THEN sum ELSE 0
    OBVIOUS
  <2> HIDE DEF second
  <2> QED BY <2>1, <1>5, SumOfOne
<1>10. Elements(first, c)
  <2>1. ASSUME NEW n \in 1 .. c PROVE first[n] \in Field
    <3>1. present[n] \in 1 .. N
      <4> DEFINE D == 1 .. N
      <4>1. present \in Seq(D) /\ Len(present) = c
        BY DEF IndexSequence
      <4> HIDE DEF D
      <4>2. present[n] \in D
        BY <4>1
      <4> QED BY <4>2 DEF D
    <3>2. a[present[n]] \in Field /\ col[present[n]] \in Field
      BY <3>1 DEF Elements
    <3> QED BY <3>2, <1>6, TimesFacts DEF Products
  <2> HIDE DEF first
  <2> QED BY <2>1 DEF Elements
<1>11. Elements(second, k)
  BY <1>5, LogFacts DEF Elements
<1>12. Follow(all, first, c, second, k)
  <2>1. ASSUME NEW n \in 1 .. c PROVE all[n] = first[n]
    <3>1. n \in 1 .. N
      BY ONLY c \in Nat, k \in Nat, N = c + k, n \in 1 .. c
    <3> QED BY <3>1 DEF Products
  <2>2. ASSUME NEW j \in 1 .. k PROVE all[c + j] = second[j]
    <3> DEFINE n == c + j
    <3>1. n \in 1 .. N
      BY ONLY c \in Nat, k \in Nat, N = c + k, j \in 1 .. k
    <3>2. left[n] = (IF j = i THEN 1 ELSE 0) /\ x[n] \in Field /\ (j = i => x[n] = sum)
      BY <1>6 DEF ReadByte, sum, f
    <3> HIDE DEF n
    <3>3. all[n] = Times[left[n]][x[n]]
      BY <3>1 DEF Products
    <3>4. Times[0][x[n]] = 0 /\ Times[1][x[n]] = x[n]
      BY <3>2, TimesFacts
    <3>5. all[n] = IF j = i THEN sum ELSE 0
      BY <3>2, <3>3, <3>4
    <3> QED BY <3>5 DEF n
  <2> HIDE DEF all, first, second
  <2> QED BY <2>1, <2>2 DEF Follow
<1> HIDE DEF all, first, second
<1>13. FieldSum(all, N) = Plus[given][sum]
  <2>1. FieldSum(all, c + k) = Plus[FieldSum(first, c)][FieldSum(second, k)]
    BY <1>10, <1>11, <1>12, SumJoins
  <2> QED BY <2>1, <1>7, <1>9
<1>14. Plus[given][Plus[missed][given]] = missed
  <2>1. Plus[missed][given] = Plus[given][missed] /\ Plus[given][given] = 0 /\ Plus[0][missed] = missed
    BY <1>3, PlusFacts
  <2>2. Plus[given][Plus[given][missed]] = Plus[Plus[given][given]][missed]
    BY <1>3, PlusFacts
  <2> QED BY <2>1, <2>2
<1>15. FieldSum(all, N) = FieldSum(Products(right, y, k), k)
  BY <1>4, <1>8, <1>13, <1>14
<1> QED BY <1>15 DEF Equation, all, left, right

LEMMA SequencesOfRepair ==
  ASSUME NEW N \in Nat, NEW missing \in SUBSET (1 .. N), NEW k \in Nat, k = Cardinality(missing)
  PROVE  /\ k <= N
         /\ IndexSequence(Indices(N, (1 .. N) \ missing), N - k, N)
         /\ IndexSequence(Indices(N, missing), k, N)
<1> DEFINE D == 1 .. N
           present == Indices(N, D \ missing)
           lost == Indices(N, missing)
<1>1. /\ present \in Seq(D) /\ lost \in Seq(D)
      /\ Len(lost) = k /\ Len(present) = N - Len(lost) /\ Len(lost) \in 0 .. N
  BY MissingFacts
<1> HIDE DEF present, lost
<1>2. IndexSequence(present, N - k, N) /\ IndexSequence(lost, k, N) /\ k <= N
  BY <1>1 DEF IndexSequence
<1> QED BY <1>2 DEF present, lost

(* What is lost is a block of the set.                                     *)
SameWords(solved, inputs, blocks, lost, k) ==
  \A i \in 1 .. k : Output(solved, i, inputs) = blocks[lost[i]]

LEMMA RepairGivesBack ==
  ASSUME NEW N \in Nat, N <= Len(Bases), NEW missing \in SUBSET (1 .. N),
         NEW k \in Nat \ {0}, k = Cardinality(missing), NEW e \in [1 .. k -> 0 .. Limit],
         NEW size \in Nat \ {0}, NEW blocks, AreWords(blocks, N, size),
         NEW words \in [1 .. k -> [1 .. size -> Field]],
         \A j \in 1 .. k : RecoveryWord(words[j], blocks, e[j], N, size),
         NEW solved, solved = Compute(N, missing, Rows(e)), solved # Unsolvable
  PROVE  SameWords(solved, Given(blocks, Indices(N, (1 .. N) \ missing), words), blocks, Indices(N, missing), k)
<1> DEFINE c == N - k
           present == Indices(N, (1 .. N) \ missing)
           lost == Indices(N, missing)
           M == Matrices(N, missing, Rows(e))
           inputs == Given(blocks, present, words)
<1>1. k \in Nat /\ c \in Nat /\ N = c + k /\ IndexSequence(present, c, N) /\ IndexSequence(lost, k, N)
  <2>1. k \in Nat
    OBVIOUS
  <2>2. k <= N /\ IndexSequence(present, N - k, N) /\ IndexSequence(lost, k, N)
    BY <2>1, SequencesOfRepair
  <2> HIDE DEF present, lost
  <2>3. N - k \in Nat /\ N = (N - k) + k
    BY <2>1, <2>2
  <2> QED BY <2>1, <2>2, <2>3
<1> HIDE DEF c
<1>2. IsMatrix(M, k, N) /\ solved = GaussElim(M, N, k) /\ RepairRows(M, present, lost, e, c, k)
  <2>1. /\ IsMatrix(M, k, N)
        /\ Compute(N, missing, Rows(e)) = GaussElim(M, N, k)
        /\ RepairRows(M, present, lost, e, c, k)
    <3>1. /\ c \in Nat /\ N = c + k /\ k \in Nat \ {0} /\ N <= Len(Bases) /\ missing \in SUBSET (1 .. N)
          /\ k = Cardinality(missing) /\ e \in [1 .. k -> 0 .. Limit]
      BY <1>1
    <3>2. ToRepair(N, missing, e, c, k)
      BY ONLY <3>1, MatrixOfRepair
    <3> QED BY <3>2 DEF ToRepair
  <2> QED BY <2>1
<1>3. /\ Len(inputs) = N
      /\ \A n \in 1 .. c : inputs[n] = blocks[present[n]]
      /\ \A j \in 1 .. k : inputs[c + j] = words[j]
      /\ \A n \in 1 .. N : inputs[n] \in [1 .. size -> Field]
  <2> HIDE DEF present
  <2>1. present \in Seq(1 .. N) /\ Len(present) = c
    BY <1>1 DEF IndexSequence
  <2>2. c \in Nat /\ k \in Nat /\ c + k = N /\ N \in Nat /\ size \in Nat
    BY <1>1
  <2>3. words \in [1 .. k -> [1 .. size -> Field]] /\ AreWords(blocks, N, size)
    BY DEF AreWords
  <2>4. IsGiven(inputs, blocks, present, words, c, k, N, size)
    BY ONLY <2>1, <2>2, <2>3, WhatIsRead
  <2> HIDE DEF inputs
  <2> QED BY <2>4 DEF IsGiven, AreWords
<1>4. present = Indices(N, (1 .. N) \ missing) /\ lost = Indices(N, missing)
  OBVIOUS
<1> HIDE DEF present, lost, M, inputs
<1>0. \A n \in 1 .. N : blocks[n] \in [1 .. size -> Field]
  BY DEF AreWords
<1>5. (\A n \in 1 .. c : present[n] \in 1 .. N) /\ \A j \in 1 .. k : lost[j] \in 1 .. N
  <2> DEFINE D == 1 .. N
  <2>1. present \in Seq(D) /\ lost \in Seq(D) /\ Len(lost) = k /\ Len(present) = c
    BY <1>1 DEF IndexSequence
  <2> HIDE DEF D
  <2>2. (\A n \in 1 .. c : present[n] \in D) /\ \A j \in 1 .. k : lost[j] \in D
    BY <2>1
  <2> QED BY <2>2 DEF D
<1>6. \A n \in 1 .. N : Bases[n] \in Field
  <2>1. Len(Bases) \in Nat /\ \A n \in 1 .. Len(Bases) : Bases[n] \in Field
    BY BasesInField
  <2> QED BY <2>1
<1>7. ASSUME NEW p \in 1 .. size
      PROVE  /\ IsMatrix(solved, k, N)
             /\ \A i \in 1 .. k :
                  FieldSum(Products(LeftRow(solved, i, N), Column(inputs, p, N), N), N) = blocks[lost[i]][p]
  <2> DEFINE col == Column(blocks, p, N)
             x == Column(inputs, p, N)
             y == [j \in 1 .. k |-> blocks[lost[j]][p]]
  <2>1. Elements(col, N) /\ Elements(x, N)
    BY <1>0, <1>3 DEF Column, Elements
  <2>2. Elements(y, k)
    BY <1>0, <1>5 DEF Elements
  <2>3. LostByte(y, col, lost, k)
    BY <1>5 DEF Column, LostByte
  <2>4. ASSUME NEW i \in 1 .. k PROVE Equation(M, i, x, y, N, k)
    <3> DEFINE a == Factors(e[i], N)
               sum == FieldSum(Products(a, col, N), N)
    <3>1. Elements(a, N)
      BY <1>6, PowInField DEF Elements, Factors, Factor
    <3>2. RowOfRepair(M, i, a, present, lost, c, k)
      BY <1>2, <1>5 DEF RepairRows, RowOfRepair, Factors, Factor
    <3>3. words[i][p] = sum
      BY DEF RecoveryWord
    <3> HIDE DEF a, sum
    <3>4. ASSUME NEW j \in 1 .. k PROVE x[c + j] = words[j][p] /\ words[j][p] \in Field
      <4> DEFINE n == c + j
      <4>1. n \in 1 .. N
        BY ONLY <1>1, j \in 1 .. k
      <4>2. inputs[n] = words[j] /\ words[j] \in [1 .. size -> Field]
        BY <1>3
      <4> HIDE DEF n
      <4>3. x[n] = words[j][p]
        BY <4>1, <4>2 DEF Column
      <4> QED BY <4>2, <4>3 DEF n
    <3>5. ASSUME NEW n \in 1 .. c PROVE x[n] = col[present[n]]
      <4>1. n \in 1 .. N
        BY ONLY <1>1, n \in 1 .. c
      <4> QED BY <4>1, <1>3, <1>5 DEF Column
    <3> HIDE DEF x, y, col
    <3>6. ReadByte(x, i, col, sum, present, c, k)
      BY <3>3, <3>4, <3>5 DEF ReadByte
    <3>7. ReadByte(x, i, col, FieldSum(Products(a, col, N), N), present, c, k)
      BY <3>6 DEF sum
    <3>8. c \in Nat /\ k \in Nat /\ N \in Nat /\ N = c + k /\ i \in 1 .. k
      BY <1>1
    <3> QED BY ONLY <1>1, <1>4, <2>1, <2>3, <3>1, <3>2, <3>7, <3>8, ByteOfRepair
  <2>5. \A i \in 1 .. k : y[i] = blocks[lost[i]][p]
    OBVIOUS
  <2> HIDE DEF x, y, col
  <2>6. /\ IsMatrix(GaussElim(M, N, k), k, N)
        /\ \A i \in 1 .. k : FieldSum(Products(LeftRow(GaussElim(M, N, k), i, N), x, N), N) = y[i]
    <3>1. Equations(M, x, y, N, k)
      BY <2>4 DEF Equations
    <3> QED BY <1>1, <1>2, <2>1, <2>2, <3>1, SolvedFacts
  <2> QED BY <1>2, <2>5, <2>6 DEF x
<1>8. ASSUME NEW i \in 1 .. k PROVE Output(solved, i, inputs) = blocks[lost[i]]
  <2> DEFINE Sum(p) == FieldSum(Products(LeftRow(solved, i, N), Column(inputs, p, N), N), N)
  <2>1. IsMatrix(solved, k, N)
    <3>1. 1 \in 1 .. size
      OBVIOUS
    <3> QED BY <3>1, <1>7
  <2>2. Elements(LeftRow(solved, i, N), N)
    BY <1>1, <2>1, RowFacts
  <2>3. N \in Nat \ {0} /\ size \in Nat
    BY <1>1
  <2>4. Output(solved, i, inputs) = [p \in 1 .. size |-> Sum(p)]
    <3>1. Len(inputs) = N /\ AreWords(inputs, N, size)
      BY <1>3 DEF AreWords
    <3> QED BY ONLY <3>1, <2>2, <2>3, OutputAt
  <2>5. \A p \in 1 .. size : Sum(p) = blocks[lost[i]][p]
    BY <1>7
  <2>6. blocks[lost[i]] = [p \in 1 .. size |-> blocks[lost[i]][p]]
    BY <1>0, <1>5
  <2> HIDE DEF Sum
  <2> QED BY <2>4, <2>5, <2>6
<1> QED BY <1>8 DEF SameWords, present, lost, inputs

-----------------------------------------------------------------------------
(* The set.                                                                *)

(* The exponents fit, and a matrix that is used has the factors of the     *)
(* recovery blocks.                                                        *)
ExponentsFit == recoveryblockcount # 0 => ask.firstblock + recoveryblockcount < MaxExponents
FactorsTrue ==
  (pc \in {"ProcessData", "WriteHeaders"} \/ headers # {}) =>
    /\ Len(SourceBlocks) <= Len(Bases)
    /\ \A i \in 1 .. recoveryblockcount : \A n \in 1 .. Len(SourceBlocks) :
         matrix[<<i, n>>] = Factor(n, ask.firstblock + i - 1)
MInv == HInv /\ ExponentsFit /\ FactorsTrue

LEMMA ParsedExponents ==
  ASSUME NEW blocks, NEW size, NEW largest, NEW number,
         number = ComputeRecoveryBlockCount(ask, blocks, size, largest), number # None
  PROVE  ~(ask.firstblock + number >= MaxExponents)
BY DEF ComputeRecoveryBlockCount

LEMMA ExponentsFitKeeps == (IInv /\ ExponentsFit /\ [Next]_vars) => ExponentsFit'
<1> SUFFICES ASSUME IInv, ExponentsFit, [Next]_vars PROVE ExponentsFit'
  OBVIOUS
<1>1. Shape
  BY DEF IInv
<1>2. ask' = ask
  BY <1>1, FilesKeepTheirSizes
<1>3. CASE recoveryblockcount' = recoveryblockcount
  BY <1>2, <1>3 DEF ExponentsFit
<1>4. CASE recoveryblockcount' # recoveryblockcount
  <2>1. Parse
    BY <1>4 DEF Next, Create, vars, sizes, CheckBasepath, ComputeSizes, CreateMainPacket, CreateFile, ComputeRSMatrix,
       ReadBlock, WriteData, EndPass, WriteHeader, FinishFileHashComputation, WriteCriticalPacket, CloseFiles,
       OpenSourceFile, SourceChanges
  <2> DEFINE size == IF ask.blocksize # None THEN ask.blocksize
                     ELSE IF ask.blockcount # None THEN ComputeBlockSize(FileSizes, ask.blockcount)
                     ELSE DefaultBlockSize(FileSizes)
             largest == Ceil(Max({Len(disk[f]) : f \in DOMAIN disk}), size)
             blocks == SourceBlockCount(FileSizes, size)
             number == ComputeRecoveryBlockCount(ask, blocks, size, largest)
  <2>2. size # None /\ number # None /\ recoveryblockcount' = number
    <3> HIDE DEF size, blocks, largest
    <3> QED BY <2>1, <1>4 DEF Parse, sizes, size, blocks, largest
  <2>3. number \in Nat \union {None}
    BY <1>1, <2>2, ParsedSizes
  <2> HIDE DEF size, largest, blocks
  <2>4. ~(ask.firstblock + number >= MaxExponents)
    BY <2>2, ParsedExponents
  <2> HIDE DEF number
  <2>5. ask.firstblock \in Nat /\ MaxExponents \in Nat /\ number \in Nat
    BY <1>1, <2>2, <2>3, CreatorAssumption, CommandLineAssumption DEF Shape
  <2>6. ask.firstblock + number < MaxExponents
    BY <2>4, <2>5
  <2> QED BY <1>2, <2>2, <2>6 DEF ExponentsFit
<1> QED BY <1>3, <1>4

LEMMA BlocksStay ==
  ASSUME Shape, [Next]_vars, UNCHANGED <<sourcefiles, blocksize>>
  PROVE  SourceBlocks' = SourceBlocks
<1>1. FileSizes' = FileSizes
  BY FilesKeepTheirSizes
<1>2. \A f \in DOMAIN disk : Len(disk'[f]) = Len(disk[f])
  <2> TAKE f \in DOMAIN disk
  <2>1. FileSizes[f] = Len(disk[f]) /\ DOMAIN FileSizes = DOMAIN disk /\ DOMAIN FileSizes' = DOMAIN disk'
    BY DEF FileSizes
  <2>2. f \in DOMAIN disk'
    BY <1>1, <2>1
  <2>3. FileSizes'[f] = Len(disk'[f])
    BY <2>2 DEF FileSizes
  <2> QED BY <1>1, <2>1, <2>3
<1>3. \A f \in DOMAIN disk : BlockCount(f)' = BlockCount(f)
  BY <1>2 DEF BlockCount
<1>4. \A i \in DOMAIN sourcefiles : sourcefiles[i] \in DOMAIN disk
  <2> DEFINE F == DOMAIN disk
  <2>1. sourcefiles \in Seq(F)
    BY DEF Shape
  <2> HIDE DEF F
  <2>2. \A i \in DOMAIN sourcefiles : sourcefiles[i] \in F
    BY <2>1
  <2> QED BY <2>2 DEF F
<1> DEFINE lists == [i \in DOMAIN sourcefiles |-> [n \in 1 .. BlockCount(sourcefiles[i]) |-> <<sourcefiles[i], n>>]]
<1>5. lists' = lists
  BY <1>3, <1>4
<1>6. SourceBlocks = FlattenSeq(lists) /\ SourceBlocks' = FlattenSeq(lists')
  BY DEF SourceBlocks
<1> HIDE DEF lists
<1> QED BY <1>5, <1>6

(* The blocks are at least one, and as many as are described.              *)
LEMMA SetIsListed ==
  ASSUME Shape, Hashed, Ordered
  PROVE  \E start : StartsAt(start, sourcefiles, BlocksOf) /\ Listed(start)
<1>1. blocksize # 0
  <2>1. IsFiniteSet(DOMAIN disk) /\ DOMAIN disk # {}
    BY CreatorAssumption DEF Shape
  <2>2. ToSet(sourcefiles) = DOMAIN disk
    BY <2>1, OrderFacts DEF Ordered
  <2>3. sourcefiles # <<>>
    BY <2>1, <2>2 DEF ToSet
  <2> QED BY <2>3 DEF Shape
<1> DEFINE F == DOMAIN disk
           content == BlocksOf
<1>2. \A f \in F : BlockCount(f) \in Nat
  BY <1>1, BlockCounts
<1>3. content \in [F -> Seq(F \X Nat)]
  <2>1. \A f \in F : [n \in 1 .. BlockCount(f) |-> <<f, n>>] \in Seq(F \X Nat)
    BY <1>2
  <2> QED BY <2>1 DEF BlocksOf
<1>4. sourcefiles \in Seq(F)
  BY DEF Shape
<1> HIDE DEF F, content
<1>5. PICK start : StartsAt(start, sourcefiles, content)
  BY <1>3, <1>4, StartsExist
<1> QED BY <1>1, <1>5, Listing DEF content

LEMMA MatrixIsTrue == (IInv /\ ComputeRSMatrix) => FactorsTrue'
<1> SUFFICES ASSUME IInv, ComputeRSMatrix, pc' \in {"ProcessData", "WriteHeaders"} \/ headers' # {}
             PROVE  FactorsTrue'
  BY DEF FactorsTrue
<1>1. Shape /\ Hashed /\ Ordered /\ headers = {} /\ recoveryblockcount \in Nat
  BY DEF IInv, Staged, ComputeRSMatrix, Shape, Reading
<1>2. UNCHANGED <<input, sizes, sourcefiles, packets>> /\ headers' = headers
  BY DEF ComputeRSMatrix, packets
<1>3. pc' \in {"ProcessData", "WriteHeaders"}
  BY <1>1, <1>2
<1>4. recoveryblockcount # 0 /\ ~TooManyInputs(Len(SourceBlocks)) /\ matrix' = Matrix
  BY <1>3 DEF ComputeRSMatrix, Goto, Stop
<1> DEFINE N == Len(SourceBlocks)
           r == recoveryblockcount
           rows == [i \in 1 .. recoveryblockcount |-> [present |-> FALSE, exponent |-> ask.firstblock + i - 1]]
<1>5. N \in Nat /\ N <= Len(Bases)
  <2>1. N \in Nat
    BY <1>1, SetIsListed DEF Listed
  <2>2. Len(Bases) \in Nat
    BY BasesInField
  <2> QED BY <1>4, <2>1, <2>2 DEF TooManyInputs
<1>6. r \in Nat \ {0} /\ ToMake(rows, r)
  BY <1>1, <1>4 DEF ToMake
<1>7. matrix' = Compute(N, {}, rows)
  BY <1>4 DEF Matrix
<1>8. \A i \in 1 .. r : rows[i].exponent = ask.firstblock + i - 1
  OBVIOUS
<1>9. SourceBlocks' = SourceBlocks /\ ask' = ask /\ r' = r
  <2>1. [Next]_vars
    BY DEF Next, Create
  <2> QED BY <1>1, <1>2, <2>1, BlocksStay DEF input, sizes
<1>10. N' = N
  BY <1>9
<1> HIDE DEF N, rows, r
<1>11. ASSUME NEW i \in 1 .. r, NEW n \in 1 .. N PROVE matrix'[<<i, n>>] = Factor(n, ask.firstblock + i - 1)
  <2>1. HasFactors(matrix', rows, r, N)
    BY <1>5, <1>6, <1>7, MatrixOfCreation
  <2> QED BY <1>8, <2>1 DEF Factor, HasFactors
<1> QED BY <1>5, <1>9, <1>10, <1>11 DEF FactorsTrue, N, r, Factor

LEMMA FactorsStay == (IInv /\ FactorsTrue /\ ~ComputeRSMatrix /\ [Next]_vars) => FactorsTrue'
<1> SUFFICES ASSUME IInv, FactorsTrue, ~ComputeRSMatrix, [Next]_vars,
                    pc' \in {"ProcessData", "WriteHeaders"} \/ headers' # {}
             PROVE  FactorsTrue'
  BY DEF FactorsTrue
<1>1. Shape
  BY DEF IInv
<1>2. pc \in {"ProcessData", "WriteHeaders"} \/ headers # {}
  BY DEF Next, Create, vars, packets, Goto, Stop, Parse, CheckBasepath, ComputeSizes, CreateMainPacket, CreateFile,
     ComputeRSMatrix, ReadBlock, WriteData, EndPass, WriteHeader, FinishFileHashComputation, WriteCriticalPacket,
     CloseFiles, OpenSourceFile, SourceChanges
<1>3. pc \notin Reading \ {"ProcessData"}
  BY <1>2 DEF IInv, Staged, Reading, Sizing
<1>4. UNCHANGED <<sourcefiles, sizes, matrix>>
  BY <1>3 DEF Next, Create, vars, Reading, Sizing, Parse, CheckBasepath, ComputeSizes, CreateMainPacket, CreateFile,
     ComputeRSMatrix, ReadBlock, WriteData, EndPass, WriteHeader, FinishFileHashComputation, WriteCriticalPacket,
     CloseFiles, OpenSourceFile, SourceChanges
<1>5. SourceBlocks' = SourceBlocks /\ ask' = ask
  BY <1>1, <1>4, BlocksStay, FilesKeepTheirSizes DEF sizes
<1> QED BY <1>2, <1>4, <1>5 DEF FactorsTrue, sizes, Factor

LEMMA MatrixInvariant == Spec => []MInv
<1>1. Init => MInv
  <2>1. Init => HInv
    BY HashesStart
  <2>2. Init => ExponentsFit /\ FactorsTrue
    BY DEF Init, ExponentsFit, FactorsTrue
  <2> QED BY <2>1, <2>2 DEF MInv
<1>2. MInv /\ [Next]_vars => MInv'
  <2>1. HInv /\ [Next]_vars => HInv'
    BY NextKeepsHashes
  <2> QED BY <2>1, ExponentsFitKeeps, MatrixIsTrue, FactorsStay DEF MInv, HInv
<1> QED BY <1>1, <1>2, PTL DEF Spec

(* What a recovery packet with its header holds.                           *)
HasWord(i) == RecoveryWord(recoverydata[i], Described, ask.firstblock + i - 1, Len(Described), blocksize)

LEMMA WordsAreDescribed ==
  ASSUME HInv, result = "Success"
  PROVE  /\ Len(Described) \in Nat \ {0} /\ Len(SourceBlocks) = Len(Described)
         /\ DOMAIN Described = 1 .. Len(Described)
         /\ blocksize \in Nat \ {0} /\ recoveryblockcount \in Nat /\ headers \subseteq 1 .. recoveryblockcount
         /\ AreWords(Described, Len(Described), blocksize)
<1>1. Shape /\ Hashed /\ Staged /\ AllRead /\ Ordered
  BY DEF HInv, IInv, Finished
<1>2. PICK start : StartsAt(start, sourcefiles, BlocksOf) /\ Listed(start)
  BY <1>1, SetIsListed
<1> DEFINE N == Len(Described)
<1>3. N \in Nat \ {0} /\ Len(SourceBlocks) = N /\ DOMAIN Described = 1 .. N
  BY <1>2 DEF Listed
<1>4. headers \subseteq 1 .. recoveryblockcount /\ recoveryblockcount \in Nat
  BY <1>1 DEF Staged, Shape
<1>5. blocksize \in Nat \ {0}
  <2>1. sourcefiles # <<>>
    BY <1>2 DEF Listed
  <2> QED BY <1>1, <2>1 DEF Shape
<1>6. AreWords(Described, N, blocksize)
  <2>1. ASSUME NEW k \in 1 .. Len(SourceBlocks) PROVE Described[k] \in Words
    <3>1. PICK i \in 1 .. Len(sourcefiles) : \E n \in 1 .. BlockCount(sourcefiles[i]) : k = start[i - 1] + n
      BY <1>2 DEF Listed
    <3>2. PICK n \in 1 .. BlockCount(sourcefiles[i]) : k = start[i - 1] + n
      BY <3>1
    <3>3. sourcefiles[i] \in DOMAIN disk /\ Described[k] = verifications[sourcefiles[i]][n]
      BY <1>2, <3>2 DEF Listed
    <3> QED BY <1>1, <3>3 DEF AllRead
  <2> HIDE DEF N
  <2> QED BY <1>3, <2>1 DEF AreWords, Words
<1> QED BY <1>3, <1>4, <1>5, <1>6

(* The exponents of the set, and its blocks, are no more than the field    *)
(* has powers and bases for.                                               *)
LEMMA ExponentsOfSet ==
  ASSUME MInv, result = "Success", headers # {}
  PROVE  /\ Len(Described) <= Len(Bases)
         /\ \A i \in 1 .. recoveryblockcount : ask.firstblock + i - 1 \in 0 .. Limit
<1>1. Shape /\ FactorsTrue /\ ExponentsFit
  BY DEF MInv, HInv, IInv
<1>2. Len(SourceBlocks) = Len(Described) /\ recoveryblockcount \in Nat
  BY WordsAreDescribed DEF MInv
<1>3. ASSUME NEW i \in 1 .. recoveryblockcount PROVE ask.firstblock + i - 1 \in 0 .. Limit
  <2>1. ask.firstblock \in Nat /\ MaxExponents \in Nat /\ Count \in Nat /\ MaxExponents <= Count
    BY <1>1, CreatorAssumption, CommandLineAssumption, CountAssumption DEF Shape
  <2>2. recoveryblockcount # 0 /\ ask.firstblock + recoveryblockcount < MaxExponents
    BY <1>1, <1>2 DEF ExponentsFit
  <2>3. Limit = Count - 1
    BY DEF Limit
  <2> QED BY ONLY <1>2, <2>1, <2>2, <2>3, i \in 1 .. recoveryblockcount
<1> QED BY <1>1, <1>2, <1>3 DEF FactorsTrue

LEMMA WordsAreMade ==
  ASSUME MInv, result = "Success", ReadAsHashed, headers # {}
  PROVE  /\ Len(Described) <= Len(Bases)
         /\ \A i \in 1 .. recoveryblockcount :
              /\ ask.firstblock + i - 1 \in 0 .. Limit
              /\ recoverydata[i] \in [1 .. blocksize -> Field] /\ HasWord(i)
<1>1. Shape /\ DataWritten /\ FactorsTrue /\ ExponentsFit
  BY DEF MInv, HInv, IInv
<1> DEFINE N == Len(Described)
<1>3. N \in Nat \ {0} /\ Len(SourceBlocks) = N
  BY WordsAreDescribed DEF MInv
<1>4. recoveryblockcount \in Nat
  BY WordsAreDescribed DEF MInv
<1>5. blocksize \in Nat \ {0}
  BY WordsAreDescribed DEF MInv
<1>6. AreWords(Described, N, blocksize)
  BY WordsAreDescribed DEF MInv
<1> HIDE DEF N
<1>7. N <= Len(Bases) /\ \A i \in 1 .. recoveryblockcount : \A n \in 1 .. N :
                              matrix[<<i, n>>] = Factor(n, ask.firstblock + i - 1)
  BY <1>1, <1>3 DEF FactorsTrue
<1>8. ASSUME NEW i \in 1 .. recoveryblockcount
      PROVE  /\ ask.firstblock + i - 1 \in 0 .. Limit
             /\ recoverydata[i] \in [1 .. blocksize -> Field] /\ HasWord(i)
  <2> DEFINE e == ask.firstblock + i - 1
  <2>1. e \in 0 .. Limit
    BY ExponentsOfSet
  <2> HIDE DEF e
  <2> DEFINE a == Factors(e, N)
             Word(p) == FieldSum(Products(a, Column(Described, p, N), N), N)
  <2>2. Elements(a, N)
    <3>1. \A n \in 1 .. N : Bases[n] \in Field
      <4>1. Len(Bases) \in Nat /\ \A n \in 1 .. Len(Bases) : Bases[n] \in Field
        BY BasesInField
      <4> QED BY <1>3, <1>7, <4>1
    <3> QED BY <2>1, <3>1, PowInField DEF Elements, Factors, Factor
  <2>3. LeftRow(matrix, i, N) = a
    BY <1>7 DEF LeftRow, Factors, e
  <2>4. recoverydata[i] = Output(matrix, i, Described)
    BY <1>1 DEF DataWritten
  <2> HIDE DEF a
  <2>5. Output(matrix, i, Described) = [p \in 1 .. blocksize |-> Word(p)]
    <3>1. /\ N \in Nat \ {0} /\ Len(Described) = N /\ blocksize \in Nat
          /\ AreWords(Described, N, blocksize) /\ Elements(LeftRow(matrix, i, N), N)
      BY <1>3, <1>5, <1>6, <2>2, <2>3 DEF N
    <3>2. Output(matrix, i, Described) =
            [p \in 1 .. blocksize |-> FieldSum(Products(LeftRow(matrix, i, N), Column(Described, p, N), N), N)]
      BY ONLY <3>1, OutputAt
    <3> QED BY <2>3, <3>2
  <2>6. ASSUME NEW p \in 1 .. blocksize PROVE Word(p) \in Field
    <3>1. Elements(Column(Described, p, N), N)
      BY <1>6 DEF Elements, Column, AreWords
    <3> QED BY <1>3, <2>2, <3>1, ProductsTyped
  <2>7. HasWord(i)
    BY <2>4, <2>5 DEF HasWord, RecoveryWord, a, e, N
  <2> HIDE DEF Word
  <2>8. recoverydata[i] \in [1 .. blocksize -> Field]
    BY <2>4, <2>5, <2>6
  <2> QED BY <2>1, <2>7, <2>8 DEF e
<1> QED BY <1>7, <1>8 DEF N

LEMMA ExponentsOfUsed ==
  ASSUME NEW r \in Nat, NEW used \in SUBSET (1 .. r), NEW k \in Nat, k = Cardinality(used)
  PROVE  IndexSequence(Indices(r, used), k, r)
<1>1. used \intersect (1 .. r) = used
  OBVIOUS
<1>2. Indices(r, used) \in Seq(used) /\ Len(Indices(r, used)) = k
  BY <1>1, IndicesFacts
<1>3. used \subseteq 1 .. r
  OBVIOUS
<1>4. Indices(r, used) \in Seq(1 .. r)
  BY ONLY <1>2, <1>3, SeqOfMore
<1> QED BY <1>2, <1>4 DEF IndexSequence

LEMMA WhatIsRepaired ==
  ASSUME MInv, result = "Success", ReadAsHashed, NEW missing \in SUBSET DOMAIN Described, NEW used \in SUBSET headers,
         missing # {}, Cardinality(missing) = Cardinality(used),
         NEW solved, solved = Solved(missing, used), solved # Unsolvable
  PROVE  Repaired(solved, missing, used) =
           [i \in 1 .. Cardinality(missing) |-> Described[Indices(Len(Described), missing)[i]]]
<1> DEFINE N == Len(Described)
           k == Cardinality(missing)
           taken == Indices(recoveryblockcount, used)
           e == [i \in 1 .. k |-> ask.firstblock + taken[i] - 1]
           words == [i \in 1 .. k |-> recoverydata[taken[i]]]
           lost == Indices(N, missing)
           inputs == Given(Described, Indices(N, (1 .. N) \ missing), words)
<1>1. /\ N \in Nat \ {0} /\ DOMAIN Described = 1 .. N /\ missing \in SUBSET (1 .. N)
      /\ blocksize \in Nat \ {0} /\ recoveryblockcount \in Nat /\ used \in SUBSET (1 .. recoveryblockcount)
      /\ AreWords(Described, N, blocksize)
  BY WordsAreDescribed DEF MInv
<1>2. k \in Nat \ {0}
  <2>1. IsFiniteSet(1 .. N)
    BY <1>1, FS_Interval
  <2>2. IsFiniteSet(missing)
    BY <1>1, <2>1, FS_Subset
  <2>3. k \in Nat /\ (k = 0 <=> missing = {})
    BY <2>2, FS_EmptySet, FS_CardinalityType
  <2> QED BY <2>3
<1>3. headers # {}
  <2> SUFFICES ASSUME headers = {} PROVE FALSE
    OBVIOUS
  <2>1. used = {} /\ Cardinality({}) = 0
    BY FS_EmptySet
  <2> QED BY <1>2, <2>1
<1>4. /\ N <= Len(Bases)
      /\ \A i \in 1 .. recoveryblockcount :
           /\ ask.firstblock + i - 1 \in 0 .. Limit
           /\ recoverydata[i] \in [1 .. blocksize -> Field] /\ HasWord(i)
  BY <1>3, WordsAreMade
<1>5. IndexSequence(taken, k, recoveryblockcount)
  BY <1>1, <1>2, ExponentsOfUsed
<1>6. DOMAIN taken = 1 .. k /\ \A i \in 1 .. k : taken[i] \in 1 .. recoveryblockcount
  <2> DEFINE D == 1 .. recoveryblockcount
  <2>1. taken \in Seq(D) /\ Len(taken) = k
    BY <1>5 DEF IndexSequence
  <2> HIDE DEF D, taken
  <2>2. DOMAIN taken = 1 .. k /\ \A i \in 1 .. k : taken[i] \in D
    BY <2>1
  <2> QED BY <2>2 DEF D
<1> HIDE DEF taken
<1>7. e \in [1 .. k -> 0 .. Limit]
  BY <1>4, <1>6
<1>8. words \in [1 .. k -> [1 .. blocksize -> Field]]
  BY <1>4, <1>6
<1>9. \A j \in 1 .. k : RecoveryWord(words[j], Described, e[j], N, blocksize)
  <2> TAKE j \in 1 .. k
  <2>1. HasWord(taken[j])
    BY <1>4, <1>6
  <2>2. words[j] = recoverydata[taken[j]] /\ e[j] = ask.firstblock + taken[j] - 1
    OBVIOUS
  <2> HIDE DEF words, e
  <2> QED BY <2>1, <2>2 DEF HasWord
<1>10. solved = Compute(N, missing, Rows(e))
  <2>1. Solved(missing, used) = Compute(Len(Described), missing,
          [i \in 1 .. Cardinality(used) |-> [present |-> TRUE, exponent |-> ask.firstblock + taken[i] - 1]])
    BY DEF Solved, taken
  <2>2. Rows(e) = [i \in 1 .. k |-> [present |-> TRUE, exponent |-> ask.firstblock + taken[i] - 1]]
    BY DEF Rows
  <2> QED BY <2>1, <2>2
<1>11. [i \in DOMAIN taken |-> recoverydata[taken[i]]] = words
  BY <1>6
<1>12. Repaired(solved, missing, used) = [i \in 1 .. k |-> Output(solved, i, inputs)]
  <2>1. Repaired(solved, missing, used) = [i \in DOMAIN taken |-> Output(solved, i,
          [h \in DOMAIN Indices(N, (1 .. N) \ missing) |-> Described[Indices(N, (1 .. N) \ missing)[h]]] \o words)]
    BY <1>1, <1>11 DEF Repaired, taken
  <2> HIDE DEF words
  <2> QED BY <1>6, <2>1 DEF Given
<1> HIDE DEF e, words
<1>13. SameWords(solved, inputs, Described, lost, k)
  BY <1>1, <1>2, <1>4, <1>7, <1>8, <1>9, <1>10, RepairGivesBack
<1> HIDE DEF inputs, lost
<1> QED BY <1>12, <1>13 DEF SameWords, lost

(* A set that was made repairs: whatever source blocks are lost, and with  *)
(* whichever recovery packets as many as those, if GaussElim ends with a   *)
(* matrix then the blocks that come out of ProcessData in Par2Repairer are *)
(* the lost ones, byte for byte.  GaussElim keeps every equation between   *)
(* the blocks that are read and those that are lost, and the equations it  *)
(* starts from are those the recovery data was made by.                    *)
THEOREM SetRepairs == Spec => []RecoveryRepairs
<1>1. MInv => RecoveryRepairs
  <2> SUFFICES ASSUME MInv, result = "Success", ReadAsHashed,
                      NEW repair \in Repairs, NEW solved \in {Solved(repair[1], repair[2])} \ {Unsolvable}
               PROVE  Repaired(solved, repair[1], repair[2]) =
                        [i \in 1 .. Cardinality(repair[1]) |-> Described[Indices(Len(Described), repair[1])[i]]]
    BY DEF RecoveryRepairs, ReadAsHashed
  <2>1. /\ repair[1] \in SUBSET DOMAIN Described /\ repair[2] \in SUBSET headers
        /\ repair[1] # {} /\ Cardinality(repair[1]) = Cardinality(repair[2])
    BY DEF Repairs
  <2> QED BY <2>1, WhatIsRepaired
<1> QED BY <1>1, MatrixInvariant, PTL

-----------------------------------------------------------------------------
(* Polynomials whose first coefficient is 1, by their degree, as functions *)
(* of the field.                                                           *)
One == [x \in Field |-> 1]
Shifted(c, q) == [x \in Field |-> Plus[c][Times[x][q[x]]]]
Monics(M, n) ==
  M[0] = {One} /\ \A d \in 1 .. n : M[d] = {Shifted(c, q) : c \in Field, q \in M[d - 1]}

LEMMA MonicsExist ==
  ASSUME NEW n \in Nat
  PROVE  \E M : Monics(M, n)
<1> DEFINE Next1(S) == {Shifted(c, q) : c \in Field, q \in S}
           P == {d \in Nat : \E M : Monics(M, d)}
<1>1. 0 \in P
  <2>1. Monics([d \in {0} |-> {One}], 0)
    BY DEF Monics
  <2> QED BY <2>1
<1>2. ASSUME NEW l \in P PROVE l + 1 \in P
  <2>1. PICK M : Monics(M, l)
    BY <1>2
  <2> DEFINE next == Next1(M[l])
             h == [d \in 0 .. l + 1 |-> IF d = l + 1 THEN next ELSE M[d]]
  <2>2. l \in Nat
    OBVIOUS
  <2>3. h[0] = {One}
    BY <2>1, <2>2 DEF Monics
  <2>4. \A d \in 1 .. l : M[d] = Next1(M[d - 1])
    BY <2>1 DEF Monics
  <2> HIDE DEF Next1
  <2>5. ASSUME NEW d \in 1 .. l + 1 PROVE h[d] = Next1(h[d - 1])
    <3>1. d - 1 \in 0 .. l + 1 /\ d \in 0 .. l + 1 /\ d - 1 # l + 1
      BY <2>2
    <3>2. h[d - 1] = M[d - 1]
      BY <3>1
    <3>3. CASE d = l + 1
      <4>1. d - 1 = l
        BY <3>3, <2>2
      <4> QED BY <3>1, <3>2, <3>3, <4>1
    <3>4. CASE d # l + 1
      <4>1. d \in 1 .. l /\ h[d] = M[d]
        BY <3>1, <3>4, <2>2
      <4> QED BY <4>1, <3>2, <2>4
    <3> QED BY <3>3, <3>4
  <2> HIDE DEF h
  <2>6. Monics(h, l + 1)
    BY <2>3, <2>5 DEF Monics, Next1
  <2> QED BY <2>2, <2>6
<1>3. P = Nat
  <2> HIDE DEF P
  <2>1. P \in SUBSET Nat
    BY DEF P
  <2> QED BY <1>1, <1>2, <2>1, Induction
<1> QED BY <1>3

(* One of the next degree.                                                 *)
LEMMA MonicParts ==
  ASSUME NEW M, NEW n \in Nat, Monics(M, n), NEW d \in Nat, d < n
  PROVE  /\ \A p \in M[d + 1] : \E c \in Field, q \in M[d] : p = Shifted(c, q)
         /\ \A c \in Field, q \in M[d] : Shifted(c, q) \in M[d + 1]
<1>1. d + 1 \in 1 .. n /\ (d + 1) - 1 = d
  OBVIOUS
<1>2. M[d + 1] = {Shifted(c, q) : c \in Field, q \in M[d]}
  BY <1>1 DEF Monics
<1> QED BY <1>2

LEMMA ShiftedTyped ==
  ASSUME NEW c \in Field, NEW q \in [Field -> Field]
  PROVE  /\ Shifted(c, q) \in [Field -> Field]
         /\ \A x \in Field : Shifted(c, q)[x] = Plus[c][Times[x][q[x]]]
<1>1. ASSUME NEW x \in Field PROVE Plus[c][Times[x][q[x]]] \in Field
  <2>1. q[x] \in Field
    OBVIOUS
  <2>2. Times[x][q[x]] \in Field
    BY <2>1, TimesFacts
  <2> QED BY <2>2, PlusFacts
<1> QED BY <1>1 DEF Shifted

LEMMA MonicsTyped ==
  ASSUME NEW M, NEW n \in Nat, Monics(M, n)
  PROVE  \A d \in 0 .. n : M[d] \subseteq [Field -> Field]
<1> DEFINE P == {d \in 0 .. n : M[d] \subseteq [Field -> Field]}
<1>1. 0 \in P
  BY LogFacts DEF Monics, One
<1>2. ASSUME NEW d \in P, d < n PROVE d + 1 \in P
  <2>1. d \in Nat /\ d + 1 \in 0 .. n
    BY <1>2
  <2>2. \A p \in M[d + 1] : \E c \in Field, q \in M[d] : p = Shifted(c, q)
    BY <2>1, <1>2, MonicParts
  <2>3. \A q \in M[d] : q \in [Field -> Field]
    OBVIOUS
  <2>4. \A p \in M[d + 1] : p \in [Field -> Field]
    BY <2>2, <2>3, ShiftedTyped
  <2> QED BY <2>1, <2>4
<1>3. P = 0 .. n
  <2> HIDE DEF P
  <2>1. P \in SUBSET (0 .. n)
    BY DEF P
  <2> QED BY <1>1, <1>2, <2>1, InductionUpTo
<1> QED BY <1>3

(* One with another of a lower degree added to it, however often, is still *)
(* one.                                                                    *)
Added(p, f, q) == [x \in Field |-> Plus[p[x]][Times[f][q[x]]]]

LEMMA AddedToShifted ==
  ASSUME NEW c \in Field, NEW p \in [Field -> Field], NEW f \in Field, NEW e \in Field, NEW q \in [Field -> Field]
  PROVE  Added(Shifted(c, p), f, Shifted(e, q)) = Shifted(Plus[c][Times[f][e]], Added(p, f, q))
<1> DEFINE b == Plus[c][Times[f][e]]
<1>1. ASSUME NEW x \in Field
      PROVE  Plus[Shifted(c, p)[x]][Times[f][Shifted(e, q)[x]]] = Plus[b][Times[x][Plus[p[x]][Times[f][q[x]]]]]
  <2> DEFINE y == p[x]
             z == q[x]
  <2>1. y \in Field /\ z \in Field
    OBVIOUS
  <2>2. Shifted(c, p)[x] = Plus[c][Times[x][y]] /\ Shifted(e, q)[x] = Plus[e][Times[x][z]]
    BY ShiftedTyped
  <2> HIDE DEF y, z
  <2> DEFINE r == Times[x][y]
             s == Times[f][e]
             t == Times[x][z]
             u == Times[f][z]
             w == Times[f][t]
  <2>3. r \in Field /\ s \in Field /\ t \in Field /\ u \in Field
    BY <2>1, TimesFacts
  <2>5. Times[x][u] = w
    <3>1. Times[x][u] = Times[Times[x][f]][z] /\ Times[f][t] = Times[Times[f][x]][z] /\ Times[x][f] = Times[f][x]
      BY <2>1, TimesFacts
    <3> QED BY <3>1
  <2> HIDE DEF t, u
  <2>6. w \in Field
    BY <2>3, TimesFacts
  <2>4. Times[x][Plus[y][u]] = Plus[r][Times[x][u]]
    BY <2>1, <2>3, PlusFacts
  <2>7. Times[f][Plus[e][t]] = Plus[s][w]
    BY <2>3, PlusFacts
  <2> HIDE DEF r, s, w
  <2>8. Exchanged(c, r, s, w)
    BY <2>3, <2>6, Exchange
  <2>9. Plus[Plus[c][r]][Plus[s][w]] = Plus[Plus[c][s]][Plus[r][w]]
    BY <2>8 DEF Exchanged
  <2> QED BY ONLY <2>2, <2>4, <2>5, <2>7, <2>9 DEF y, z, r, s, t, u
<1>2. Added(p, f, q) \in [Field -> Field] /\ b \in Field
  <2>1. ASSUME NEW x \in Field PROVE Plus[p[x]][Times[f][q[x]]] \in Field
    <3>1. Times[f][q[x]] \in Field /\ p[x] \in Field
      BY TimesFacts
    <3> QED BY <3>1, PlusFacts
  <2>2. Times[f][e] \in Field
    BY TimesFacts
  <2> QED BY <2>1, <2>2, PlusFacts DEF Added
<1> HIDE DEF b
<1>3. \A x \in Field : Added(p, f, q)[x] = Plus[p[x]][Times[f][q[x]]]
  BY DEF Added
<1>4. \A x \in Field : Shifted(b, Added(p, f, q))[x] = Plus[b][Times[x][Added(p, f, q)[x]]]
  BY <1>2, ShiftedTyped
<1>5. Added(Shifted(c, p), f, Shifted(e, q)) =
        [x \in Field |-> Plus[Shifted(c, p)[x]][Times[f][Shifted(e, q)[x]]]]
  BY DEF Added
<1>6. Shifted(b, Added(p, f, q)) = [x \in Field |-> Plus[b][Times[x][Added(p, f, q)[x]]]]
  BY DEF Shifted
<1>7. \A x \in Field :
        Plus[Shifted(c, p)[x]][Times[f][Shifted(e, q)[x]]] = Plus[b][Times[x][Added(p, f, q)[x]]]
  BY <1>1, <1>3
<1>8. Added(Shifted(c, p), f, Shifted(e, q)) = Shifted(b, Added(p, f, q))
  BY ONLY <1>5, <1>6, <1>7
<1> QED BY <1>8 DEF b

LEMMA AddedToOne ==
  ASSUME NEW c \in Field, NEW p \in [Field -> Field], NEW f \in Field
  PROVE  Added(Shifted(c, p), f, One) = Shifted(Plus[c][f], p)
<1>1. ASSUME NEW x \in Field PROVE Plus[Shifted(c, p)[x]][Times[f][One[x]]] = Plus[Plus[c][f]][Times[x][p[x]]]
  <2> DEFINE r == Times[x][p[x]]
  <2>1. r \in Field
    <3>1. p[x] \in Field
      OBVIOUS
    <3> QED BY <3>1, TimesFacts
  <2>2. Shifted(c, p)[x] = Plus[c][r] /\ Times[f][One[x]] = f
    <3>1. One[x] = 1 /\ Times[f][1] = f
      BY TimesFacts DEF One
    <3> QED BY <3>1, ShiftedTyped
  <2> HIDE DEF r
  <2>3. Associate(c, r, f) /\ Associate(c, f, r) /\ Plus[r][f] = Plus[f][r]
    BY <2>1, PlusAssociates, PlusFacts
  <2>4. Plus[Plus[c][r]][f] = Plus[Plus[c][f]][r]
    BY ONLY <2>3 DEF Associate
  <2> QED BY <2>2, <2>4 DEF r
<1> QED BY <1>1 DEF Added, Shifted

LEMMA MonicAdds ==
  ASSUME NEW M, NEW n \in Nat, Monics(M, n), NEW f \in Field
  PROVE  \A l \in 0 .. n : \A k \in 0 .. n : l < k => \A p \in M[k], q \in M[l] : Added(p, f, q) \in M[k]
<1> DEFINE Adds1(l) == \A k \in 0 .. n : l < k => \A p \in M[k], q \in M[l] : Added(p, f, q) \in M[k]
           P == {l \in 0 .. n : Adds1(l)}
<1>0. \A d \in 0 .. n : M[d] \subseteq [Field -> Field]
  BY MonicsTyped
<1>1. 0 \in P
  <2>1. ASSUME NEW k \in 0 .. n, 0 < k, NEW p \in M[k] PROVE Added(p, f, One) \in M[k]
    <3>1. k - 1 \in Nat /\ k - 1 < n /\ (k - 1) + 1 = k /\ k - 1 \in 0 .. n
      BY <2>1
    <3>2. PICK c \in Field, q \in M[k - 1] : p = Shifted(c, q)
      <4>1. \A t \in M[(k - 1) + 1] : \E c \in Field, q \in M[k - 1] : t = Shifted(c, q)
        BY <3>1, MonicParts
      <4> QED BY <3>1, <4>1
    <3>3. Plus[c][f] \in Field /\ q \in [Field -> Field]
      BY <1>0, <3>1, PlusFacts
    <3> QED BY <3>1, <3>2, <3>3, AddedToOne, MonicParts
  <2>2. M[0] = {One}
    BY DEF Monics
  <2> QED BY <2>1, <2>2
<1>2. ASSUME NEW l \in P, l < n PROVE l + 1 \in P
  <2>1. l \in Nat /\ l + 1 \in 0 .. n /\ Adds1(l)
    BY <1>2
  <2>2. ASSUME NEW k \in 0 .. n, l + 1 < k, NEW p \in M[k], NEW q \in M[l + 1] PROVE Added(p, f, q) \in M[k]
    <3>1. k - 1 \in Nat /\ k - 1 < n /\ (k - 1) + 1 = k /\ k - 1 \in 0 .. n /\ l < k - 1
      BY <2>1, <2>2
    <3>2. PICK c \in Field, g \in M[k - 1] : p = Shifted(c, g)
      <4>1. \A t \in M[(k - 1) + 1] : \E c \in Field, g \in M[k - 1] : t = Shifted(c, g)
        BY <3>1, MonicParts
      <4> QED BY <3>1, <4>1
    <3>3. PICK e \in Field, h \in M[l] : q = Shifted(e, h)
      BY <2>1, <1>2, MonicParts
    <3>4. g \in [Field -> Field] /\ h \in [Field -> Field]
      BY <1>0, <3>1
    <3>5. Added(g, f, h) \in M[k - 1]
      BY <2>1, <3>1
    <3>6. Plus[c][Times[f][e]] \in Field
      <4>1. Times[f][e] \in Field
        BY TimesFacts
      <4> QED BY <4>1, PlusFacts
    <3>7. Added(p, f, q) = Shifted(Plus[c][Times[f][e]], Added(g, f, h))
      BY <3>2, <3>3, <3>4, AddedToShifted
    <3> QED BY <3>1, <3>5, <3>6, <3>7, MonicParts
  <2> QED BY <2>1, <2>2
<1>3. P = 0 .. n
  <2> HIDE DEF P
  <2>1. P \in SUBSET (0 .. n)
    BY DEF P
  <2> QED BY <1>1, <1>2, <2>1, InductionUpTo
<1>4. \A l \in 0 .. n : l \in P
  BY <1>3
<1> QED BY <1>4

(* A root of one is taken out of it.                                       *)
Cancels(c, u, v, w) == Plus[Plus[c][u]][Plus[Plus[v][u]][w]] = Plus[c][Plus[v][w]]

LEMMA Cancel ==
  ASSUME NEW c \in Field, NEW u \in Field, NEW v \in Field, NEW w \in Field
  PROVE  Cancels(c, u, v, w)
<1> DEFINE t == Plus[v][w]
<1>1. t \in Field
  BY PlusFacts
<1>2. Plus[Plus[v][u]][w] = Plus[u][t]
  <2>1. Associate(u, v, w) /\ Plus[v][u] = Plus[u][v]
    BY PlusAssociates, PlusFacts
  <2> QED BY <2>1 DEF Associate
<1> HIDE DEF t
<1>3. Plus[Plus[c][u]][Plus[u][t]] = Plus[c][t]
  <2>1. Plus[u][t] \in Field
    BY <1>1, PlusFacts
  <2>2. Associate(c, u, Plus[u][t]) /\ Associate(u, u, t)
    BY <1>1, <2>1, PlusAssociates
  <2>3. Plus[u][u] = 0 /\ Plus[0][t] = t
    BY <1>1, PlusFacts
  <2> QED BY ONLY <2>2, <2>3 DEF Associate
<1> QED BY ONLY <1>2, <1>3 DEF Cancels, t

TakenOut(p, b, q) == \A x \in Field : p[x] = Plus[p[b]][Times[Plus[x][b]][q[x]]]

LEMMA RootOfNext ==
  ASSUME NEW c \in Field, NEW p \in [Field -> Field], NEW b \in Field, NEW q \in [Field -> Field],
         TakenOut(p, b, q)
  PROVE  TakenOut(Shifted(c, p), b, Shifted(p[b], q))
<1> DEFINE y == p[b]
<1>1. y \in Field
  OBVIOUS
<1>2. \A x \in Field : /\ Shifted(c, p)[x] = Plus[c][Times[x][p[x]]]
                       /\ Shifted(y, q)[x] = Plus[y][Times[x][q[x]]]
  BY <1>1, ShiftedTyped
<1>3. Shifted(c, p)[b] = Plus[c][Times[b][y]]
  BY <1>2
<1>4. \A x \in Field : p[x] = Plus[y][Times[Plus[x][b]][q[x]]]
  BY DEF TakenOut
<1> HIDE DEF y
<1>5. ASSUME NEW x \in Field
      PROVE  Plus[c][Times[x][p[x]]] = Plus[Plus[c][Times[b][y]]][Times[Plus[x][b]][Plus[y][Times[x][q[x]]]]]
  <2> DEFINE a == Plus[x][b]
             z == q[x]
             az == Times[a][z]
             xz == Times[x][z]
             v == Times[x][y]
             u == Times[b][y]
             w == Times[a][xz]
  <2>1. a \in Field /\ z \in Field
    BY PlusFacts
  <2>2. Times[a][y] = Plus[v][u]
    BY <1>1, TimesFacts
  <2>3. p[x] = Plus[y][az]
    BY <1>4
  <2> HIDE DEF a, z
  <2>4. az \in Field /\ xz \in Field /\ v \in Field /\ u \in Field
    BY <1>1, <2>1, TimesFacts
  <2>5. Times[x][az] = w
    <3>1. Times[x][az] = Times[Times[x][a]][z] /\ Times[a][xz] = Times[Times[a][x]][z] /\ Times[x][a] = Times[a][x]
      BY <2>1, TimesFacts
    <3> QED BY <3>1
  <2> HIDE DEF az, xz
  <2>6. w \in Field
    BY <2>1, <2>4, TimesFacts
  <2>7. Times[x][Plus[y][az]] = Plus[v][Times[x][az]]
    BY <1>1, <2>4, PlusFacts
  <2>8. Times[a][Plus[y][xz]] = Plus[Times[a][y]][w]
    BY <1>1, <2>1, <2>4, PlusFacts
  <2> HIDE DEF v, u, w
  <2>9. Cancels(c, u, v, w)
    BY <2>4, <2>6, Cancel
  <2>10. Plus[c][Times[x][p[x]]] = Plus[c][Plus[v][w]]
    BY ONLY <2>3, <2>5, <2>7
  <2>11. Plus[c][Plus[v][w]] = Plus[Plus[c][u]][Times[a][Plus[y][xz]]]
    BY ONLY <2>2, <2>8, <2>9 DEF Cancels
  <2> QED BY ONLY <2>10, <2>11 DEF a, z, xz, u
<1>6. \A x \in Field : Shifted(c, p)[x] = Plus[Shifted(c, p)[b]][Times[Plus[x][b]][Shifted(y, q)[x]]]
  <2> TAKE x \in Field
  <2>1. Shifted(c, p)[x] = Plus[c][Times[x][p[x]]] /\ Shifted(y, q)[x] = Plus[y][Times[x][q[x]]]
    BY <1>2
  <2>2. Plus[c][Times[x][p[x]]] = Plus[Plus[c][Times[b][y]]][Times[Plus[x][b]][Plus[y][Times[x][q[x]]]]]
    BY <1>5
  <2> QED BY ONLY <1>3, <2>1, <2>2
<1> QED BY <1>6 DEF TakenOut, y

LEMMA MonicRoot ==
  ASSUME NEW M, NEW n \in Nat, Monics(M, n), NEW b \in Field
  PROVE  \A d \in 0 .. n : d < n => \A p \in M[d + 1] : \E q \in M[d] : TakenOut(p, b, q)
<1> DEFINE Root(d) == d < n => \A p \in M[d + 1] : \E q \in M[d] : TakenOut(p, b, q)
           P == {d \in 0 .. n : Root(d)}
<1>0. \A d \in 0 .. n : M[d] \subseteq [Field -> Field]
  BY MonicsTyped
<1>1. 0 \in P
  <2>1. ASSUME 0 < n, NEW p \in M[0 + 1] PROVE TakenOut(p, b, One)
    <3>1. M[0] = {One}
      BY DEF Monics
    <3>2. \A t \in M[0 + 1] : \E c \in Field, q \in M[0] : t = Shifted(c, q)
      <4>1. 0 \in Nat
        OBVIOUS
      <4> QED BY <2>1, <4>1, MonicParts
    <3>3. PICK c \in Field : p = Shifted(c, One)
      BY <3>1, <3>2
    <3>4. One \in [Field -> Field] /\ \A x \in Field : One[x] = 1
      BY LogFacts DEF One
    <3>5. \A x \in Field : p[x] = Plus[c][x]
      <4> TAKE x \in Field
      <4>1. p[x] = Plus[c][Times[x][One[x]]]
        BY <3>3, <3>4, ShiftedTyped
      <4>2. Times[x][1] = x
        BY TimesFacts
      <4> QED BY <3>4, <4>1, <4>2
    <3>6. ASSUME NEW x \in Field PROVE p[x] = Plus[p[b]][Times[Plus[x][b]][One[x]]]
      <4> DEFINE a == Plus[x][b]
      <4>1. a \in Field /\ 0 \in Field
        BY LogFacts, PlusFacts
      <4>2. Cancels(c, b, x, 0)
        BY <4>1, Cancel
      <4>3. Plus[x][0] = x
        BY PlusFacts
      <4>4. Plus[a][0] = a /\ Times[a][1] = a
        <5> HIDE DEF a
        <5> QED BY <4>1, PlusFacts, TimesFacts
      <4>5. Plus[c][x] = Plus[Plus[c][b]][a]
        BY ONLY <4>2, <4>3, <4>4 DEF Cancels
      <4>6. p[x] = Plus[c][x] /\ p[b] = Plus[c][b] /\ One[x] = 1
        BY <3>4, <3>5
      <4> QED BY ONLY <4>4, <4>5, <4>6
    <3> QED BY <3>6 DEF TakenOut
  <2>2. M[0] = {One}
    BY DEF Monics
  <2> QED BY <2>1, <2>2
<1>2. ASSUME NEW d \in P, d < n PROVE d + 1 \in P
  <2>1. d \in Nat /\ d + 1 \in 0 .. n /\ \A p \in M[d + 1] : \E q \in M[d] : TakenOut(p, b, q)
    BY <1>2
  <2>2. ASSUME d + 1 < n, NEW p \in M[(d + 1) + 1] PROVE \E q \in M[d + 1] : TakenOut(p, b, q)
    <3>0. d + 1 \in Nat
      BY <2>1
    <3>1. PICK c \in Field, g \in M[d + 1] : p = Shifted(c, g)
      <4>1. \A t \in M[(d + 1) + 1] : \E c \in Field, g \in M[d + 1] : t = Shifted(c, g)
        BY <2>2, <3>0, MonicParts
      <4> QED BY <4>1
    <3>2. PICK q \in M[d] : TakenOut(g, b, q)
      BY <2>1
    <3>3. g \in [Field -> Field] /\ q \in [Field -> Field]
      BY <1>0, <2>1
    <3>4. g[b] \in Field
      BY <3>3
    <3>5. Shifted(g[b], q) \in M[d + 1]
      BY <1>2, <2>1, <3>4, MonicParts
    <3> QED BY <3>1, <3>2, <3>3, <3>5, RootOfNext
  <2> QED BY <2>1, <2>2
<1>3. P = 0 .. n
  <2> HIDE DEF P
  <2>1. P \in SUBSET (0 .. n)
    BY DEF P
  <2> QED BY <1>1, <1>2, <2>1, InductionUpTo
<1>4. \A d \in 0 .. n : d \in P
  BY <1>3
<1> QED BY <1>4

(* It is not zero at more places than its degree.                          *)
OneToOne(b, k) == \A i, j \in 1 .. k : b[i] = b[j] => i = j

LEMMA SumIsZero ==
  ASSUME NEW u \in Field, NEW v \in Field, Plus[u][v] = 0
  PROVE  u = v
<1>1. Associate(u, u, v) /\ Plus[u][0] = u /\ Plus[u][u] = 0 /\ Plus[0][v] = v
  BY PlusAssociates, PlusFacts
<1> QED BY ONLY <1>1, Plus[u][v] = 0 DEF Associate

LEMMA FewRoots ==
  ASSUME NEW M, NEW n \in Nat, Monics(M, n), NEW b \in [1 .. n -> Field], OneToOne(b, n)
  PROVE  \A d \in 0 .. n : d < n => \A p \in M[d] : \E j \in 1 .. d + 1 : p[b[j]] # 0
<1> DEFINE Few(d) == d < n => \A p \in M[d] : \E j \in 1 .. d + 1 : p[b[j]] # 0
           P == {d \in 0 .. n : Few(d)}
<1>0. \A d \in 0 .. n : M[d] \subseteq [Field -> Field]
  BY MonicsTyped
<1>1. 0 \in P
  <2>1. M[0] = {One}
    BY DEF Monics
  <2>2. ASSUME 0 < n PROVE One[b[1]] # 0
    BY <2>2 DEF One
  <2>3. 1 \in 1 .. 0 + 1
    OBVIOUS
  <2> QED BY <2>1, <2>2, <2>3
<1>2. ASSUME NEW d \in P, d < n PROVE d + 1 \in P
  <2>1. d \in Nat /\ d \in 0 .. n /\ d + 1 \in 0 .. n /\ \A p \in M[d] : \E j \in 1 .. d + 1 : p[b[j]] # 0
    BY <1>2
  <2>2. ASSUME d + 1 < n, NEW p \in M[d + 1], \A j \in 1 .. (d + 1) + 1 : p[b[j]] = 0 PROVE FALSE
    <3> DEFINE l == d + 2
               z == b[l]
    <3>1. l \in 1 .. n /\ l \in 1 .. (d + 1) + 1 /\ \A j \in 1 .. d + 1 : j \in 1 .. (d + 1) + 1 /\ j \in 1 .. n /\ j # l
      BY <2>1, <2>2
    <3>2. z \in Field
      BY <3>1
    <3>3. PICK q \in M[d] : TakenOut(p, z, q)
      BY <1>2, <2>1, <3>2, MonicRoot
    <3>4. PICK j \in 1 .. d + 1 : q[b[j]] # 0
      BY <2>1
    <3> DEFINE x == b[j]
    <3>5. x \in Field /\ x # z
      BY <3>1 DEF OneToOne
    <3>6. p[x] = 0 /\ p[z] = 0
      BY <2>2, <3>1
    <3>7. q[x] \in Field /\ q[x] # 0
      BY <1>0, <2>1, <3>4, <3>5
    <3> HIDE DEF x, z
    <3>8. p[x] = Plus[p[z]][Times[Plus[x][z]][q[x]]]
      BY <3>3, <3>5 DEF TakenOut
    <3> DEFINE a == Plus[x][z]
               y == q[x]
    <3>9. a \in Field /\ a # 0
      BY <3>2, <3>5, PlusFacts, SumIsZero
    <3> HIDE DEF a, y
    <3>10. y \in Field /\ y # 0
      BY <3>7 DEF y
    <3>11. Times[a][y] \in Field /\ Times[a][y] # 0
      BY <3>9, <3>10, ProductFacts
    <3>12. Plus[0][Times[a][y]] = Times[a][y]
      BY <3>11, PlusFacts
    <3> QED BY <3>6, <3>8, <3>11, <3>12 DEF a, y
  <2>3. ASSUME d + 1 < n, NEW p \in M[d + 1] PROVE \E j \in 1 .. (d + 1) + 1 : p[b[j]] # 0
    BY <2>2, <2>3
  <2> QED BY <2>1, <2>3
<1>3. P = 0 .. n
  <2> HIDE DEF P
  <2>1. P \in SUBSET (0 .. n)
    BY DEF P
  <2> QED BY <1>1, <1>2, <2>1, InductionUpTo
<1>4. \A d \in 0 .. n : d \in P
  BY <1>3
<1> QED BY <1>4

(* The powers of an element, from exponent e on, are one power of it times *)
(* the values of such polynomials.                                         *)
PowersBy(p, e, d) == \A v \in Field : v # 0 => Pow(v, e + d) = Times[Pow(v, e)][p[v]]

LEMMA PowersAreMonic ==
  ASSUME NEW M, NEW n \in Nat, Monics(M, n), NEW e \in Nat, e + n <= Limit
  PROVE  \A d \in 0 .. n : \E p \in M[d] : PowersBy(p, e, d)
<1> DEFINE Is(d, p) == PowersBy(p, e, d)
           P == {d \in 0 .. n : \E p \in M[d] : Is(d, p)}
<1>0. \A d \in 0 .. n : M[d] \subseteq [Field -> Field]
  BY MonicsTyped
<1>00. Limit \in Nat
  BY LogFacts
<1>1. 0 \in P
  <2>1. M[0] = {One}
    BY DEF Monics
  <2>2. ASSUME NEW v \in Field, v # 0 PROVE Pow(v, e + 0) = Times[Pow(v, e)][One[v]]
    <3>1. e + 0 = e /\ e \in 0 .. Limit
      BY <1>00
    <3>2. Pow(v, e) \in Field
      BY <2>2, <3>1, PowLog
    <3>3. One[v] = 1 /\ Times[Pow(v, e)][1] = Pow(v, e)
      BY <3>2, TimesFacts DEF One
    <3> QED BY <3>1, <3>3
  <2>3. Is(0, One)
    BY <2>2 DEF PowersBy
  <2> HIDE DEF Is
  <2> QED BY <2>1, <2>3
<1>2. ASSUME NEW d \in P, d < n PROVE d + 1 \in P
  <2>1. d \in Nat /\ d \in 0 .. n /\ d + 1 \in 0 .. n
    BY <1>2
  <2>2. PICK q \in M[d] : Is(d, q)
    BY <2>1
  <2>3. q \in [Field -> Field] /\ 0 \in Field
    BY <1>0, <2>1, LogFacts
  <2>4. ASSUME NEW v \in Field, v # 0 PROVE Pow(v, e + (d + 1)) = Times[Pow(v, e)][Shifted(0, q)[v]]
    <3> DEFINE f == e + d
               w == Pow(v, e)
               y == q[v]
    <3>1. f \in 0 .. Limit - 1 /\ e \in 0 .. Limit /\ e + (d + 1) = f + 1
      BY <1>00, <2>1, <1>2
    <3>2. Pow(v, f) = Times[w][y]
      BY <2>2, <2>4 DEF PowersBy
    <3>3. Pow(v, f + 1) = Times[v][Pow(v, f)]
      BY <2>4, <3>1, PowNext
    <3>4. w \in Field
      BY <2>4, <3>1, PowLog
    <3>5. y \in Field
      BY <2>3
    <3>6. Shifted(0, q)[v] = Plus[0][Times[v][y]]
      BY <2>3, ShiftedTyped
    <3> HIDE DEF f, w, y
    <3>7. Times[v][y] \in Field
      BY <3>5, TimesFacts
    <3>8. Plus[0][Times[v][y]] = Times[v][y]
      BY <3>7, PlusFacts
    <3>9. Times[v][Times[w][y]] = Times[w][Times[v][y]]
      <4>1. Times[v][Times[w][y]] = Times[Times[v][w]][y] /\ Times[w][Times[v][y]] = Times[Times[w][v]][y]
        BY <3>4, <3>5, TimesFacts
      <4>2. Times[v][w] = Times[w][v]
        BY <3>4, TimesFacts
      <4> QED BY <4>1, <4>2
    <3> QED BY <3>1, <3>2, <3>3, <3>6, <3>8, <3>9 DEF w, y
  <2>5. Shifted(0, q) \in M[d + 1]
    BY <1>2, <2>1, <2>3, MonicParts
  <2>6. Is(d + 1, Shifted(0, q))
    BY <2>4 DEF PowersBy
  <2> HIDE DEF Is
  <2> QED BY <2>1, <2>5, <2>6
<1>3. P = 0 .. n
  <2> HIDE DEF P
  <2>1. P \in SUBSET (0 .. n)
    BY DEF P
  <2> QED BY <1>1, <1>2, <2>1, InductionUpTo
<1>4. \A d \in 0 .. n : d \in P
  BY <1>3
<1> QED BY <1>4

(* The rows that are not solved yet have, at the blocks b, the values of   *)
(* such polynomials, with a weight for each block.                         *)
RowIs(m, i, p, w, b, N, k) == \A j \in 1 .. k : m[<<i, N + j>>] = Times[w[j]][p[b[j]]]
RowsAre(m, M, t, w, b, N, k) == \A i \in 1 .. k : i > t => \E p \in M[i - 1] : RowIs(m, i, p, w, b, N, k)
AreWeights(w, k) == \A j \in 1 .. k : w[j] \in Field /\ w[j] # 0

LEMMA ClearedRows ==
  ASSUME NEW N \in Nat, NEW k \in Nat, NEW row \in 1 .. k, NEW inverse \in Field,
         NEW m, IsMatrix(m, k, N), NEW new, Cleared(m, new, row, inverse, N, k),
         NEW M, Monics(M, k), NEW b \in [1 .. k -> Field], NEW w, AreWeights(w, k),
         RowsAre(m, M, row - 1, w, b, N, k)
  PROVE  RowsAre(new, M, row, w, b, N, k)
<1>0. \A d \in 0 .. k : M[d] \subseteq [Field -> Field]
  BY MonicsTyped
<1>1. PICK q \in M[row - 1] : RowIs(m, row, q, w, b, N, k)
  BY DEF RowsAre
<1>2. ASSUME NEW i \in 1 .. k, i > row PROVE \E p \in M[i - 1] : RowIs(new, i, p, w, b, N, k)
  <2>1. i > row - 1 /\ i # row /\ i - 1 \in 0 .. k /\ row - 1 \in 0 .. k /\ row - 1 < i - 1
    BY <1>2
  <2>2. PICK p \in M[i - 1] : RowIs(m, i, p, w, b, N, k)
    BY <2>1 DEF RowsAre
  <2> DEFINE g == m[<<i, N + row>>]
             f == Times[g][inverse]
  <2>3. g \in Field
    BY DEF IsMatrix
  <2> HIDE DEF g
  <2>4. f \in Field
    BY <2>3, TimesFacts
  <2>5. p \in [Field -> Field] /\ q \in [Field -> Field]
    BY <1>0, <2>1
  <2>6. Added(p, f, q) \in M[i - 1]
    <3> HIDE DEF f
    <3> QED BY <2>1, <2>4, MonicAdds
  <2>7. ASSUME NEW j \in 1 .. k PROVE new[<<i, N + j>>] = Times[w[j]][Added(p, f, q)[b[j]]]
    <3> DEFINE c == N + j
               x == b[j]
               y == p[x]
               z == q[x]
               u == w[j]
    <3>1. c \in 1 .. N + k /\ x \in Field /\ y \in Field /\ z \in Field /\ u \in Field
      BY <2>5 DEF AreWeights
    <3>2. m[<<i, c>>] = Times[u][y] /\ m[<<row, c>>] = Times[u][z]
      BY <1>1, <2>2 DEF RowIs
    <3>3. Added(p, f, q)[x] = Plus[y][Times[f][z]]
      BY <3>1 DEF Added
    <3> HIDE DEF c
    <3>4. new[<<row, c>>] = Times[inverse][m[<<row, c>>]]
      BY <3>1 DEF Cleared
    <3>5. new[<<i, c>>] = Plus[m[<<i, c>>]][Times[g][new[<<row, c>>]]]
      BY <2>1, <3>1 DEF Cleared, g
    <3> HIDE DEF x, y, z, u
    <3>6. Times[g][Times[inverse][Times[u][z]]] = Times[u][Times[f][z]]
      <4> DEFINE uz == Times[u][z]
      <4>1. uz \in Field
        BY <3>1, TimesFacts
      <4>2. Times[g][Times[inverse][uz]] = Times[f][uz]
        <5> HIDE DEF uz
        <5> QED BY <2>3, <4>1, TimesFacts
      <4> HIDE DEF f
      <4>3. Times[f][uz] = Times[Times[f][u]][z] /\ Times[u][Times[f][z]] = Times[Times[u][f]][z]
        BY <2>4, <3>1, TimesFacts
      <4>4. Times[f][u] = Times[u][f]
        BY <2>4, <3>1, TimesFacts
      <4> QED BY <4>2, <4>3, <4>4
    <3> HIDE DEF f
    <3>7. Times[u][Plus[y][Times[f][z]]] = Plus[Times[u][y]][Times[u][Times[f][z]]]
      <4> DEFINE fz == Times[f][z]
      <4>1. fz \in Field
        BY <2>4, <3>1, TimesFacts
      <4> HIDE DEF fz
      <4>2. Times[u][Plus[y][fz]] = Plus[Times[u][y]][Times[u][fz]]
        BY <3>1, <4>1, PlusFacts
      <4> QED BY <4>2 DEF fz
    <3> QED BY ONLY <3>2, <3>3, <3>4, <3>5, <3>6, <3>7 DEF c, x, u
  <2>8. RowIs(new, i, Added(p, f, q), w, b, N, k)
    BY <2>7 DEF RowIs
  <2> QED BY <2>6, <2>8
<1> QED BY <1>2 DEF RowsAre

(* Its pivot is not zero, as the row is zero at all the blocks before.     *)
LEMMA PivotIsNotZero ==
  ASSUME NEW N \in Nat, NEW k \in Nat, NEW row \in 1 .. k, NEW m, UnitUpTo(m, row - 1, N, k),
         NEW M, Monics(M, k), NEW b \in [1 .. k -> Field], OneToOne(b, k), NEW w, AreWeights(w, k),
         RowsAre(m, M, row - 1, w, b, N, k)
  PROVE  m[<<row, N + row>>] # 0
<1>1. SUFFICES ASSUME m[<<row, N + row>>] = 0 PROVE FALSE
  OBVIOUS
<1>2. row - 1 \in 0 .. k /\ row - 1 < k /\ (row - 1) + 1 = row
  OBVIOUS
<1>3. PICK p \in M[row - 1] : RowIs(m, row, p, w, b, N, k)
  BY DEF RowsAre
<1>4. p \in [Field -> Field]
  BY <1>2, MonicsTyped
<1>5. PICK j \in 1 .. (row - 1) + 1 : p[b[j]] # 0
  BY <1>2, FewRoots
<1>6. j \in 1 .. k /\ j \in 1 .. row
  OBVIOUS
<1>7. m[<<row, N + j>>] = 0
  <2>1. CASE j = row
    BY <1>1, <2>1
  <2>2. CASE j # row
    <3>1. j \in 1 .. row - 1
      BY <1>6, <2>2
    <3> QED BY <2>2, <3>1 DEF UnitUpTo
  <2> QED BY <2>1, <2>2
<1>8. m[<<row, N + j>>] = Times[w[j]][p[b[j]]]
  BY <1>3, <1>6 DEF RowIs
<1> DEFINE u == w[j]
           y == p[b[j]]
<1>9. u \in Field /\ u # 0 /\ y \in Field /\ y # 0
  BY <1>4, <1>5, <1>6 DEF AreWeights
<1> HIDE DEF u, y
<1>10. Times[u][y] # 0
  BY <1>9, ProductFacts
<1> QED BY <1>7, <1>8, <1>10 DEF u, y

LEMMA EliminateGoesOn ==
  ASSUME NEW N \in Nat, NEW k \in Nat, NEW row \in 1 .. k, NEW m, IsMatrix(m, k, N), m[<<row, N + row>>] # 0
  PROVE  Eliminate(m, row, N) # Unsolvable
<1> DEFINE pivot == m[<<row, N + row>>]
           F(at) == IF at[1] = row THEN Divide(m[<<row, at[2]>>], pivot)
                    ELSE Plus[m[at]][Times[Divide(m[<<row, at[2]>>], pivot)][m[<<at[1], N + row>>]]]
           new == [at \in DOMAIN m |-> F(at)]
<1>1. Eliminate(m, row, N) = new
  BY DEF Eliminate
<1> HIDE DEF F
<1>2. <<row, N + row>> \in DOMAIN new
  BY DEF IsMatrix
<1>3. DOMAIN Unsolvable = {}
  BY DEF Unsolvable
<1> QED BY <1>1, <1>2, <1>3

LEMMA GaussElimEnds ==
  ASSUME NEW N \in Nat, NEW k \in Nat \ {0}, NEW m, IsMatrix(m, k, N),
         NEW M, Monics(M, k), NEW b \in [1 .. k -> Field], OneToOne(b, k), NEW w, AreWeights(w, k),
         RowsAre(m, M, 0, w, b, N, k)
  PROVE  GaussElim(m, N, k) # Unsolvable
<1>1. PICK g : Solving(g, m, N, k) /\ GaussElim(m, N, k) = g[k]
  BY GaussElimSolves
<1> DEFINE Good(t, r) == /\ t # Unsolvable /\ IsMatrix(t, k, N)
                         /\ UnitUpTo(t, r, N, k) /\ RowsAre(t, M, r, w, b, N, k)
           P == {r \in 0 .. k : Good(g[r], r)}
<1>2. 0 \in P
  <2>1. UnitUpTo(m, 0, N, k)
    BY DEF UnitUpTo
  <2>2. g[0] = m /\ 0 \in 0 .. k
    BY <1>1 DEF Solving
  <2>3. m # Unsolvable
    <3>1. <<1, 1>> \in DOMAIN m
      BY DEF IsMatrix
    <3>2. DOMAIN Unsolvable = {}
      BY DEF Unsolvable
    <3> QED BY <3>1, <3>2
  <2> QED BY <2>1, <2>2, <2>3
<1>3. ASSUME NEW r \in P, r < k PROVE r + 1 \in P
  <2> DEFINE old == g[r]
             new == g[r + 1]
             row == r + 1
  <2>1. r \in Nat /\ row \in 1 .. k /\ row - 1 = r /\ row \in 0 .. k
    BY <1>3
  <2>2. new = IF old = Unsolvable THEN old ELSE Eliminate(old, row, N)
    BY <1>1, <2>1 DEF Solving
  <2>3. /\ old # Unsolvable /\ IsMatrix(old, k, N)
        /\ UnitUpTo(old, row - 1, N, k) /\ RowsAre(old, M, row - 1, w, b, N, k)
    BY <2>1
  <2>4. row \in 1 .. k /\ row \in 0 .. k
    BY <2>1
  <2> HIDE DEF old, new, row, Good, P
  <2>5. old[<<row, N + row>>] # 0
    BY <2>3, <2>4, PivotIsNotZero
  <2>6. new = Eliminate(old, row, N) /\ new # Unsolvable
    BY <2>2, <2>3, <2>4, <2>5, EliminateGoesOn
  <2>7. IsMatrix(new, k, N) /\ \E inverse \in Field : Cleared(old, new, row, inverse, N, k)
    BY <2>3, <2>4, <2>6, EliminateFacts
  <2>8. PICK inverse \in Field : Cleared(old, new, row, inverse, N, k)
    BY <2>7
  <2>9. UnitUpTo(new, row, N, k)
    BY <2>3, <2>4, <2>7, <2>8, ClearedUnit
  <2>10. RowsAre(new, M, row, w, b, N, k)
    BY <2>3, <2>4, <2>7, <2>8, ClearedRows
  <2>11. Good(new, row)
    BY <2>6, <2>7, <2>9, <2>10 DEF Good
  <2> QED BY <2>4, <2>11 DEF P, new, row
<1>4. k \in P
  <2>1. P = 0 .. k
    <3> HIDE DEF P
    <3>1. P \in SUBSET (0 .. k)
      BY DEF P
    <3> QED BY <1>2, <1>3, <3>1, InductionUpTo
  <2> HIDE DEF P
  <2> QED BY <2>1
<1> QED BY <1>1, <1>4

(* The numbers of a set come in their order.                               *)
LEMMA IndicesDistinct ==
  ASSUME NEW s, NEW n \in Nat
  PROVE  OneToOne(Indices(n, s), Len(Indices(n, s)))
<1>1. PICK g : Enumerates(g, s, n) /\ Indices(n, s) = g[n]
  BY IndicesEnumerate
<1>2. \A k \in 0 .. n : g[k] \in Seq(s \intersect (1 .. k))
  BY <1>1, EnumerationFacts
<1> DEFINE P == {k \in 0 .. n : OneToOne(g[k], Len(g[k]))}
<1>3. 0 \in P
  <2>1. g[0] = <<>>
    BY <1>1 DEF Enumerates
  <2>2. OneToOne(<<>>, Len(<<>>))
    BY DEF OneToOne
  <2> QED BY <2>1, <2>2
<1>4. ASSUME NEW k \in P, k < n PROVE k + 1 \in P
  <2>1. k \in Nat /\ k + 1 \in 1 .. n /\ (k + 1) - 1 = k /\ k + 1 \in 0 .. n /\ k \in 0 .. n
    BY <1>4
  <2>2. g[k + 1] = IF k + 1 \in s THEN Append(g[k], k + 1) ELSE g[k]
    BY <1>1, <2>1 DEF Enumerates
  <2>3. OneToOne(g[k], Len(g[k]))
    OBVIOUS
  <2>4. CASE k + 1 \in s
    <3> DEFINE old == g[k]
               new == Append(old, k + 1)
               D == s \intersect (1 .. k)
    <3>1. old \in Seq(D) /\ \A x \in D : x # k + 1 /\ x \in Nat
      BY <1>2, <2>1
    <3> HIDE DEF old, D
    <3>2. /\ Len(old) \in Nat /\ Len(new) = Len(old) + 1 /\ new[Len(old) + 1] = k + 1
          /\ \A i \in 1 .. Len(old) : new[i] = old[i] /\ old[i] \in D
      BY <3>1
    <3> HIDE DEF new
    <3>3. ASSUME NEW i \in 1 .. Len(new), NEW j \in 1 .. Len(new), new[i] = new[j] PROVE i = j
      <4>1. CASE i = Len(old) + 1 /\ j = Len(old) + 1
        BY <4>1
      <4>2. CASE i = Len(old) + 1 /\ j # Len(old) + 1
        BY <3>1, <3>2, <3>3, <4>2
      <4>3. CASE i # Len(old) + 1 /\ j = Len(old) + 1
        BY <3>1, <3>2, <3>3, <4>3
      <4>4. CASE i # Len(old) + 1 /\ j # Len(old) + 1
        <5>1. i \in 1 .. Len(old) /\ j \in 1 .. Len(old)
          BY <3>2, <4>4
        <5>2. old[i] = old[j]
          BY <3>2, <3>3, <5>1
        <5> QED BY <2>3, <5>1, <5>2 DEF OneToOne, old
      <4> QED BY <4>1, <4>2, <4>3, <4>4
    <3>4. OneToOne(new, Len(new))
      BY <3>3 DEF OneToOne
    <3> QED BY <2>1, <2>2, <2>4, <3>4 DEF new, old
  <2>5. CASE k + 1 \notin s
    BY <2>1, <2>2, <2>3, <2>5
  <2> QED BY <2>4, <2>5
<1>5. P = 0 .. n
  <2> HIDE DEF P
  <2>1. P \in SUBSET (0 .. n)
    BY DEF P
  <2> QED BY <1>3, <1>4, <2>1, InductionUpTo
<1>6. n \in P
  <2> HIDE DEF P
  <2> QED BY <1>5
<1> QED BY <1>1, <1>6

(* Those of an interval are one after the other.                           *)
LEMMA IndicesOfInterval ==
  ASSUME NEW n \in Nat, NEW a \in 1 .. n, NEW k \in Nat \ {0}, a + k - 1 <= n
  PROVE  \A i \in 1 .. k : Indices(n, a .. a + k - 1)[i] = a + i - 1
<1> DEFINE s == a .. a + k - 1
           Size(m) == IF m < a THEN 0 ELSE IF m <= a + k - 1 THEN m - a + 1 ELSE k
<1>1. PICK g : Enumerates(g, s, n) /\ Indices(n, s) = g[n]
  BY IndicesEnumerate
<1>2. \A m \in 0 .. n : g[m] \in Seq(Nat)
  <2>1. \A m \in 0 .. n : g[m] \in Seq(s \intersect (1 .. m))
    <3> HIDE DEF s
    <3> QED BY <1>1, EnumerationFacts
  <2> TAKE m \in 0 .. n
  <2> DEFINE D == s \intersect (1 .. m)
  <2>2. D \subseteq Nat /\ g[m] \in Seq(D)
    BY <2>1
  <2> HIDE DEF D
  <2> QED BY <2>2, SeqOfMore
<1> DEFINE Right(t, m) == Len(t) = Size(m) /\ \A i \in 1 .. Size(m) : t[i] = a + i - 1
           P == {m \in 0 .. n : Right(g[m], m)}
<1>3. 0 \in P
  <2>1. g[0] = <<>>
    BY <1>1 DEF Enumerates
  <2>2. Size(0) = 0
    OBVIOUS
  <2> HIDE DEF Size
  <2> QED BY <2>1, <2>2
<1>4. ASSUME NEW m \in P, m < n PROVE m + 1 \in P
  <2>1. m \in Nat /\ m + 1 \in 1 .. n /\ (m + 1) - 1 = m /\ m + 1 \in 0 .. n /\ m \in 0 .. n
    BY <1>4
  <2> DEFINE old == g[m]
             new == g[m + 1]
  <2>2. new = IF m + 1 \in s THEN Append(old, m + 1) ELSE old
    BY <1>1, <2>1 DEF Enumerates
  <2>3. Right(old, m) /\ old \in Seq(Nat)
    BY <1>2, <2>1
  <2> HIDE DEF old, new
  <2>4. CASE m + 1 \in s
    <3>1. Size(m + 1) = Size(m) + 1 /\ Size(m) \in Nat /\ a + (Size(m) + 1) - 1 = m + 1
      BY <2>1, <2>4
    <3> HIDE DEF Size
    <3>2. Len(old) = Size(m) /\ \A i \in 1 .. Size(m) : old[i] = a + i - 1
      BY <2>3
    <3>3. new = Append(old, m + 1)
      BY <2>2, <2>4
    <3>4. Len(new) = Size(m) + 1 /\ new[Size(m) + 1] = m + 1 /\ \A i \in 1 .. Size(m) : new[i] = old[i]
      BY <2>1, <2>3, <3>1, <3>2, <3>3
    <3>5. ASSUME NEW i \in 1 .. Size(m + 1) PROVE new[i] = a + i - 1
      <4>1. CASE i = Size(m) + 1
        BY <3>1, <3>4, <4>1
      <4>2. CASE i # Size(m) + 1
        <5>1. i \in 1 .. Size(m)
          BY <3>1, <4>2
        <5> QED BY <3>2, <3>4, <5>1
      <4> QED BY <4>1, <4>2
    <3> QED BY <2>1, <3>1, <3>4, <3>5 DEF new
  <2>5. CASE m + 1 \notin s
    <3>1. Size(m + 1) = Size(m)
      BY <2>1, <2>5
    <3> HIDE DEF Size
    <3> QED BY <2>1, <2>2, <2>3, <2>5, <3>1 DEF new
  <2> QED BY <2>4, <2>5
<1>5. P = 0 .. n
  <2> HIDE DEF P
  <2>1. P \in SUBSET (0 .. n)
    BY DEF P
  <2> QED BY <1>3, <1>4, <2>1, InductionUpTo
<1>6. n \in P
  <2> HIDE DEF P
  <2> QED BY <1>5
<1>7. Size(n) = k
  OBVIOUS
<1> HIDE DEF Size
<1> QED BY <1>1, <1>6, <1>7

(* No two blocks have the same base, and none is zero.                     *)
LEMMA BasesDistinct ==
  /\ Len(Bases) \in Nat /\ OneToOne(Bases, Len(Bases))
  /\ \A i \in 1 .. Len(Bases) : Bases[i] \in Field /\ Bases[i] # 0
<1> DEFINE S == {l \in 1 .. Limit - 1 : Gcd(Limit, l) = 1}
           logs == Indices(Limit - 1, S)
<1>1. Limit - 1 \in Nat
  BY LogFacts
<1> HIDE DEF S
<1>2. logs \in Seq(S \intersect (1 .. Limit - 1)) /\ OneToOne(logs, Len(logs))
  BY <1>1, IndicesFacts, IndicesDistinct
<1>3. Bases = [i \in DOMAIN logs |-> Antilog[logs[i]]]
  BY DEF Bases, S
<1> HIDE DEF logs
<1>4. Len(logs) \in Nat /\ DOMAIN logs = 1 .. Len(logs) /\ \A i \in 1 .. Len(logs) : logs[i] \in 0 .. Limit - 1
  BY <1>1, <1>2
<1>5. Len(Bases) = Len(logs)
  BY <1>3, <1>4
<1>6. \A i \in 1 .. Len(logs) : Bases[i] \in Field /\ Bases[i] # 0 /\ Log[Bases[i]] = logs[i]
  BY <1>3, <1>4, LogFacts
<1>7. ASSUME NEW i \in 1 .. Len(Bases), NEW j \in 1 .. Len(Bases), Bases[i] = Bases[j] PROVE i = j
  <2>1. logs[i] = logs[j]
    BY <1>5, <1>6, <1>7
  <2> QED BY <1>2, <1>5, <2>1 DEF OneToOne
<1> QED BY <1>4, <1>5, <1>6, <1>7 DEF OneToOne

(* Recovery blocks without a gap: the matrix is solved.                    *)
LEMMA SolvedWithoutGaps ==
  ASSUME NEW c \in Nat, NEW k \in Nat \ {0}, NEW N, N = c + k, N <= Len(Bases), NEW missing \in SUBSET (1 .. N),
         k = Cardinality(missing), NEW e \in [1 .. k -> 0 .. Limit], \A i \in 1 .. k : e[i] = e[1] + (i - 1)
  PROVE  Compute(N, missing, Rows(e)) # Unsolvable
<1> DEFINE m == Matrices(N, missing, Rows(e))
           lost == Indices(N, missing)
           b == [j \in 1 .. k |-> Bases[lost[j]]]
           w == [j \in 1 .. k |-> Pow(b[j], e[1])]
<1>1. N \in Nat /\ 1 \in 1 .. k /\ k - 1 \in Nat
  OBVIOUS
<1>2. ToRepair(N, missing, e, c, k)
  BY MatrixOfRepair
<1>3. /\ IsMatrix(m, k, N) /\ Compute(N, missing, Rows(e)) = GaussElim(m, N, k)
      /\ \A i \in 1 .. k : \A j \in 1 .. k : m[<<i, (c + k) + j>>] = Pow(Bases[lost[j]], e[i])
  BY <1>2 DEF ToRepair, RepairRows
<1>4. Len(lost) = k /\ lost \in Seq(1 .. N) /\ OneToOne(lost, k)
  <2>1. lost \in Seq(1 .. N) /\ Len(lost) = k
    BY <1>1, MissingFacts
  <2>2. OneToOne(lost, Len(lost))
    BY <1>1, IndicesDistinct
  <2> HIDE DEF lost
  <2> QED BY <2>1, <2>2
<1> HIDE DEF m, lost
<1>5. \A j \in 1 .. k : lost[j] \in 1 .. N
  <2> DEFINE D == 1 .. N
  <2>1. lost \in Seq(D)
    BY <1>4
  <2> HIDE DEF D
  <2>2. \A j \in 1 .. k : lost[j] \in D
    BY <1>4, <2>1
  <2> QED BY <2>2 DEF D
<1>6. \A j \in 1 .. k : lost[j] \in 1 .. Len(Bases)
  BY <1>1, <1>5, BasesDistinct
<1>7. b \in [1 .. k -> Field] /\ \A j \in 1 .. k : b[j] # 0
  BY <1>6, BasesDistinct
<1>8. OneToOne(b, k)
  <2>1. ASSUME NEW i \in 1 .. k, NEW j \in 1 .. k, b[i] = b[j] PROVE i = j
    <3>1. lost[i] = lost[j]
      BY <1>6, <2>1, BasesDistinct DEF OneToOne
    <3> QED BY <1>4, <3>1 DEF OneToOne
  <2> HIDE DEF b
  <2> QED BY <2>1 DEF OneToOne
<1>9. \A j \in 1 .. k : Bases[lost[j]] = b[j]
  OBVIOUS
<1> HIDE DEF b
<1>10. e[1] \in 0 .. Limit /\ e[k] \in 0 .. Limit /\ e[k] = e[1] + (k - 1) /\ Limit \in Nat
  BY <1>1, LogFacts
<1>11. AreWeights(w, k)
  <2>1. ASSUME NEW j \in 1 .. k PROVE w[j] \in Field /\ w[j] # 0
    <3> DEFINE x == b[j]
               f == e[1]
    <3>1. x \in Field /\ x # 0 /\ f \in 0 .. Limit
      BY <1>7, <1>10
    <3>2. w[j] = Pow(x, f)
      OBVIOUS
    <3> HIDE DEF x, f, w
    <3> QED BY <3>1, <3>2, PowLog
  <2> HIDE DEF w
  <2> QED BY <2>1 DEF AreWeights
<1>12. PICK M : Monics(M, k)
  BY MonicsExist
<1>13. Monics(M, k - 1)
  <2>1. \A d \in 1 .. k - 1 : d \in 1 .. k
    BY <1>1
  <2> QED BY <1>12, <2>1 DEF Monics
<1>14. ASSUME NEW i \in 1 .. k PROVE \E p \in M[i - 1] : RowIs(m, i, p, w, b, N, k)
  <2> DEFINE f == e[1]
             d == i - 1
  <2>1. f \in Nat /\ f + (k - 1) <= Limit /\ d \in 0 .. k - 1 /\ e[i] = f + d
    BY <1>10
  <2> HIDE DEF f, d
  <2>2. PICK p \in M[d] : PowersBy(p, f, d)
    <3> DEFINE n == k - 1
    <3>1. n \in Nat /\ Monics(M, n) /\ f + n <= Limit /\ d \in 0 .. n
      BY <1>1, <1>13, <2>1
    <3> HIDE DEF n
    <3> QED BY <2>1, <3>1, PowersAreMonic
  <2>3. ASSUME NEW j \in 1 .. k PROVE m[<<i, N + j>>] = Times[w[j]][p[b[j]]]
    <3>1. m[<<i, N + j>>] = Pow(b[j], e[i])
      <4>1. m[<<i, (c + k) + j>>] = Pow(Bases[lost[j]], e[i])
        BY <1>3
      <4>2. Bases[lost[j]] = b[j]
        BY <1>9
      <4> QED BY ONLY <4>1, <4>2, N = c + k
    <3>2. w[j] = Pow(b[j], f)
      BY DEF f
    <3>3. Pow(b[j], f + d) = Times[Pow(b[j], f)][p[b[j]]]
      BY <1>7, <2>2 DEF PowersBy
    <3> QED BY <2>1, <3>1, <3>2, <3>3
  <2> HIDE DEF w
  <2>4. RowIs(m, i, p, w, b, N, k)
    BY <2>3 DEF RowIs
  <2> QED BY <2>2, <2>4 DEF d
<1> HIDE DEF w
<1>15. RowsAre(m, M, 0, w, b, N, k)
  BY <1>14 DEF RowsAre
<1>16. GaussElim(m, N, k) # Unsolvable
  BY <1>1, <1>3, <1>7, <1>8, <1>11, <1>12, <1>15, GaussElimEnds
<1> QED BY <1>3, <1>16

LEMMA SolvedOfSet ==
  ASSUME MInv, result = "Success", NEW missing \in SUBSET DOMAIN Described, NEW used \in SUBSET headers,
         missing # {}, Cardinality(missing) = Cardinality(used), WithoutGaps(used)
  PROVE  Solved(missing, used) # Unsolvable
<1> DEFINE N == Len(Described)
           k == Cardinality(missing)
           r == recoveryblockcount
           taken == Indices(r, used)
           e == [i \in 1 .. k |-> ask.firstblock + taken[i] - 1]
<1>1. N \in Nat \ {0} /\ missing \in SUBSET (1 .. N) /\ r \in Nat /\ used \in SUBSET (1 .. r)
  BY WordsAreDescribed DEF MInv
<1>2. k \in Nat \ {0} /\ N - k \in Nat
  <2>1. IsFiniteSet(1 .. N) /\ Cardinality(1 .. N) = N
    <3>1. IsFiniteSet(1 .. N) /\ Cardinality(1 .. N) = IF 1 > N THEN 0 ELSE N - 1 + 1
      BY <1>1, FS_Interval
    <3> QED BY <1>1, <3>1
  <2>2. IsFiniteSet(missing) /\ k <= N
    BY <1>1, <2>1, FS_Subset
  <2>3. k \in Nat /\ (k = 0 <=> missing = {})
    BY <2>2, FS_EmptySet, FS_CardinalityType
  <2> QED BY <1>1, <2>2, <2>3
<1>3. headers # {} /\ k = Cardinality(used)
  <2> SUFFICES ASSUME headers = {} PROVE FALSE
    OBVIOUS
  <2>1. used = {} /\ Cardinality({}) = 0
    BY FS_EmptySet
  <2> QED BY <1>2, <2>1
<1>4. N <= Len(Bases) /\ \A i \in 1 .. r : ask.firstblock + i - 1 \in 0 .. Limit
  BY <1>3, ExponentsOfSet
<1>5. ask.firstblock \in Nat
  <2>1. Shape
    BY DEF MInv, HInv, IInv
  <2> QED BY <2>1, CreatorAssumption, CommandLineAssumption DEF Shape
<1>6. PICK a \in used : used = a .. a + k - 1
  BY <1>3 DEF WithoutGaps
<1> HIDE DEF k, N, r
<1>7. a \in 1 .. r /\ a + k - 1 <= r /\ \A i \in 1 .. k : a + i - 1 \in 1 .. r
  <2>1. a \in 1 .. r
    BY <1>1
  <2>2. a + k - 1 \in used
    BY <1>2, <1>6, <2>1
  <2>3. a + k - 1 \in 1 .. r
    BY <1>1, <2>2
  <2> QED BY <1>1, <1>2, <2>1, <2>3
<1>8. \A i \in 1 .. k : taken[i] = a + i - 1
  BY <1>1, <1>2, <1>6, <1>7, IndicesOfInterval
<1> HIDE DEF taken
<1>9. e \in [1 .. k -> 0 .. Limit]
  <2>1. \A i \in 1 .. k : ask.firstblock + (a + i - 1) - 1 \in 0 .. Limit
    BY <1>4, <1>7
  <2> QED BY <1>8, <2>1
<1>10. \A i \in 1 .. k : e[i] = e[1] + (i - 1)
  <2>1. a \in Nat /\ 1 \in 1 .. k
    BY <1>2, <1>7
  <2>2. \A i \in 1 .. k : e[i] = ask.firstblock + (a + i - 1) - 1
    BY <1>8
  <2> HIDE DEF e
  <2> QED BY <1>5, <2>1, <2>2
<1>11. Solved(missing, used) = Compute(N, missing, Rows(e))
  <2>1. Solved(missing, used) = Compute(Len(Described), missing,
          [i \in 1 .. Cardinality(used) |-> [present |-> TRUE, exponent |-> ask.firstblock + taken[i] - 1]])
    BY DEF Solved, taken, r
  <2>2. Rows(e) = [i \in 1 .. k |-> [present |-> TRUE, exponent |-> ask.firstblock + taken[i] - 1]]
    BY DEF Rows
  <2> QED BY <1>3, <2>1, <2>2 DEF N, k
<1> HIDE DEF e
<1>12. Compute(N, missing, Rows(e)) # Unsolvable
  <2> DEFINE c == N - k
  <2>1. c \in Nat /\ N = c + k
    BY <1>1, <1>2
  <2> HIDE DEF c
  <2> QED BY <1>1, <1>2, <1>4, <1>9, <1>10, <2>1, SolvedWithoutGaps DEF k
<1> QED BY <1>11, <1>12

(* Whichever blocks are lost, as many recovery packets with consecutive    *)
(* exponents give a matrix that GaussElim solves.  The row it comes to has *)
(* at the lost blocks the values, times a power of each base, of a         *)
(* polynomial with as many roots as its degree, the bases of the blocks    *)
(* whose rows are solved; so it is not zero at the next base.              *)
THEOREM ConsecutiveSolve == Spec => []SolvableWithoutGaps
<1>1. MInv => SolvableWithoutGaps
  <2> SUFFICES ASSUME MInv, result = "Success", NEW repair \in Repairs, WithoutGaps(repair[2])
               PROVE  Solved(repair[1], repair[2]) # Unsolvable
    BY DEF SolvableWithoutGaps
  <2>1. /\ repair[1] \in SUBSET DOMAIN Described /\ repair[2] \in SUBSET headers
        /\ repair[1] # {} /\ Cardinality(repair[1]) = Cardinality(repair[2])
    BY DEF Repairs
  <2> QED BY <2>1, SolvedOfSet
<1> QED BY <1>1, MatrixInvariant, PTL

-----------------------------------------------------------------------------
(* The types of what a creation keeps.                                     *)

(* The source files keep their sizes; the counters and results.            *)
SizesTyped ==
  /\ FileSizes = [f \in DOMAIN ask.files |-> Len(ask.files[f])]
  /\ recoveryfilecount \in Nat
OutcomeTyped == result \in Results /\ faults \in 0 .. MaxFaults /\ changes \in 0 .. MaxChanges

(* A deferred hash is given no more bytes than the file has.               *)
HashesTyped ==
  \A f \in ToSet(sourcefiles) : /\ descriptions[f].hashfull \in MaybeHash
                                /\ Len(contextfull[f]) <= Len(disk[f])

(* Files are created for the plan, and after it is made.                   *)
NamesOf(plan) == {plan[n].name : n \in DOMAIN plan}
NamesTyped ==
  /\ pc \in Sizing \union {"OpenSourceFiles"} => names = {}
  /\ IsFiniteSet(names) /\ names \subseteq NamesOf(recoveryfiles)
  /\ Len(recoveryfiles) \in Nat /\ DOMAIN recoveryfiles = 1 .. Len(recoveryfiles)

(* What is summed and what is written are elements of the field.           *)
DataTyped ==
  /\ blockoffset \in 0 .. blocksize
  /\ pc \in Sizing \union {"OpenSourceFiles"} => recoverydata = <<>>
  /\ (pc = "WriteHeaders" \/ headers # {}) => DOMAIN recoverydata = 1 .. recoveryblockcount
  /\ \A i \in DOMAIN recoverydata : recoverydata[i] \in Words
BufferTyped ==
  pc = "ProcessData" => \A i \in 1 .. recoveryblockcount : outputbuffer[i] \in [1 .. ChunkLength -> Field]

LEMMA OutcomeStays == (OutcomeTyped /\ [Next]_vars) => OutcomeTyped'
<1> SUFFICES ASSUME OutcomeTyped, [Next]_vars PROVE OutcomeTyped'
  OBVIOUS
<1>1. MaxFaults \in Nat /\ MaxChanges \in Nat
  BY CreatorAssumption
<1>2. ASSUME UNCHANGED changes, result' \in Results, UNCHANGED faults \/ Fault PROVE OutcomeTyped'
  <2>1. faults' \in 0 .. MaxFaults
    BY <1>1, <1>2 DEF Fault, OutcomeTyped
  <2> QED BY <1>2, <2>1 DEF OutcomeTyped
<1>3. CASE SourceChanges
  BY <1>1, <1>3 DEF SourceChanges, OutcomeTyped
<1>4. CASE UNCHANGED vars
  BY <1>2, <1>4 DEF vars, input, OutcomeTyped
<1>5. CASE Parse \/ CheckBasepath \/ ComputeSizes \/ CreateMainPacket
  BY <1>2, <1>5 DEF Parse, CheckBasepath, ComputeSizes, CreateMainPacket, Stop, Goto, input, Results, OutcomeTyped
<1>6. CASE CreateFile \/ ComputeRSMatrix \/ \E f \in DOMAIN disk : OpenSourceFile(f)
  BY <1>2, <1>6 DEF CreateFile, ComputeRSMatrix, OpenSourceFile, Stop, Goto, input, Results, OutcomeTyped
<1>7. CASE ReadBlock \/ WriteData \/ EndPass
  BY <1>2, <1>7 DEF ReadBlock, WriteData, EndPass, Stop, Goto, input, Results, OutcomeTyped
<1>8. CASE WriteHeader \/ FinishFileHashComputation \/ WriteCriticalPacket \/ CloseFiles
  BY <1>2, <1>8 DEF WriteHeader, FinishFileHashComputation, WriteCriticalPacket, CloseFiles, Stop, Goto, input,
     Results, OutcomeTyped
<1> QED BY <1>3, <1>4, <1>5, <1>6, <1>7, <1>8 DEF Next, Create

LEMMA LargestPositive ==
  ASSUME Shape, blocksize # 0
  PROVE  Largest \in Nat \ {0}
<1> DEFINE S == {Len(disk[f]) : f \in DOMAIN disk}
           most == Max(S)
<1>1. IsFiniteSet(DOMAIN disk) /\ DOMAIN disk # {} /\ \A f \in DOMAIN disk : Len(disk[f]) \in Nat \ {0}
  BY BlockCounts
<1>2. S \in SUBSET Nat /\ S # {} /\ 0 \notin S
  BY <1>1
<1>3. IsFiniteSet(S)
  <2> DEFINE length == [f \in DOMAIN disk |-> Len(disk[f])]
  <2>1. length \in Surjection(DOMAIN disk, S)
    BY DEF Surjection
  <2> HIDE DEF S, length
  <2> QED BY <1>1, <2>1, FS_Surjection
<1> HIDE DEF S
<1>4. most \in S
  BY <1>2, <1>3, MaxNatural
<1>5. most \in Nat /\ most > 0 /\ blocksize \in Nat \ {0}
  BY <1>2, <1>4 DEF Shape
<1> HIDE DEF most
<1>6. Ceil(most, blocksize) \in Nat /\ Ceil(most, blocksize) > 0
  BY <1>5, CeilFacts
<1> QED BY <1>6 DEF Largest, S, most

LEMMA SizesStay == (IInv /\ SizesTyped /\ [Next]_vars) => SizesTyped'
<1> SUFFICES ASSUME IInv, SizesTyped, [Next]_vars PROVE SizesTyped'
  OBVIOUS
<1>1. Shape
  BY DEF IInv
<1>2. ask' = ask /\ FileSizes' = FileSizes
  BY <1>1, FilesKeepTheirSizes
<1>3. recoveryfilecount' \in Nat
  <2>1. CASE ComputeSizes /\ recoveryfilecount' # recoveryfilecount
    <3> DEFINE filecount == ComputeRecoveryFileCount(ask.scheme, recoveryfilecount, recoveryblockcount, Largest)
    <3>1. recoveryfilecount' = filecount /\ filecount # None
      BY <2>1 DEF ComputeSizes, sizes
    <3>2. blocksize # 0
      BY <2>1 DEF ComputeSizes, sizes
    <3> QED BY <1>1, <3>1, <3>2, LargestPositive, FileCountNatural DEF SizesTyped, Shape
  <2>2. CASE ~(ComputeSizes /\ recoveryfilecount' # recoveryfilecount)
    <3>1. recoveryfilecount' = recoveryfilecount
      BY <2>2 DEF Next, Create, vars, sizes, Parse, CheckBasepath, CreateMainPacket, CreateFile, ComputeRSMatrix,
         ReadBlock, WriteData, EndPass, WriteHeader, FinishFileHashComputation, WriteCriticalPacket, CloseFiles,
         OpenSourceFile, SourceChanges
    <3> QED BY <3>1 DEF SizesTyped
  <2> QED BY <2>1, <2>2
<1> QED BY <1>2, <1>3 DEF SizesTyped

(* What a deferred hash was given is in the file.                          *)
ContextsShort == \A f \in ToSet(sourcefiles) : Len(contextfull[f]) <= Len(disk[f])

LEMMA DeferredAreShort == (HInv /\ pc = "ProcessData" /\ deferhashcomputation) => ContextsShort
<1> SUFFICES ASSUME HInv, pc = "ProcessData", deferhashcomputation, NEW f \in ToSet(sourcefiles)
             PROVE  Len(contextfull[f]) <= Len(disk[f])
  BY DEF ContextsShort
<1>1. Shape /\ CursorsAgree /\ ContextsFollow /\ blocksize \in Nat \ {0} /\ sourcefiles \in Seq(DOMAIN disk)
  BY ProcessingFacts DEF HInv, IInv
<1>2. PICK i \in 1 .. Len(sourcefiles) : f = sourcefiles[i]
  BY DEF ToSet
<1>3. f \in DOMAIN disk
  <2> DEFINE F == DOMAIN disk
  <2>1. sourcefiles \in Seq(F)
    BY <1>1
  <2> HIDE DEF F
  <2>2. sourcefiles[i] \in F
    BY <2>1
  <2> QED BY <1>2, <2>2 DEF F
<1>4. BlockCount(f) \in Nat /\ Len(disk[f]) \in Nat
  BY <1>1, <1>3, BlockCounts
<1>5. sourceindex \in Nat
  BY <1>1 DEF CursorsAgree, CursorAt
<1>6. Read(i) \in Nat
  BY <1>2, <1>4, <1>5 DEF Read
<1>7. Read(i) * blocksize \in Nat
  BY <1>1, <1>6
<1>8. Len(contextfull[f]) = Least(Len(disk[f]), Read(i) * blocksize)
  BY <1>1, <1>2 DEF ContextsFollow, HashIsOf, Spells
<1> QED BY <1>4, <1>7, <1>8 DEF Least

LEMMA HashesStay == (HInv /\ HInv' /\ HashesTyped /\ [Next]_vars) => HashesTyped'
<1> SUFFICES ASSUME HInv, HInv', HashesTyped, [Next]_vars PROVE HashesTyped'
  OBVIOUS
<1>1. Shape /\ Hashed
  BY DEF HInv, IInv
<1>2. DOMAIN disk' = DOMAIN disk /\ \A f \in DOMAIN disk : Len(disk'[f]) = Len(disk[f])
  <2>1. FileSizes' = FileSizes
    BY <1>1, FilesKeepTheirSizes
  <2>2. DOMAIN FileSizes = DOMAIN disk /\ DOMAIN FileSizes' = DOMAIN disk'
    BY DEF FileSizes
  <2>3. /\ \A f \in DOMAIN disk : FileSizes[f] = Len(disk[f])
        /\ \A f \in DOMAIN disk' : FileSizes'[f] = Len(disk'[f])
    BY DEF FileSizes
  <2> QED BY <2>1, <2>2, <2>3
<1>3. \A f \in ToSet(sourcefiles) : f \in DOMAIN disk
  <2> DEFINE F == DOMAIN disk
  <2>1. sourcefiles \in Seq(F)
    BY <1>1 DEF Shape
  <2> HIDE DEF F
  <2>2. \A i \in DOMAIN sourcefiles : sourcefiles[i] \in F
    BY <2>1
  <2> QED BY <2>2 DEF ToSet, F
<1>4. ASSUME UNCHANGED <<sourcefiles, hashes>> PROVE HashesTyped'
  BY <1>2, <1>3, <1>4 DEF HashesTyped, hashes
<1>5. CASE \E f \in DOMAIN disk : OpenSourceFile(f)
  <2>1. PICK f \in DOMAIN disk : OpenSourceFile(f)
    BY <1>5
  <2>2. CASE UNCHANGED <<sourcefiles, hashes>>
    BY <1>4, <2>2
  <2>3. CASE sourcefiles' = Append(sourcefiles, f)
    <3>1. /\ f \notin ToSet(sourcefiles) /\ disk' = disk
          /\ descriptions'[f].hashfull = (IF deferhashcomputation THEN None ELSE disk[f])
          /\ contextfull'[f] = <<>>
          /\ \A g \in ToSet(sourcefiles) : descriptions'[g] = descriptions[g] /\ contextfull'[g] = contextfull[g]
      <4>1. DOMAIN descriptions = ToSet(sourcefiles) /\ DOMAIN contextfull = ToSet(sourcefiles)
        BY <1>1 DEF Hashed
      <4>2. Append(sourcefiles, f) # sourcefiles
        BY <1>1 DEF Shape
      <4> QED BY <2>1, <2>3, <4>1, <4>2 DEF OpenSourceFile, input
    <3>2. \A g \in ToSet(sourcefiles') : g = f \/ g \in ToSet(sourcefiles)
      <4> DEFINE s == sourcefiles
                 F == DOMAIN disk
      <4>1. s \in Seq(F) /\ f \in F /\ sourcefiles' = Append(s, f)
        BY <1>1, <2>3 DEF Shape
      <4> HIDE DEF s, F
      <4>2. \A i \in DOMAIN Append(s, f) : Append(s, f)[i] = f \/ (i \in DOMAIN s /\ Append(s, f)[i] = s[i])
        BY <4>1
      <4> QED BY <4>1, <4>2 DEF ToSet, s
    <3>3. disk[f] \in Seq(Field) /\ Len(disk[f]) \in Nat
      BY <1>1 DEF Shape
    <3>4. Len(<<>>) = 0
      OBVIOUS
    <3> QED BY <3>1, <3>2, <3>3, <3>4 DEF HashesTyped, MaybeHash
  <2> QED BY <2>1, <2>2, <2>3 DEF OpenSourceFile, hashes
<1>6. CASE CreateMainPacket
  <2>1. UNCHANGED hashes /\ ToSet(sourcefiles) = DOMAIN disk
    BY <1>6 DEF CreateMainPacket
  <2>2. \A f \in ToSet(sourcefiles') : f \in DOMAIN disk
    <3>1. IsFiniteSet(DOMAIN disk)
      BY <1>1, CreatorAssumption DEF Shape
    <3>2. sourcefiles' \in SetToSeqs(DOMAIN disk)
      BY <1>6 DEF CreateMainPacket
    <3> QED BY <3>1, <3>2, OrderFacts
  <2> QED BY <1>2, <2>1, <2>2 DEF HashesTyped, hashes
<1>7. CASE ReadBlock
  <2>1. UNCHANGED <<sourcefiles, descriptions, deferhashcomputation>>
    BY <1>7 DEF ReadBlock, sizes
  <2>2. CASE contextfull' = contextfull
    BY <1>2, <1>3, <2>1, <2>2 DEF HashesTyped
  <2>3. CASE contextfull' # contextfull
    <3>1. deferhashcomputation /\ pc = "ProcessData" /\ pc' = pc
      BY <1>7, <2>3 DEF ReadBlock
    <3>2. HInv' /\ (pc = "ProcessData")' /\ deferhashcomputation'
      BY <2>1, <3>1
    <3>3. ContextsShort'
      BY <3>2, DeferredAreShort, PTL
    <3> QED BY <2>1, <3>3 DEF HashesTyped, ContextsShort
  <2> QED BY <2>2, <2>3
<1>8. CASE FinishFileHashComputation
  <2>1. UNCHANGED <<sourcefiles, contextfull>>
    BY <1>8 DEF FinishFileHashComputation
  <2>2. \A f \in ToSet(sourcefiles) : descriptions'[f].hashfull \in MaybeHash
    <3> TAKE f \in ToSet(sourcefiles)
    <3>1. /\ contextfull[f] \in Seq(Field) /\ DOMAIN descriptions = ToSet(sourcefiles)
          /\ descriptions[f] = [hash16k |-> descriptions[f].hash16k, hashfull |-> descriptions[f].hashfull]
      BY <1>1 DEF Hashed, HashesOf
    <3>2. CASE deferhashcomputation
      <4>1. descriptions'[f] = [descriptions[f] EXCEPT !.hashfull = contextfull[f]]
        BY <1>8, <3>1, <3>2 DEF FinishFileHashComputation
      <4>2. descriptions'[f].hashfull = contextfull[f]
        BY <3>1, <4>1
      <4> QED BY <3>1, <4>2 DEF MaybeHash
    <3>3. CASE ~deferhashcomputation
      BY <1>8, <3>3 DEF FinishFileHashComputation, HashesTyped
    <3> QED BY <3>2, <3>3
  <2> QED BY <1>2, <1>3, <2>1, <2>2 DEF HashesTyped
<1>9. CASE ~(CreateMainPacket \/ ReadBlock \/ FinishFileHashComputation \/ \E f \in DOMAIN disk : OpenSourceFile(f))
  <2>1. UNCHANGED <<sourcefiles, hashes>>
    BY <1>9 DEF Next, Create, vars, Parse, CheckBasepath, ComputeSizes, CreateFile, ComputeRSMatrix,
       WriteData, EndPass, WriteHeader, WriteCriticalPacket, CloseFiles, SourceChanges
  <2> QED BY <1>4, <2>1
<1> QED BY <1>5, <1>6, <1>7, <1>8, <1>9

(* The plan is a sequence.                                                 *)
LEMMA PlanIsSequence ==
  ASSUME NEW scheme, NEW first, NEW blocks, NEW n \in Nat, NEW largest, NEW crit, NEW creator,
         NEW plan, plan = PacketsOfFiles(FileAllocations(scheme, first, blocks, n, largest), crit, creator)
  PROVE  Len(plan) \in Nat /\ DOMAIN plan = 1 .. Len(plan)
<1> DEFINE counts == Counts(scheme, blocks, n, largest)
           Allocation(i) == [exponent |-> first + Running(counts)[i - 1], count |-> counts[i]]
           last == [exponent |-> None, count |-> 0]
           A == {Allocation(i) : i \in 1 .. n} \union {last}
           alloc == FileAllocations(scheme, first, blocks, n, largest)
<1>1. alloc = [i \in 1 .. n |-> Allocation(i)] \o <<last>>
  BY DEF FileAllocations
<1>2. [i \in 1 .. n |-> Allocation(i)] \in [1 .. n -> A] /\ last \in A
  OBVIOUS
<1>3. DOMAIN plan = DOMAIN alloc /\ plan = [i \in DOMAIN alloc |-> plan[i]]
  BY DEF PacketsOfFiles
<1> DEFINE s == [i \in 1 .. n |-> Allocation(i)]
<1> HIDE DEF alloc, A, last, s
<1>4. s \in Seq(A) /\ <<last>> \in Seq(A)
  BY <1>2 DEF s
<1>5. alloc \in Seq(A)
  BY <1>1, <1>4 DEF s
<1>6. Len(alloc) \in Nat /\ DOMAIN alloc = 1 .. Len(alloc)
  BY <1>5
<1>7. Len(plan) = Len(alloc)
  BY <1>3, <1>6
<1> QED BY <1>3, <1>6, <1>7

LEMMA NamesStay == (IInv /\ SizesTyped /\ NamesTyped /\ [Next]_vars) => NamesTyped'
<1> SUFFICES ASSUME IInv, SizesTyped, NamesTyped, [Next]_vars PROVE NamesTyped'
  OBVIOUS
<1>1. pc' \in Sizing \union {"OpenSourceFiles"} => pc \in Sizing \union {"OpenSourceFiles"}
  BY DEF Next, Create, vars, Goto, Stop, Sizing, Parse, CheckBasepath, ComputeSizes, CreateMainPacket, CreateFile,
     ComputeRSMatrix, ReadBlock, WriteData, EndPass, WriteHeader, FinishFileHashComputation, WriteCriticalPacket,
     CloseFiles, OpenSourceFile, SourceChanges
<1>2. CASE CreateMainPacket
  <2>1. names = {} /\ names' = names /\ pc' = "CreateFiles"
    BY <1>2 DEF CreateMainPacket, NamesTyped, Goto
  <2>2. \E order : recoveryfiles' =
          PacketsOfFiles(FileAllocations(ask.scheme, ask.firstblock, recoveryblockcount, recoveryfilecount, Largest),
                         CriticalPackets(order), [type |-> "Creator"])
    BY <1>2 DEF CreateMainPacket
  <2>3. Len(recoveryfiles') \in Nat /\ DOMAIN recoveryfiles' = 1 .. Len(recoveryfiles')
    BY <2>2, PlanIsSequence DEF SizesTyped
  <2>4. IsFiniteSet({})
    BY FS_EmptySet
  <2> QED BY <2>1, <2>3, <2>4 DEF NamesTyped, Sizing
<1>3. CASE CreateFile
  <2>1. UNCHANGED recoveryfiles /\ pc = "CreateFiles"
    BY <1>3 DEF CreateFile
  <2>2. pc' \notin Sizing \union {"OpenSourceFiles"}
    BY <1>1, <2>1 DEF Sizing
  <2>3. CASE names' = names
    BY <2>1, <2>2, <2>3 DEF NamesTyped
  <2>4. CASE names' # names
    <3> DEFINE n == Cardinality(names) + 1
    <3>1. names' = names \union {recoveryfiles[n].name} /\ Cardinality(names) < Len(recoveryfiles)
      BY <1>3, <2>4 DEF CreateFile
    <3>2. Cardinality(names) \in Nat
      BY FS_CardinalityType DEF NamesTyped
    <3>3. n \in DOMAIN recoveryfiles
      BY <3>1, <3>2 DEF NamesTyped
    <3> HIDE DEF n
    <3>4. IsFiniteSet(names')
      BY <3>1, FS_AddElement DEF NamesTyped
    <3> QED BY <2>1, <2>2, <3>1, <3>3, <3>4 DEF NamesTyped, NamesOf
  <2> QED BY <2>3, <2>4
<1>4. CASE ~CreateMainPacket /\ ~CreateFile
  <2>1. UNCHANGED <<names, recoveryfiles>>
    BY <1>4 DEF Next, Create, vars, files, Parse, CheckBasepath, ComputeSizes, ComputeRSMatrix, ReadBlock, WriteData,
       EndPass, WriteHeader, FinishFileHashComputation, WriteCriticalPacket, CloseFiles, OpenSourceFile, SourceChanges
  <2> QED BY <1>1, <2>1 DEF NamesTyped
<1> QED BY <1>2, <1>3, <1>4

LEMMA ZerosTyped == \A n : Zeros(n) \in [1 .. n -> Field]
BY FieldFacts DEF Zeros

LEMMA ProcessTyped ==
  ASSUME NEW factor \in Field, NEW D, NEW data \in [D -> Field], NEW sum \in [D -> Field]
  PROVE  Process(factor, data, sum) \in [D -> Field]
<1>1. CASE factor = 0
  BY <1>1 DEF Process
<1>2. CASE factor # 0
  <2>1. Process(factor, data, sum) = [i \in D |-> Plus[sum[i]][LongTimes(factor, data[i])]]
    BY <1>2 DEF Process
  <2>2. \A i \in D : Plus[sum[i]][LongTimes(factor, data[i])] \in Field
    <3> TAKE i \in D
    <3>1. data[i] \in Field /\ sum[i] \in Field
      OBVIOUS
    <3>2. LongTimes(factor, data[i]) \in Field
      BY <3>1, LongTimesFacts, TimesFacts
    <3> QED BY <3>1, <3>2, PlusFacts
  <2> QED BY <2>1, <2>2
<1> QED BY <1>1, <1>2

(* What a pass reads and the factors it uses are elements.                 *)
LEMMA ReadIsTyped ==
  ASSUME MInv, pc = "ProcessData", inputblock <= Len(SourceBlocks)
  PROVE  /\ ReadData(SourceBlocks[inputblock], blockoffset, ChunkLength) \in [1 .. ChunkLength -> Field]
         /\ \A i \in 1 .. recoveryblockcount : matrix[<<i, inputblock>>] \in Field
<1>1. Shape /\ Hashed /\ CursorsAgree /\ Passing /\ FactorsTrue /\ ExponentsFit
  BY DEF MInv, HInv, IInv
<1>2. /\ Ordered /\ blocksize \in Nat \ {0} /\ blockoffset \in Nat /\ ChunkLength \in Nat
      /\ recoveryblockcount \in Nat
  BY ProcessingFacts DEF MInv, HInv
<1>3. PICK start : StartsAt(start, sourcefiles, BlocksOf) /\ CursorAt(start, inputblock, sourcefile, sourceindex)
  BY <1>1 DEF CursorsAgree
<1>4. /\ sourcefiles[sourcefile] \in DOMAIN disk /\ sourceindex \in Nat
      /\ SourceBlocks[inputblock] = <<sourcefiles[sourcefile], sourceindex + 1>>
  BY <1>1, <1>2, <1>3, CursorFacts
<1>5. ReadData(SourceBlocks[inputblock], blockoffset, ChunkLength) \in [1 .. ChunkLength -> Field]
  <2>1. sourceindex + 1 \in Nat \ {0}
    BY <1>4
  <2> QED BY <1>1, <1>2, <1>4, <2>1, ReadDataFacts
<1>6. ASSUME NEW i \in 1 .. recoveryblockcount PROVE matrix[<<i, inputblock>>] \in Field
  <2>1. Len(SourceBlocks) \in Nat /\ inputblock \in 1 .. Len(SourceBlocks)
    <3>1. \E s : Listed(s)
      BY <1>1, <1>2, SetIsListed
    <3> QED BY <1>1, <3>1 DEF Passing, Listed
  <2>2. /\ Len(SourceBlocks) <= Len(Bases)
        /\ matrix[<<i, inputblock>>] = Pow(Bases[inputblock], ask.firstblock + i - 1)
    BY <1>1, <2>1 DEF FactorsTrue, Factor
  <2>3. Bases[inputblock] \in Field
    <3>1. Len(Bases) \in Nat /\ \A n \in 1 .. Len(Bases) : Bases[n] \in Field
      BY BasesInField
    <3> QED BY <2>1, <2>2, <3>1
  <2>4. ask.firstblock + i - 1 \in 0 .. Limit
    <3>1. ask.firstblock \in Nat /\ MaxExponents \in Nat /\ Count \in Nat /\ MaxExponents <= Count
      BY <1>1, CreatorAssumption, CommandLineAssumption, CountAssumption DEF Shape
    <3>2. recoveryblockcount # 0 /\ ask.firstblock + recoveryblockcount < MaxExponents
      BY <1>1, <1>2 DEF ExponentsFit
    <3>3. Limit = Count - 1
      BY DEF Limit
    <3> QED BY ONLY <1>2, <3>1, <3>2, <3>3, i \in 1 .. recoveryblockcount
  <2> QED BY <2>2, <2>3, <2>4, PowInField
<1> QED BY <1>5, <1>6

LEMMA BufferStays == (MInv /\ BufferTyped /\ [Next]_vars) => BufferTyped'
<1> SUFFICES ASSUME MInv, BufferTyped, [Next]_vars, pc' = "ProcessData" PROVE BufferTyped'
  BY DEF BufferTyped
<1>1. IInv
  BY DEF MInv, HInv
<1>2. CASE ComputeRSMatrix
  <2> DEFINE n == Least(chunksize, blocksize)
  <2>1. outputbuffer' = [i \in 1 .. recoveryblockcount |-> Zeros(n)] /\ UNCHANGED <<sizes, cursor>>
    BY <1>2 DEF ComputeRSMatrix, Goto, Stop
  <2>2. blockoffset = 0 /\ blocksize \in Nat
    BY <1>1, <1>2 DEF IInv, Staged, Shape, ComputeRSMatrix, Reading, Sizing
  <2>3. ChunkLength' = n
    BY <2>1, <2>2 DEF ChunkLength, sizes, cursor
  <2> HIDE DEF n
  <2> QED BY <2>1, <2>3, ZerosTyped DEF BufferTyped, sizes
<1>3. CASE EndPass
  <2> DEFINE n == Least(chunksize, blocksize - blockoffset')
  <2>1. pc = "ProcessData" /\ NextPass /\ UNCHANGED sizes
    BY <1>3 DEF EndPass, Goto
  <2>2. DOMAIN outputbuffer = 1 .. recoveryblockcount
    BY <1>1, <2>1 DEF IInv, Passing
  <2>3. outputbuffer' = [i \in 1 .. recoveryblockcount |-> Zeros(n)]
    BY <2>1, <2>2 DEF NextPass
  <2>4. ChunkLength' = n
    BY <2>1 DEF ChunkLength, sizes
  <2> HIDE DEF n
  <2> QED BY <2>1, <2>3, <2>4, ZerosTyped DEF BufferTyped, sizes
<1>4. CASE ReadBlock
  <2>1. /\ pc = "ProcessData" /\ inputblock <= Len(SourceBlocks) /\ UNCHANGED <<sizes, blockoffset>>
    BY <1>4 DEF ReadBlock
  <2> DEFINE data == ReadData(SourceBlocks[inputblock], blockoffset, ChunkLength)
             n == ChunkLength
  <2>2. outputbuffer' = [i \in DOMAIN outputbuffer |-> Process(matrix[<<i, inputblock>>], data, outputbuffer[i])]
    BY <1>4 DEF ReadBlock, Stop
  <2>3. DOMAIN outputbuffer = 1 .. recoveryblockcount
    BY <1>1, <2>1 DEF IInv, Passing
  <2>4. ChunkLength' = n
    BY <2>1 DEF ChunkLength, sizes
  <2>5. data \in [1 .. n -> Field] /\ \A i \in 1 .. recoveryblockcount : matrix[<<i, inputblock>>] \in Field
    BY <2>1, ReadIsTyped
  <2>6. \A i \in 1 .. recoveryblockcount : outputbuffer[i] \in [1 .. n -> Field]
    BY <2>1 DEF BufferTyped
  <2> HIDE DEF data, n
  <2>7. \A i \in 1 .. recoveryblockcount : Process(matrix[<<i, inputblock>>], data, outputbuffer[i]) \in [1 .. n -> Field]
    BY <2>5, <2>6, ProcessTyped
  <2> QED BY <2>1, <2>2, <2>3, <2>4, <2>7 DEF BufferTyped, sizes
<1>5. CASE ~(ComputeRSMatrix \/ EndPass \/ ReadBlock)
  <2>1. pc = "ProcessData" /\ UNCHANGED <<sizes, blockoffset, outputbuffer>>
    BY <1>5 DEF Next, Create, vars, cursor, Goto, Stop, Parse, CheckBasepath, ComputeSizes, CreateMainPacket, CreateFile,
       WriteData, WriteHeader, FinishFileHashComputation, WriteCriticalPacket, CloseFiles, OpenSourceFile, SourceChanges
  <2> QED BY <2>1 DEF BufferTyped, ChunkLength, sizes
<1> QED BY <1>2, <1>3, <1>4, <1>5

LEMMA DataStays == (IInv /\ IInv' /\ BufferTyped /\ DataTyped /\ [Next]_vars) => DataTyped'
<1> SUFFICES ASSUME IInv, IInv', BufferTyped, DataTyped, [Next]_vars PROVE DataTyped'
  OBVIOUS
<1> DEFINE Begun == Sizing \union {"OpenSourceFiles"}
<1>1. /\ pc' \in Begun => pc \in Begun
      /\ (pc' = "WriteHeaders" \/ headers' # {}) => pc \in {"ProcessData", "WriteHeaders"} \/ headers # {}
  BY DEF Next, Create, vars, packets, Goto, Stop, Sizing, Parse, CheckBasepath, ComputeSizes, CreateMainPacket,
     CreateFile, ComputeRSMatrix, ReadBlock, WriteData, EndPass, WriteHeader, FinishFileHashComputation,
     WriteCriticalPacket, CloseFiles, OpenSourceFile, SourceChanges
<1>2. pc = "ProcessData" => DOMAIN recoverydata = 1 .. recoveryblockcount
  BY DEF IInv, Staged
<1>3. ASSUME UNCHANGED <<recoverydata, blocksize, recoveryblockcount>>, blockoffset' \in 0 .. blocksize
      PROVE  DataTyped'
  <2>1. Words' = Words
    BY <1>3 DEF Words
  <2>2. (pc' = "WriteHeaders" \/ headers' # {}) => DOMAIN recoverydata = 1 .. recoveryblockcount
    BY <1>1, <1>2 DEF DataTyped
  <2>3. pc' \in Begun => recoverydata = <<>>
    BY <1>1 DEF DataTyped
  <2> QED BY <1>3, <2>1, <2>2, <2>3 DEF DataTyped
<1>4. CASE Parse
  <2>1. recoverydata' = recoverydata /\ headers' = headers /\ blockoffset' = blockoffset /\ pc = "Parse"
    BY <1>4 DEF Parse, packets, cursor
  <2>2. recoverydata = <<>> /\ headers = {} /\ blockoffset = 0 /\ pc' # "WriteHeaders"
    BY <1>4, <2>1 DEF DataTyped, IInv, Staged, Reading, Sizing, Parse, Goto, Stop
  <2>3. blocksize' \in Nat
    BY DEF IInv, Shape
  <2>4. blockoffset' \in 0 .. blocksize'
    BY <2>1, <2>2, <2>3
  <2>5. recoverydata' = <<>> /\ DOMAIN <<>> = {}
    BY <2>1, <2>2
  <2> QED BY <2>1, <2>2, <2>4, <2>5 DEF DataTyped
<1>5. CASE CreateMainPacket
  <2>1. /\ recoverydata' = [i \in 1 .. recoveryblockcount |-> Zeros(blocksize)] /\ pc' = "CreateFiles"
        /\ UNCHANGED <<blocksize, recoveryblockcount, blockoffset>>
    BY <1>5 DEF CreateMainPacket, sizes, cursor, Goto
  <2>2. Words' = Words /\ Zeros(blocksize) \in Words
    BY <2>1, ZerosTyped DEF Words
  <2> QED BY <2>1, <2>2 DEF DataTyped, Sizing
<1>6. CASE WriteData
  <2>1. pc = "ProcessData" /\ outputblock <= recoveryblockcount /\ UNCHANGED <<blocksize, recoveryblockcount, blockoffset>>
    BY <1>6 DEF WriteData, sizes
  <2>2. blockoffset \in 0 .. blocksize
    BY DEF DataTyped
  <2>3. CASE recoverydata' = recoverydata
    BY <1>3, <2>1, <2>2, <2>3
  <2>4. CASE recoverydata' # recoverydata
    <3> DEFINE j == outputblock
               new == SubSeq(recoverydata[j], 1, blockoffset) \o outputbuffer[j]
                      \o SubSeq(recoverydata[j], blockoffset + ChunkLength + 1, blocksize)
    <3>1. recoverydata' = [recoverydata EXCEPT ![j] = new]
      BY <1>6, <2>4 DEF WriteData
    <3>2. /\ blocksize \in Nat /\ blockoffset \in Nat /\ ChunkLength \in Nat /\ blockoffset + ChunkLength <= blocksize
          /\ recoveryblockcount \in Nat /\ j \in 1 .. recoveryblockcount
      BY <2>1, ProcessingFacts
    <3>3. recoverydata[j] \in [1 .. blocksize -> Field] /\ outputbuffer[j] \in [1 .. ChunkLength -> Field]
      BY <1>2, <2>1, <3>2 DEF DataTyped, BufferTyped, Words
    <3>4. IsTable(recoverydata[j], blocksize) /\ IsTable(outputbuffer[j], ChunkLength)
      BY <3>3 DEF IsTable
    <3> DEFINE data == recoverydata[j]
               piece == outputbuffer[j]
               n == ChunkLength
    <3>5. new = SubSeq(data, 1, blockoffset) \o piece \o SubSeq(data, blockoffset + n + 1, blocksize)
      OBVIOUS
    <3> HIDE DEF new, j, data, piece, n
    <3>6. IsTable(new, blocksize) /\ Overlaid(new, data, piece, blockoffset, n, blocksize)
      BY <3>2, <3>4, <3>5, WrittenFacts DEF data, piece, n
    <3>7. new \in Words
      <4>1. ASSUME NEW p \in 1 .. blocksize PROVE new[p] \in Field
        <5>1. CASE p <= blockoffset
          BY <3>2, <3>3, <3>6, <5>1 DEF Overlaid, data
        <5>2. CASE ~(p <= blockoffset) /\ p <= blockoffset + n
          <6>1. p - blockoffset \in 1 .. n
            BY <3>2, <5>2 DEF n
          <6>2. new[p] = piece[p - blockoffset]
            BY <3>6, <5>2 DEF Overlaid
          <6> QED BY <3>3, <6>1, <6>2 DEF piece, n
        <5>3. CASE ~(p <= blockoffset) /\ ~(p <= blockoffset + n)
          BY <3>3, <3>6, <5>3 DEF Overlaid, data
        <5> QED BY <5>1, <5>2, <5>3
      <4> QED BY <3>6, <4>1 DEF Words, IsTable
    <3>8. /\ DOMAIN recoverydata = 1 .. recoveryblockcount /\ DOMAIN recoverydata' = DOMAIN recoverydata
          /\ \A i \in DOMAIN recoverydata : recoverydata'[i] = IF i = j THEN new ELSE recoverydata[i]
      BY <1>2, <2>1, <3>1
    <3>9. Words' = Words
      BY <2>1 DEF Words
    <3>10. pc' \notin Begun /\ pc' = pc /\ headers' = headers
      BY <1>6, <2>1, <2>4 DEF WriteData, Sizing
    <3> QED BY <2>1, <2>2, <3>7, <3>8, <3>9, <3>10 DEF DataTyped
  <2> QED BY <2>3, <2>4
<1>7. CASE EndPass
  <2>1. pc = "ProcessData" /\ blockoffset' = blockoffset + ChunkLength
        /\ UNCHANGED <<recoverydata, blocksize, recoveryblockcount>>
    BY <1>7 DEF EndPass, sizes, packets
  <2>2. blockoffset' \in 0 .. blocksize
    BY <2>1, ProcessingFacts
  <2> QED BY <1>3, <2>1, <2>2
<1>8. CASE ~(Parse \/ CreateMainPacket \/ WriteData \/ EndPass)
  <2>1. UNCHANGED <<recoverydata, blocksize, recoveryblockcount, blockoffset>>
    BY <1>8 DEF Next, Create, vars, sizes, packets, cursor, CheckBasepath, ComputeSizes, CreateFile, ComputeRSMatrix,
       ReadBlock, WriteHeader, FinishFileHashComputation, WriteCriticalPacket, CloseFiles, OpenSourceFile, SourceChanges
  <2>2. blockoffset' \in 0 .. blocksize
    BY <2>1 DEF DataTyped
  <2> QED BY <1>3, <2>1, <2>2
<1> QED BY <1>4, <1>5, <1>6, <1>7, <1>8

TInv == MInv /\ SizesTyped /\ OutcomeTyped /\ HashesTyped /\ NamesTyped /\ DataTyped /\ BufferTyped

LEMMA TypesStart == Init => (SizesTyped /\ OutcomeTyped /\ HashesTyped /\ NamesTyped /\ DataTyped /\ BufferTyped)
<1> SUFFICES ASSUME Init PROVE SizesTyped /\ OutcomeTyped /\ HashesTyped /\ NamesTyped /\ DataTyped /\ BufferTyped
  OBVIOUS
<1>1. SizesTyped
  <2>1. ask.recoveryfilecount \in Nat
    BY CreatorAssumption DEF Init
  <2> QED BY <2>1 DEF Init, SizesTyped, FileSizes
<1>2. OutcomeTyped
  <2>1. MaxFaults \in Nat /\ MaxChanges \in Nat
    BY CreatorAssumption
  <2> QED BY <2>1 DEF Init, OutcomeTyped, Results
<1>3. HashesTyped
  <2>1. ToSet(<<>>) = {}
    BY DEF ToSet
  <2> QED BY <2>1 DEF Init, HashesTyped
<1>4. NamesTyped
  <2>1. names = {} /\ recoveryfiles = <<>>
    BY DEF Init
  <2>2. IsFiniteSet({}) /\ Len(<<>>) = 0 /\ DOMAIN <<>> = 1 .. 0
    BY FS_EmptySet
  <2> QED BY <2>1, <2>2 DEF NamesTyped
<1>5. DataTyped
  <2>1. recoverydata = <<>> /\ headers = {} /\ blockoffset = 0 /\ blocksize = 0 /\ pc = "Parse"
    BY DEF Init
  <2>2. DOMAIN <<>> = {}
    OBVIOUS
  <2> QED BY <2>1, <2>2 DEF DataTyped
<1>6. BufferTyped
  BY DEF Init, BufferTyped
<1> QED BY <1>1, <1>2, <1>3, <1>4, <1>5, <1>6

(* The cursors of a pass, as the type invariant has them.                  *)
LEMMA CursorsTyped ==
  ASSUME IInv, BufferTyped, pc = "ProcessData"
  PROVE  /\ inputblock \in 1 .. Len(SourceBlocks) + 1 /\ outputblock \in 1 .. recoveryblockcount + 1
         /\ inputblock <= Len(SourceBlocks) =>
              SourceBlocks[inputblock] = <<sourcefiles[sourcefile], sourceindex + 1>>
         /\ \A i \in DOMAIN outputbuffer : Len(outputbuffer[i]) = ChunkLength
<1>1. Shape /\ Hashed /\ CursorsAgree /\ Passing
  BY DEF IInv
<1>2. Ordered /\ blocksize \in Nat \ {0} /\ ChunkLength \in Nat
  BY ProcessingFacts
<1>3. ASSUME inputblock <= Len(SourceBlocks)
      PROVE  SourceBlocks[inputblock] = <<sourcefiles[sourcefile], sourceindex + 1>>
  <2>1. PICK start : StartsAt(start, sourcefiles, BlocksOf) /\ CursorAt(start, inputblock, sourcefile, sourceindex)
    BY <1>1 DEF CursorsAgree
  <2> QED BY <1>1, <1>2, <1>3, <2>1, CursorFacts
<1>4. ASSUME NEW i \in DOMAIN outputbuffer PROVE Len(outputbuffer[i]) = ChunkLength
  <2> DEFINE n == ChunkLength
             word == outputbuffer[i]
  <2>1. word \in [1 .. n -> Field] /\ n \in Nat
    BY <1>1, <1>2 DEF Passing, BufferTyped
  <2> HIDE DEF n, word
  <2>2. Len(word) = n
    BY <2>1
  <2> QED BY <2>2 DEF n, word
<1> QED BY <1>1, <1>3, <1>4 DEF Passing

(* A block's hash is a sequence of bytes, when it is known.                *)
LEMMA WordsAreHashes ==
  ASSUME blocksize \in Nat
  PROVE  Words \union {None} \subseteq MaybeHash
<1> DEFINE n == blocksize
<1> HIDE DEF n
<1>1. n \in Nat => [1 .. n -> Field] \subseteq Seq(Field)
  OBVIOUS
<1> QED BY <1>1 DEF Words, MaybeHash, n

(* Every variable of a creation stays in its type, whatever the files and  *)
(* the options: the cursors over files, blocks, passes and recovery blocks *)
(* point to the same block and stay within what there is, a deferred hash  *)
(* is given no more than the file has, only files of the plan are created, *)
(* and what is summed and written are elements of the field (Process,      *)
(* ProcessData).                                                           *)
THEOREM TypeCorrect == Spec => []TypeOK
<1>1. Init => TInv
  <2>1. Init => MInv
    BY HashesStart DEF Init, MInv, ExponentsFit, FactorsTrue
  <2> QED BY <2>1, TypesStart DEF TInv
<1>2. TInv /\ MInv' /\ [Next]_vars => TInv'
  <2> SUFFICES ASSUME TInv, MInv', [Next]_vars PROVE TInv'
    OBVIOUS
  <2>1. HInv /\ HInv' /\ IInv /\ IInv'
    BY DEF TInv, MInv, HInv
  <2>2. SizesTyped' /\ OutcomeTyped'
    BY <2>1, SizesStay, OutcomeStays DEF TInv
  <2>3. HashesTyped' /\ NamesTyped'
    BY <2>1, HashesStay, NamesStay DEF TInv
  <2>4. DataTyped' /\ BufferTyped'
    BY <2>1, DataStays, BufferStays DEF TInv
  <2> QED BY <2>2, <2>3, <2>4 DEF TInv
<1>3. TInv => TypeOK
  <2> SUFFICES ASSUME TInv PROVE TypeOK
    OBVIOUS
  <2>1. /\ Shape /\ Hashed /\ Staged /\ IInv
        /\ SizesTyped /\ OutcomeTyped /\ HashesTyped /\ NamesTyped /\ DataTyped /\ BufferTyped
    BY DEF TInv, MInv, HInv, IInv
  <2>2. disk \in [DOMAIN ask.files -> Seq(Field)]
    BY <2>1 DEF Shape
  <2>3. \A f \in ToSet(sourcefiles) : verifications[f] \in [1 .. BlockCount(f) -> MaybeHash]
    <3> TAKE f \in ToSet(sourcefiles)
    <3>1. verifications[f] \in [1 .. BlockCount(f) -> Words \union {None}]
      BY <2>1 DEF Hashed, HashesOf
    <3>2. Words \union {None} \subseteq MaybeHash
      BY <2>1, WordsAreHashes DEF Shape
    <3> QED BY <3>1, <3>2
  <2>4. headers \subseteq DOMAIN recoverydata
    BY <2>1 DEF Staged, DataTyped
  <2>5. \A i \in DOMAIN recoverydata : recoverydata[i] \in [1 .. blocksize -> Field]
    BY <2>1 DEF DataTyped, Words
  <2>6. {blocksize, recoveryblockcount, recoveryfilecount, chunksize} \subseteq Nat /\ deferhashcomputation \in BOOLEAN
    BY <2>1 DEF Shape, SizesTyped
  <2>7. names \subseteq {recoveryfiles[n].name : n \in DOMAIN recoveryfiles}
    BY <2>1 DEF NamesTyped, NamesOf
  <2>8. \A f \in ToSet(sourcefiles) : descriptions[f].hashfull \in MaybeHash /\ Len(contextfull[f]) <= Len(disk[f])
    BY <2>1 DEF HashesTyped
  <2>9. FileSizes = [f \in DOMAIN ask.files |-> Len(ask.files[f])] /\ blockoffset \in 0 .. blocksize
    BY <2>1 DEF SizesTyped, DataTyped
  <2>10. result \in Results /\ faults \in 0 .. MaxFaults /\ changes \in 0 .. MaxChanges
    BY <2>1 DEF OutcomeTyped
  <2> QED BY <2>1, <2>2, <2>3, <2>4, <2>5, <2>6, <2>7, <2>8, <2>9, <2>10, CursorsTyped DEF TypeOK
<1> QED BY <1>1, <1>2, <1>3, MatrixInvariant, PTL DEF Spec
=============================================================================
