-------------------------- MODULE Par2CreatorProofs --------------------------
(***************************************************************************)
(* What a creation has written when it is killed, for any files, sizes and *)
(* failures: a recovery packet with its header holds the sums of the       *)
(* blocks that the hashes are of; and the size of its blocks.              *)
(***************************************************************************)
EXTENDS Par2Creator, FiniteSetTheorems, SequenceTheorems, WellFoundedInduction, TLAPS

-----------------------------------------------------------------------------
(* Recursive definitions.                                                  *)

(* Numbers are well ordered: the theorem of the library on minimal         *)
(* elements, for the order of the natural numbers.                         *)
LEMMA LeastNumber ==
  ASSUME NEW S \in SUBSET Nat, S # {}
  PROVE  \E m \in S : \A n \in S : m <= n
<1>1. IsWellFoundedOn(OpToRel(<, Nat), Nat)
  BY NatLessThanWellFounded
<1>2. PICK m \in S : \A n \in S : ~ (<<n, m>> \in OpToRel(<, Nat))
  BY <1>1, WFMin
<1>3. \A n \in S : n \in Nat /\ m \in Nat /\ ~ (n < m)
  BY <1>2 DEF OpToRel
<1> QED BY <1>3

(* Induction, for what holds as a set of numbers.                          *)
LEMMA Induction ==
  ASSUME NEW P \in SUBSET Nat, 0 \in P, \A n \in P : n + 1 \in P
  PROVE  P = Nat
<1>1. SUFFICES ASSUME Nat \ P # {} PROVE FALSE
  OBVIOUS
<1>2. PICK m \in Nat \ P : \A n \in Nat \ P : m <= n
  BY <1>1, LeastNumber
<1>3. m # 0 /\ m - 1 \in Nat /\ ~(m <= m - 1)
  BY <1>2
<1>4. m - 1 \in P
  BY <1>2, <1>3
<1>5. (m - 1) + 1 \in P
  BY <1>4
<1> QED BY <1>2, <1>5

LEMMA InductionUpTo ==
  ASSUME NEW N \in Nat, NEW P \in SUBSET (0 .. N), 0 \in P,
         \A n \in P : n < N => n + 1 \in P
  PROVE  P = 0 .. N
<1> DEFINE Q == P \union {n \in Nat : n > N}
<1>1. \A n \in P : n \in Nat /\ n <= N
  OBVIOUS
<1>2. Q \in SUBSET Nat /\ 0 \in Q
  BY <1>1
<1>3. \A n \in Q : n + 1 \in Q
  <2> TAKE n \in Q
  <2>1. CASE n \in P /\ n < N
    BY <2>1
  <2>2. CASE ~(n \in P /\ n < N)
    BY <2>2, <1>1
  <2> QED BY <2>1, <2>2
<1> HIDE DEF Q
<1>4. Q = Nat
  BY <1>2, <1>3, Induction
<1>5. \A n \in 0 .. N : n \in P
  BY <1>4 DEF Q
<1> QED BY <1>5

(* What is defined by its first value and by the next of each is defined.  *)
Iterates(h, base, step) == h[0] = base /\ \A n \in Nat : h[n + 1] = step[n][h[n]]

LEMMA Iteration ==
  ASSUME NEW S, NEW base \in S, NEW step \in [Nat -> [S -> S]]
  PROVE  \E h \in [Nat -> S] : Iterates(h, base, step)
<1> DEFINE Upto(g, n) == g[0] = base /\ \A i \in 0 .. n - 1 : g[i + 1] = step[i][g[i]]
           P == {n \in Nat : \E g \in [0 .. n -> S] : Upto(g, n)}
<1>1. 0 \in P
  <2>1. [i \in 0 .. 0 |-> base] \in [0 .. 0 -> S] /\ Upto([i \in 0 .. 0 |-> base], 0)
    OBVIOUS
  <2> QED BY <2>1
<1>2. ASSUME NEW n \in P PROVE n + 1 \in P
  <2>1. PICK g \in [0 .. n -> S] : Upto(g, n)
    BY <1>2
  <2> DEFINE new == [i \in 0 .. n + 1 |-> IF i = n + 1 THEN step[n][g[n]] ELSE g[i]]
  <2>2. n \in Nat /\ n \in 0 .. n /\ step[n][g[n]] \in S
    OBVIOUS
  <2>3. new \in [0 .. n + 1 -> S]
    BY <2>2
  <2>4. new[0] = base
    BY <2>1, <2>2
  <2>5. ASSUME NEW i \in 0 .. (n + 1) - 1 PROVE new[i + 1] = step[i][new[i]]
    <3>1. i \in 0 .. n /\ i \in 0 .. n + 1 /\ i + 1 \in 0 .. n + 1 /\ i # n + 1
      BY <2>2
    <3>2. new[i] = g[i]
      BY <3>1
    <3>3. CASE i = n
      BY <3>1, <3>2, <3>3
    <3>4. CASE i # n
      <4>1. i \in 0 .. n - 1 /\ i + 1 # n + 1
        BY <3>1, <3>4, <2>2
      <4> QED BY <4>1, <3>1, <3>2, <2>1
    <3> QED BY <3>3, <3>4
  <2>6. Upto(new, n + 1)
    BY <2>4, <2>5
  <2> HIDE DEF new, Upto
  <2> QED BY <2>2, <2>3, <2>6
<1>3. P = Nat
  <2> HIDE DEF P
  <2>1. P \in SUBSET Nat
    BY DEF P
  <2> QED BY <1>1, <1>2, <2>1, Induction
<1> DEFINE G == [n \in Nat |-> CHOOSE g \in [0 .. n -> S] : Upto(g, n)]
<1>4. \A n \in Nat : G[n] \in [0 .. n -> S] /\ Upto(G[n], n)
  <2> HIDE DEF Upto
  <2> QED BY <1>3
<1>5. ASSUME NEW n \in Nat PROVE G[n + 1][n] = G[n][n]
  <2> DEFINE Q == {i \in 0 .. n : G[n + 1][i] = G[n][i]}
  <2> HIDE DEF G
  <2>1. Upto(G[n + 1], n + 1) /\ Upto(G[n], n)
    BY <1>4
  <2>2. 0 \in Q
    BY <2>1
  <2>3. ASSUME NEW i \in Q, i < n PROVE i + 1 \in Q
    <3>1. i \in 0 .. n - 1 /\ i \in 0 .. (n + 1) - 1 /\ i + 1 \in 0 .. n
      BY <2>3
    <3> QED BY <3>1, <2>1
  <2> HIDE DEF Q
  <2>4. Q \in SUBSET (0 .. n)
    BY DEF Q
  <2>5. Q = 0 .. n
    BY <2>2, <2>3, <2>4, InductionUpTo
  <2>6. n \in Q
    BY <2>5
  <2> QED BY <2>6 DEF Q
<1> DEFINE h == [n \in Nat |-> G[n][n]]
<1>6. h \in [Nat -> S]
  <2> HIDE DEF G
  <2>1. \A n \in Nat : G[n][n] \in S
    BY <1>4
  <2> QED BY <2>1
<1>7. h[0] = base
  <2> HIDE DEF G
  <2> QED BY <1>4
<1>8. ASSUME NEW n \in Nat PROVE h[n + 1] = step[n][h[n]]
  <2> HIDE DEF G
  <2>1. G[n + 1][n + 1] = step[n][G[n + 1][n]]
    <3>1. n \in 0 .. (n + 1) - 1
      OBVIOUS
    <3> QED BY <3>1, <1>4
  <2> QED BY <2>1, <1>5
<1> QED BY <1>6, <1>7, <1>8 DEF Iterates

-----------------------------------------------------------------------------
(* Sequences of sequences.                                                 *)

(* Where the parts begin in the whole, when they are as long as this.      *)
Beginning(start, seqs) ==
  /\ start \in [0 .. Len(seqs) -> Nat] /\ start[0] = 0
  /\ \A i \in 1 .. Len(seqs) : start[i] = start[i - 1] + Len(seqs[i])

LEMMA Flattening ==
  ASSUME NEW S, NEW seqs \in Seq(Seq(S)), Len(seqs) > 0
  PROVE  \E flatten \in [1 .. Len(seqs) -> Seq(S)] :
           /\ flatten[1] = seqs[1] /\ FlattenSeq(seqs) = flatten[Len(seqs)]
           /\ \A i \in 2 .. Len(seqs) : flatten[i] = flatten[i - 1] \o seqs[i]
<1> DEFINE N == Len(seqs)
           step == [n \in Nat |-> [s \in Seq(S) |-> IF n + 2 \in 1 .. N THEN s \o seqs[n + 2] ELSE s]]
           Right(f) == f = [i \in 1 .. N |-> IF i = 1 THEN seqs[i] ELSE f[i - 1] \o seqs[i]]
<1>1. N \in Nat \ {0} /\ seqs[1] \in Seq(S) /\ \A i \in 1 .. N : seqs[i] \in Seq(S)
  OBVIOUS
<1>2. step \in [Nat -> [Seq(S) -> Seq(S)]]
  BY <1>1
<1>3. PICK h \in [Nat -> Seq(S)] : h[0] = seqs[1] /\ \A n \in Nat : h[n + 1] = step[n][h[n]]
  <2> DEFINE U == Seq(S)
             base == seqs[1]
  <2>1. base \in U /\ step \in [Nat -> [U -> U]]
    BY <1>1, <1>2
  <2> HIDE DEF step, U, base
  <2>2. \E h \in [Nat -> U] : Iterates(h, base, step)
    BY <2>1, Iteration
  <2> QED BY <2>2 DEF U, base, Iterates
<1> DEFINE g == [i \in 1 .. N |-> h[i - 1]]
<1>4. \A i \in 1 .. N : i # 1 => h[i - 1] = h[i - 2] \o seqs[i]
  <2> TAKE i \in 1 .. N
  <2> SUFFICES ASSUME i # 1 PROVE h[i - 1] = h[i - 2] \o seqs[i]
    OBVIOUS
  <2>1. i - 2 \in Nat /\ (i - 2) + 1 = i - 1 /\ (i - 2) + 2 = i
    BY <1>1
  <2>2. h[i - 1] = step[i - 2][h[i - 2]] /\ h[i - 2] \in Seq(S)
    BY <1>3, <2>1
  <2> QED BY <2>1, <2>2
<1>5. Right(g)
  <2>1. \A i \in 1 .. N : g[i] = IF i = 1 THEN seqs[i] ELSE g[i - 1] \o seqs[i]
    <3> TAKE i \in 1 .. N
    <3>1. CASE i = 1
      BY <3>1, <1>3
    <3>2. CASE i # 1
      <4>1. i - 1 \in 1 .. N /\ (i - 1) - 1 = i - 2 /\ g[i - 1] = h[i - 2]
        BY <3>2, <1>1
      <4> QED BY <4>1, <3>2, <1>4
    <3> QED BY <3>1, <3>2
  <2> HIDE DEF N
  <2> QED BY <2>1
<1> DEFINE f == CHOOSE f : Right(f)
<1>6. Right(f)
  <2> HIDE DEF Right, g
  <2> QED BY <1>5
<1>7. FlattenSeq(seqs) = f[N]
  BY <1>1 DEF FlattenSeq
<1> HIDE DEF f
<1>8. \A i \in 1 .. N : f[i] = IF i = 1 THEN seqs[i] ELSE f[i - 1] \o seqs[i]
  <2> HIDE DEF N
  <2> QED BY <1>6
<1>9. \A i \in 1 .. N : f[i] \in Seq(S)
  <2> HIDE DEF N
  <2> DEFINE P == {n \in 0 .. N - 1 : f[n + 1] \in Seq(S)}
  <2>1. 0 \in P
    <3>1. 0 \in 0 .. N - 1 /\ 1 \in 1 .. N /\ 0 + 1 = 1
      BY <1>1
    <3> QED BY <3>1, <1>1, <1>8
  <2>2. ASSUME NEW n \in P, n < N - 1 PROVE n + 1 \in P
    <3>1. n + 2 \in 1 .. N /\ n + 2 # 1 /\ (n + 2) - 1 = n + 1 /\ n + 1 \in 0 .. N - 1
      BY <2>2, <1>1
    <3>2. f[n + 2] = f[n + 1] \o seqs[n + 2]
      BY <3>1, <1>8
    <3>3. f[n + 2] \in Seq(S)
      BY <3>1, <3>2, <2>2, <1>1
    <3>4. (n + 1) + 1 = n + 2
      BY <3>1
    <3> QED BY <3>1, <3>3, <3>4
  <2> HIDE DEF P
  <2>3. P \in SUBSET (0 .. N - 1) /\ N - 1 \in Nat
    BY <1>1 DEF P
  <2>4. P = 0 .. N - 1
    BY <2>1, <2>2, <2>3, InductionUpTo
  <2> TAKE i \in 1 .. N
  <2>5. i - 1 \in P /\ (i - 1) + 1 = i
    BY <2>4, <1>1
  <2> QED BY <2>5 DEF P
<1>10. f \in [1 .. N -> Seq(S)]
  <2>1. DOMAIN f = 1 .. N /\ f = [i \in 1 .. N |-> f[i]]
    <3> HIDE DEF N
    <3> QED BY <1>6
  <2> HIDE DEF N
  <2> QED BY <2>1, <1>9
<1>11. f[1] = seqs[1] /\ \A i \in 2 .. N : f[i] = f[i - 1] \o seqs[i]
  <2> HIDE DEF N
  <2>1. 1 \in 1 .. N /\ \A i \in 2 .. N : i \in 1 .. N /\ i # 1
    BY <1>1
  <2> QED BY <2>1, <1>8
<1> QED BY <1>7, <1>10, <1>11

(* What is in the whole, and where.                                        *)
LEMMA FlattenFacts ==
  ASSUME NEW S, NEW seqs \in Seq(Seq(S)), Len(seqs) > 0, NEW start, Beginning(start, seqs)
  PROVE  /\ FlattenSeq(seqs) \in Seq(S) /\ Len(FlattenSeq(seqs)) = start[Len(seqs)]
         /\ \A i \in 1 .. Len(seqs) : \A j \in 1 .. Len(seqs[i]) :
              /\ start[i - 1] + j \in 1 .. start[Len(seqs)]
              /\ FlattenSeq(seqs)[start[i - 1] + j] = seqs[i][j]
<1> DEFINE N == Len(seqs)
<1>1. PICK flatten \in [1 .. N -> Seq(S)] :
           /\ flatten[1] = seqs[1] /\ FlattenSeq(seqs) = flatten[N]
           /\ \A i \in 2 .. N : flatten[i] = flatten[i - 1] \o seqs[i]
  BY Flattening
<1>2. N \in Nat \ {0} /\ \A i \in 1 .. N : seqs[i] \in Seq(S) /\ Len(seqs[i]) \in Nat
  OBVIOUS
<1> HIDE DEF N
<1>3. start[0] = 0 /\ \A i \in 1 .. N : /\ start[i] = start[i - 1] + Len(seqs[i])
                                      /\ start[i] \in Nat /\ start[i - 1] \in Nat
  <2>1. /\ start \in [0 .. N -> Nat] /\ start[0] = 0
        /\ \A i \in 1 .. N : start[i] = start[i - 1] + Len(seqs[i])
    BY DEF Beginning, N
  <2>2. \A i \in 1 .. N : i \in 0 .. N /\ i - 1 \in 0 .. N
    BY <1>2
  <2> QED BY <2>1, <2>2
<1> DEFINE Fact(n) == /\ Len(flatten[n]) = start[n]
                      /\ \A i \in 1 .. n : \A j \in 1 .. Len(seqs[i]) :
                           /\ start[i - 1] + j \in 1 .. start[n]
                           /\ flatten[n][start[i - 1] + j] = seqs[i][j]
           P == {n \in 0 .. N - 1 : Fact(n + 1)}
<1>4. 0 \in P
  <2>1. start[1] = Len(seqs[1]) /\ start[1 - 1] = 0 /\ 1 \in 1 .. N
    BY <1>2, <1>3
  <2>2. Fact(1)
    BY <1>1, <1>2, <2>1
  <2> HIDE DEF Fact
  <2> QED BY <1>2, <2>2
<1>5. ASSUME NEW n \in P, n < N - 1 PROVE n + 1 \in P
  <2> DEFINE m == n + 2
  <2>1. m \in 2 .. N /\ m \in 1 .. N /\ m - 1 \in 1 .. N /\ m - 1 = n + 1 /\ (n + 1) + 1 = m /\ n + 1 \in 0 .. N - 1
    BY <1>2, <1>5
  <2>2. Fact(m - 1)
    BY <1>5, <2>1
  <2> HIDE DEF m
  <2>3. flatten[m] = flatten[m - 1] \o seqs[m] /\ flatten[m - 1] \in Seq(S) /\ seqs[m] \in Seq(S)
    BY <2>1, <1>1, <1>2
  <2>4. start[m] = start[m - 1] + Len(seqs[m]) /\ start[m - 1] \in Nat /\ Len(seqs[m]) \in Nat
    BY <2>1, <1>2, <1>3
  <2>5. /\ Len(flatten[m]) = start[m]
        /\ \A k \in 1 .. start[m - 1] : flatten[m][k] = flatten[m - 1][k]
        /\ \A k \in 1 .. Len(seqs[m]) : flatten[m][start[m - 1] + k] = seqs[m][k]
    <3> DEFINE s == flatten[m - 1]
               t == seqs[m]
    <3>1. s \in Seq(S) /\ t \in Seq(S) /\ Len(s) = start[m - 1] /\ flatten[m] = s \o t
      BY <2>2, <2>3
    <3> HIDE DEF s, t
    <3>2. /\ Len(s \o t) = Len(s) + Len(t)
          /\ \A k \in 1 .. Len(s) + Len(t) :
               (s \o t)[k] = IF k <= Len(s) THEN s[k] ELSE t[k - Len(s)]
      BY <3>1, ConcatProperties
    <3>3. Len(s) \in Nat /\ Len(t) \in Nat
      BY <3>1
    <3>4. \A k \in 1 .. Len(s) : flatten[m][k] = s[k]
      <4> TAKE k \in 1 .. Len(s)
      <4>1. k \in 1 .. Len(s) + Len(t) /\ k <= Len(s)
        BY <3>3
      <4> QED BY <4>1, <3>1, <3>2
    <3>5. \A k \in 1 .. Len(t) : flatten[m][Len(s) + k] = t[k]
      <4> TAKE k \in 1 .. Len(t)
      <4>1. Len(s) + k \in 1 .. Len(s) + Len(t) /\ ~(Len(s) + k <= Len(s)) /\ (Len(s) + k) - Len(s) = k
        BY <3>3
      <4> QED BY <4>1, <3>1, <3>2
    <3> QED BY <3>1, <3>2, <3>3, <3>4, <3>5, <2>4 DEF s, t
  <2>6. ASSUME NEW i \in 1 .. m, NEW j \in 1 .. Len(seqs[i])
        PROVE  /\ start[i - 1] + j \in 1 .. start[m]
               /\ flatten[m][start[i - 1] + j] = seqs[i][j]
    <3>1. CASE i = m
      <4>1. j \in 1 .. Len(seqs[m]) /\ i - 1 = m - 1
        BY <3>1
      <4>2. start[m - 1] + j \in 1 .. start[m]
        BY <4>1, <2>4
      <4> QED BY <4>1, <4>2, <3>1, <2>5
    <3>2. CASE i # m
      <4>1. i \in 1 .. m - 1
        BY <3>2, <2>1, <1>2
      <4>2. start[i - 1] + j \in 1 .. start[m - 1] /\ flatten[m - 1][start[i - 1] + j] = seqs[i][j]
        BY <4>1, <2>2
      <4> DEFINE k == start[i - 1] + j
      <4>3. k \in 1 .. start[m - 1] /\ flatten[m - 1][k] = seqs[i][j]
        BY <4>2
      <4> HIDE DEF k
      <4>4. k \in 1 .. start[m] /\ flatten[m][k] = seqs[i][j]
        BY <4>3, <2>4, <2>5
      <4> QED BY <4>4 DEF k
    <3> QED BY <3>1, <3>2
  <2>7. Fact(m)
    BY <2>5, <2>6
  <2> HIDE DEF Fact
  <2> QED BY <2>1, <2>7
<1> HIDE DEF Fact
<1>6. P = 0 .. N - 1
  <2> HIDE DEF P
  <2>1. P \in SUBSET (0 .. N - 1) /\ N - 1 \in Nat
    BY <1>2 DEF P
  <2> QED BY <1>4, <1>5, <2>1, InductionUpTo
<1>7. Fact(N)
  <2>1. N - 1 \in 0 .. N - 1 /\ (N - 1) + 1 = N
    BY <1>2
  <2>2. N - 1 \in P
    BY <2>1, <1>6
  <2> QED BY <2>1, <2>2
<1>8. FlattenSeq(seqs) = flatten[N] /\ flatten[N] \in Seq(S)
  BY <1>1, <1>2
<1> QED BY <1>7, <1>8 DEF Fact, N

LEMMA BeginningExists ==
  ASSUME NEW S, NEW seqs \in Seq(Seq(S))
  PROVE  \E start : Beginning(start, seqs)
<1> DEFINE N == Len(seqs)
           step == [n \in Nat |-> [x \in Nat |-> IF n + 1 \in 1 .. N THEN x + Len(seqs[n + 1]) ELSE x]]
<1>1. N \in Nat /\ \A i \in 1 .. N : Len(seqs[i]) \in Nat
  OBVIOUS
<1>2. step \in [Nat -> [Nat -> Nat]]
  BY <1>1
<1>3. PICK h \in [Nat -> Nat] : Iterates(h, 0, step)
  <2> HIDE DEF step
  <2> QED BY <1>2, Iteration
<1> DEFINE start == [i \in 0 .. N |-> h[i]]
<1> HIDE DEF N
<1>4. start \in [0 .. N -> Nat] /\ start[0] = 0
  BY <1>1, <1>3 DEF Iterates
<1>5. ASSUME NEW i \in 1 .. N PROVE start[i] = start[i - 1] + Len(seqs[i])
  <2>1. i - 1 \in Nat /\ (i - 1) + 1 = i /\ i \in 0 .. N /\ i - 1 \in 0 .. N
    BY <1>1
  <2>2. h[i] = step[i - 1][h[i - 1]] /\ h[i - 1] \in Nat
    BY <1>3, <2>1 DEF Iterates
  <2> QED BY <2>1, <2>2
<1> HIDE DEF start
<1>6. Beginning(start, seqs)
  BY <1>4, <1>5 DEF Beginning, N
<1> QED BY <1>6

(* Every place of the whole is one of some part.                           *)
LEMMA EveryPlace ==
  ASSUME NEW S, NEW seqs \in Seq(Seq(S)), NEW start, Beginning(start, seqs),
         NEW place \in 1 .. start[Len(seqs)]
  PROVE  \E i \in 1 .. Len(seqs) : \E j \in 1 .. Len(seqs[i]) : place = start[i - 1] + j
<1> DEFINE N == Len(seqs)
           Placed(n) == \A k \in 1 .. start[n] :
                          \E i \in 1 .. n : \E j \in 1 .. Len(seqs[i]) : k = start[i - 1] + j
           P == {n \in 0 .. N : Placed(n)}
<1>1. N \in Nat /\ \A i \in 1 .. N : Len(seqs[i]) \in Nat
  OBVIOUS
<1>2. /\ start \in [0 .. N -> Nat] /\ start[0] = 0
      /\ \A i \in 1 .. N : start[i] = start[i - 1] + Len(seqs[i])
  BY DEF Beginning
<1> HIDE DEF N
<1>3. 0 \in P
  BY <1>1, <1>2
<1>4. ASSUME NEW n \in P, n < N PROVE n + 1 \in P
  <2>1. n + 1 \in 1 .. N /\ n + 1 \in 0 .. N /\ (n + 1) - 1 = n /\ n \in 0 .. N
    BY <1>1, <1>4
  <2>2. start[n + 1] = start[n] + Len(seqs[n + 1]) /\ start[n] \in Nat /\ Len(seqs[n + 1]) \in Nat
    BY <1>1, <1>2, <2>1
  <2>3. ASSUME NEW k \in 1 .. start[n + 1]
        PROVE  \E i \in 1 .. n + 1 : \E j \in 1 .. Len(seqs[i]) : k = start[i - 1] + j
    <3>1. CASE k <= start[n]
      <4>1. k \in 1 .. start[n]
        BY <3>1, <2>2
      <4>2. PICK i \in 1 .. n : \E j \in 1 .. Len(seqs[i]) : k = start[i - 1] + j
        BY <4>1, <1>4
      <4>3. i \in 1 .. n + 1
        BY <2>1
      <4> QED BY <4>2, <4>3
    <3>2. CASE ~(k <= start[n])
      <4>1. k - start[n] \in 1 .. Len(seqs[n + 1]) /\ k = start[n] + (k - start[n])
        BY <3>2, <2>2
      <4>2. n + 1 \in 1 .. n + 1
        BY <2>1
      <4> QED BY <4>1, <4>2, <2>1
    <3> QED BY <3>1, <3>2
  <2> QED BY <2>1, <2>3
<1>5. P = 0 .. N
  <2> HIDE DEF P
  <2>1. P \in SUBSET (0 .. N)
    BY DEF P
  <2> QED BY <1>1, <1>3, <1>4, <2>1, InductionUpTo
<1>6. Placed(N)
  <2>1. N \in P
    BY <1>1, <1>5
  <2> QED BY <2>1
<1> QED BY <1>6 DEF N

-----------------------------------------------------------------------------
(* The blocks of the source files.                                         *)

LEMMA Division ==
  ASSUME NEW n \in Nat, NEW d \in Nat \ {0}
  PROVE  n \div d \in Nat /\ d * (n \div d) <= n /\ n < d * (n \div d) + d
OBVIOUS

LEMMA CeilFacts ==
  ASSUME NEW n \in Nat, NEW d \in Nat \ {0}
  PROVE  /\ Ceil(n, d) \in Nat /\ n <= d * Ceil(n, d)
         /\ n > 0 => Ceil(n, d) > 0
<1> DEFINE q == Ceil(n, d)
<1>1. n + d - 1 \in Nat
  OBVIOUS
<1>2. q \in Nat /\ n + d - 1 < d * q + d
  BY <1>1, Division DEF Ceil
<1> HIDE DEF q
<1>3. d * q \in Nat
  BY <1>2
<1>4. n <= d * q
  BY <1>2, <1>3
<1>5. q = 0 => d * q = 0
  OBVIOUS
<1>6. n > 0 => q > 0
  BY <1>2, <1>4, <1>5
<1> QED BY <1>2, <1>4, <1>6 DEF q

LEMMA Monotone ==
  ASSUME NEW m \in Nat, NEW n \in Nat, m <= n, NEW d \in Nat
  PROVE  m * d \in Nat /\ n * d \in Nat /\ m * d <= n * d
<1>1. PICK k \in Nat : n = m + k
  <2>1. n - m \in Nat /\ n = m + (n - m)
    OBVIOUS
  <2> QED BY <2>1
<1>2. k * d \in Nat /\ m * d \in Nat
  OBVIOUS
<1>3. n * d = m * d + k * d
  BY <1>1
<1> QED BY <1>2, <1>3

LEMMA BlocksCover ==
  ASSUME NEW n \in Nat, NEW d \in Nat \ {0}
  PROVE  /\ n <= Ceil(n, d) * d
         /\ \A k \in Nat : k < Ceil(n, d) => k * d < n
<1> DEFINE q == Ceil(n, d)
<1>1. n + d - 1 \in Nat
  OBVIOUS
<1>2. q \in Nat /\ n <= d * q
  BY CeilFacts
<1>3. d * q <= n + d - 1
  BY <1>1, Division DEF Ceil
<1> HIDE DEF q
<1>4. d * q = q * d
  BY <1>2
<1>5. ASSUME NEW k \in Nat, k < q PROVE k * d < n
  <2>1. k + 1 <= q /\ k + 1 \in Nat
    BY <1>2, <1>5
  <2>2. (k + 1) * d <= q * d
    BY <1>2, <2>1, Monotone
  <2>3. (k + 1) * d = k * d + d /\ k * d \in Nat /\ q * d \in Nat
    BY <1>2
  <2> QED BY <1>3, <1>4, <2>2, <2>3
<1> QED BY <1>2, <1>4, <1>5 DEF q

Words == [1 .. blocksize -> Field]
Ordered == sourcefiles \in SetToSeqs(DOMAIN disk)

(* The states before any packet is made valid.                             *)
Sizing == {"Parse", "CheckBasepath", "Compute"}
Reading == Sizing \union {"OpenSourceFiles", "CreateFiles", "ProcessData"}

(* The sizes, and the files that were opened.                              *)
Shape ==
  /\ ask \in Asks /\ DOMAIN disk = DOMAIN ask.files
  /\ disk \in [DOMAIN disk -> Seq(Field) \ {<<>>}]
  /\ {blocksize, recoveryblockcount, chunksize} \subseteq Nat
  /\ deferhashcomputation \in BOOLEAN
  /\ deferhashcomputation => chunksize = blocksize /\ recoveryblockcount # 0
  /\ pc \in Sizing => sourcefiles = <<>> /\ ~deferhashcomputation
  /\ pc \notin Sizing \union {"Done"} => blocksize # 0
  /\ sourcefiles \in Seq(DOMAIN disk)
  /\ sourcefiles # <<>> => blocksize # 0

(* What is known of the hashes of a file that was opened.                  *)
HashesOf(f) ==
  /\ descriptions[f] = [hash16k |-> descriptions[f].hash16k, hashfull |-> descriptions[f].hashfull]
  /\ verifications[f] \in [1 .. BlockCount(f) -> Words \union {None}]
  /\ contextfull[f] \in Seq(Field)
  /\ ~deferhashcomputation =>
       /\ descriptions[f].hashfull \in Seq(Field)
       /\ verifications[f] \in [1 .. BlockCount(f) -> Words]
       /\ changes = 0 => \A n \in 1 .. BlockCount(f) : verifications[f][n] = ReadData(<<f, n>>, 0, blocksize)

Hashed ==
  /\ {DOMAIN descriptions, DOMAIN verifications, DOMAIN contextfull} \subseteq {ToSet(sourcefiles)}
  /\ verifications = [f \in DOMAIN verifications |-> verifications[f]]
  /\ \A f \in ToSet(sourcefiles) : HashesOf(f)

(* What comes when.                                                        *)
Staged ==
  /\ changes \in Nat
  /\ pc \in {"CreateFiles", "ProcessData", "WriteHeaders", "WriteCriticalPackets"} => Ordered
  /\ pc \in Reading => headers = {} /\ written = 0
  /\ pc = "WriteHeaders" => written = 0
  /\ headers \subseteq 1 .. recoveryblockcount /\ written \in Nat
  /\ pc \in Reading \ {"ProcessData"} => blockoffset = 0 /\ inputblock = 1 /\ sourcefile = 1
                                       /\ sourceindex = 0 /\ outputblock = 1
  /\ pc \in {"CreateFiles", "ProcessData"} =>
       /\ DOMAIN recoverydata = 1 .. recoveryblockcount /\ DOMAIN packetcontext = 1 .. recoveryblockcount
       /\ \A i \in 1 .. recoveryblockcount : recoverydata[i] = [p \in 1 .. blocksize |-> recoverydata[i][p]]
  /\ pc = "CreateFiles" => \A i \in 1 .. recoveryblockcount : packetcontext[i] = <<>>

(* The contents of the files one after the other.                          *)
Joined(order, content) == FlattenSeq([i \in DOMAIN order |-> content[order[i]]])
StartsAt(start, order, content) ==
  /\ start \in [0 .. Len(order) -> Nat] /\ start[0] = 0
  /\ \A i \in 1 .. Len(order) : start[i] = start[i - 1] + Len(content[order[i]])

(* The cursors point at the same block.                                    *)
BlocksOf == [f \in DOMAIN disk |-> [n \in 1 .. BlockCount(f) |-> <<f, n>>]]
CursorAt(start, block, file, index) ==
  /\ block = start[file - 1] + index + 1
  /\ file \in 1 .. Len(sourcefiles) + 1 /\ index \in Nat
  /\ file <= Len(sourcefiles) => index < BlockCount(sourcefiles[file])
  /\ file > Len(sourcefiles) => index = 0
CursorsAgree ==
  pc = "ProcessData" =>
    \E start : /\ StartsAt(start, sourcefiles, BlocksOf)
              /\ CursorAt(start, inputblock, sourcefile, sourceindex)

(* How much of a recovery block is on disk.                                *)
Stored(i) == blockoffset + IF i < outputblock THEN ChunkLength ELSE 0

(* A pass over the blocks.                                                 *)
Passing ==
  pc = "ProcessData" =>
    /\ blockoffset \in 0 .. blocksize - 1 /\ (deferhashcomputation => blockoffset = 0)
    /\ inputblock \in 1 .. Len(SourceBlocks) + 1 /\ outputblock \in 1 .. recoveryblockcount + 1
    /\ outputblock > 1 => inputblock = Len(SourceBlocks) + 1
    /\ DOMAIN outputbuffer = 1 .. recoveryblockcount
    /\ \A i \in 1 .. recoveryblockcount :
         /\ outputbuffer[i] = [p \in 1 .. ChunkLength |-> outputbuffer[i][p]]
         /\ packetcontext[i] = [p \in 1 .. Stored(i) |-> recoverydata[i][p]]
    /\ \A k \in 1 .. inputblock - 1 : Described[k] \in Words

(* h has the sums of the first n blocks, or of fewer, in row i.            *)
AddTo(factor, word, sum) == IF factor = 0 THEN sum ELSE Plus[sum][LongTimes(factor, word)]
Summing(h, row, inputs, size, n) ==
  /\ h[0] = Zeros(size)
  /\ \A k \in 1 .. n : h[k] = [p \in 1 .. size |-> AddTo(row[k], inputs[k][p], h[k - 1][p])]
Row(i) == [k \in 1 .. Len(SourceBlocks) |-> matrix[<<i, k>>]]

(* The hashes of the blocks are of what was read for the recovery data.    *)
ReadAsHashed == deferhashcomputation \/ changes = 0
SummedUp(i, h) ==
  /\ Summing(h, Row(i), Described, blocksize,
             IF deferhashcomputation THEN inputblock - 1 ELSE Len(SourceBlocks))
  /\ \A p \in 1 .. ChunkLength : outputbuffer[i][p] = h[inputblock - 1][blockoffset + p]
  /\ \A p \in 1 .. Stored(i) : recoverydata[i][p] = h[Len(SourceBlocks)][p]
SumsTrue ==
  (pc = "ProcessData" /\ ReadAsHashed) =>
    \A i \in 1 .. recoveryblockcount : \E h : SummedUp(i, h)

(* The recovery data is complete before its header is written.             *)
DataWritten ==
  (pc = "WriteHeaders" \/ headers # {}) =>
    \A i \in 1 .. recoveryblockcount :
      /\ packetcontext[i] = recoverydata[i]
      /\ ReadAsHashed => recoverydata[i] = Output(matrix, i, Described)

(* The hashes are complete before a critical packet is written.            *)
AllRead == \A f \in DOMAIN disk : verifications[f] \in [1 .. BlockCount(f) -> Words]
HashesDone ==
  /\ pc = "WriteHeaders" => AllRead
  /\ (pc = "WriteCriticalPackets" \/ written > 0) =>
       AllRead /\ Ordered /\ \A f \in DOMAIN disk : descriptions[f].hashfull \in Seq(Field)

IInv == Shape /\ Hashed /\ Staged /\ CursorsAgree /\ Passing /\ SumsTrue /\ DataWritten /\ HashesDone

-----------------------------------------------------------------------------
(* The order of the files, and of the blocks in them.                      *)

LEMMA OrderFacts ==
  ASSUME NEW S, IsFiniteSet(S), NEW order \in SetToSeqs(S)
  PROVE  /\ order \in Seq(S) /\ Len(order) = Cardinality(S) /\ ToSet(order) = S
         /\ \A i, j \in 1 .. Len(order) : order[i] = order[j] => i = j
<1> DEFINE N == Cardinality(S)
           D == 1 .. N
<1>1. N \in Nat
  BY FS_CardinalityType
<1>2. order \in [D -> S] /\ \A i, j \in D : i # j => order[i] # order[j]
  BY DEF SetToSeqs
<1> HIDE DEF N
<1>3. order \in Seq(S) /\ Len(order) = N
  BY <1>1, <1>2
<1>4. Cardinality(D) = N
  BY <1>1, FS_Interval
<1>5. order \in Injection(D, S)
  BY <1>2 DEF Injection, IsInjective
<1>6. order \in Surjection(D, S)
  <2> HIDE DEF D
  <2> QED BY <1>4, <1>5, FS_Injection DEF N
<1>7. \A x \in S : \E i \in D : order[i] = x
  BY <1>6 DEF Surjection
<1>8. ToSet(order) = S
  BY <1>2, <1>7 DEF ToSet
<1> QED BY <1>2, <1>3, <1>8 DEF N

LaidOut(whole, start, order, content) ==
  /\ Len(whole) = start[Len(order)]
  /\ \A i \in 1 .. Len(order) : \A n \in 1 .. Len(content[order[i]]) :
       /\ start[i - 1] + n \in 1 .. start[Len(order)]
       /\ whole[start[i - 1] + n] = content[order[i]][n]
  /\ \A k \in 1 .. start[Len(order)] :
       \E i \in 1 .. Len(order) : \E n \in 1 .. Len(content[order[i]]) : k = start[i - 1] + n

LEMMA JoinedFacts ==
  ASSUME NEW F, NEW V, NEW order \in Seq(F), Len(order) > 0,
         NEW content \in [F -> Seq(V)], NEW start, StartsAt(start, order, content)
  PROVE  /\ Joined(order, content) \in Seq(V)
         /\ LaidOut(Joined(order, content), start, order, content)
<1> DEFINE seqs == [i \in DOMAIN order |-> content[order[i]]]
<1>1. Len(order) \in Nat /\ DOMAIN order = 1 .. Len(order) /\ \A i \in 1 .. Len(order) : order[i] \in F
  OBVIOUS
<1>2. \A i \in 1 .. Len(order) : seqs[i] = content[order[i]] /\ seqs[i] \in Seq(V)
  BY <1>1
<1>3. seqs \in [1 .. Len(order) -> Seq(V)]
  BY <1>1, <1>2
<1> HIDE DEF seqs
<1>4. seqs \in Seq(Seq(V)) /\ Len(seqs) = Len(order)
  <2> DEFINE U == Seq(V)
             n == Len(order)
  <2>1. n \in Nat /\ seqs \in [1 .. n -> U]
    BY <1>1, <1>3
  <2> HIDE DEF U, n
  <2>2. seqs \in Seq(U) /\ Len(seqs) = n
    BY <2>1
  <2> QED BY <2>2 DEF U, n
<1>5. Beginning(start, seqs)
  BY <1>2, <1>4 DEF Beginning, StartsAt
<1>6. /\ FlattenSeq(seqs) \in Seq(V) /\ Len(FlattenSeq(seqs)) = start[Len(seqs)]
      /\ \A i \in 1 .. Len(seqs) : \A j \in 1 .. Len(seqs[i]) :
              /\ start[i - 1] + j \in 1 .. start[Len(seqs)]
              /\ FlattenSeq(seqs)[start[i - 1] + j] = seqs[i][j]
  BY <1>4, <1>5, FlattenFacts
<1>7. \A k \in 1 .. start[Len(seqs)] :
        \E i \in 1 .. Len(seqs) : \E j \in 1 .. Len(seqs[i]) : k = start[i - 1] + j
  BY <1>4, <1>5, EveryPlace
<1>8. Joined(order, content) = FlattenSeq(seqs)
  BY DEF Joined, seqs
<1> DEFINE whole == Joined(order, content)
<1>9. whole = FlattenSeq(seqs) /\ Len(seqs) = Len(order)
  BY <1>4, <1>8
<1>10. ASSUME NEW i \in 1 .. Len(order), NEW n \in 1 .. Len(content[order[i]])
       PROVE  /\ start[i - 1] + n \in 1 .. start[Len(order)]
              /\ whole[start[i - 1] + n] = content[order[i]][n]
  <2>1. i \in 1 .. Len(seqs) /\ n \in 1 .. Len(seqs[i]) /\ seqs[i] = content[order[i]]
    BY <1>2, <1>9
  <2>2. /\ start[i - 1] + n \in 1 .. start[Len(seqs)]
        /\ FlattenSeq(seqs)[start[i - 1] + n] = seqs[i][n]
    BY <2>1, <1>6
  <2> QED BY <2>1, <2>2, <1>9
<1>11. ASSUME NEW k \in 1 .. start[Len(order)]
       PROVE  \E i \in 1 .. Len(order) : \E n \in 1 .. Len(content[order[i]]) : k = start[i - 1] + n
  <2>1. PICK i \in 1 .. Len(seqs) : \E n \in 1 .. Len(seqs[i]) : k = start[i - 1] + n
    BY <1>7, <1>9
  <2> QED BY <2>1, <1>2, <1>9
<1>12. whole \in Seq(V) /\ Len(whole) = start[Len(order)]
  BY <1>6, <1>9
<1> QED BY <1>10, <1>11, <1>12 DEF LaidOut

LEMMA StartsExist ==
  ASSUME NEW F, NEW V, NEW order \in Seq(F), NEW content \in [F -> Seq(V)]
  PROVE  \E start : StartsAt(start, order, content)
<1> DEFINE seqs == [i \in DOMAIN order |-> content[order[i]]]
<1>1. Len(order) \in Nat /\ DOMAIN order = 1 .. Len(order) /\ \A i \in 1 .. Len(order) : order[i] \in F
  OBVIOUS
<1>2. \A i \in 1 .. Len(order) : seqs[i] = content[order[i]] /\ seqs[i] \in Seq(V)
  BY <1>1
<1>3. seqs \in [1 .. Len(order) -> Seq(V)]
  BY <1>1, <1>2
<1> HIDE DEF seqs
<1>4. seqs \in Seq(Seq(V)) /\ Len(seqs) = Len(order)
  <2> DEFINE U == Seq(V)
             n == Len(order)
  <2>1. n \in Nat /\ seqs \in [1 .. n -> U]
    BY <1>1, <1>3
  <2> HIDE DEF U, n
  <2>2. seqs \in Seq(U) /\ Len(seqs) = n
    BY <2>1
  <2> QED BY <2>2 DEF U, n
<1>5. PICK start : Beginning(start, seqs)
  BY <1>4, BeginningExists
<1>6. StartsAt(start, order, content)
  BY <1>2, <1>4, <1>5 DEF Beginning, StartsAt
<1> QED BY <1>6

LEMMA BlockCounts ==
  ASSUME Shape, blocksize # 0
  PROVE  /\ IsFiniteSet(DOMAIN disk) /\ DOMAIN disk # {}
         /\ \A f \in DOMAIN disk : BlockCount(f) \in Nat \ {0} /\ Len(disk[f]) \in Nat \ {0}
<1>1. IsFiniteSet(DOMAIN disk) /\ DOMAIN disk # {}
  BY CreatorAssumption DEF Shape
<1>2. ASSUME NEW f \in DOMAIN disk PROVE BlockCount(f) \in Nat \ {0} /\ Len(disk[f]) \in Nat \ {0}
  <2>1. disk[f] \in Seq(Field) /\ disk[f] # <<>>
    BY DEF Shape
  <2>2. Len(disk[f]) \in Nat /\ Len(disk[f]) # 0
    BY <2>1
  <2>3. blocksize \in Nat \ {0}
    BY DEF Shape
  <2> DEFINE n == Len(disk[f])
  <2>4. n \in Nat /\ n > 0
    BY <2>2
  <2> HIDE DEF n
  <2>5. Ceil(n, blocksize) \in Nat /\ Ceil(n, blocksize) > 0
    BY <2>3, <2>4, CeilFacts
  <2> QED BY <2>2, <2>5 DEF BlockCount, n
<1> QED BY <1>1, <1>2

(* The blocks that are read, the hashes of them, and the place of each.    *)
Listed(start) ==
  /\ Len(sourcefiles) \in Nat \ {0} /\ ToSet(sourcefiles) = DOMAIN disk
  /\ \A i \in 1 .. Len(sourcefiles) :
       /\ sourcefiles[i] \in DOMAIN disk
       /\ start[i] = start[i - 1] + BlockCount(sourcefiles[i])
       /\ start[i] \in Nat /\ start[i - 1] \in Nat /\ start[0] = 0
       /\ BlockCount(sourcefiles[i]) \in Nat \ {0}
       /\ \A j \in 1 .. Len(sourcefiles) : sourcefiles[i] = sourcefiles[j] => i = j
       /\ \A n \in 1 .. BlockCount(sourcefiles[i]) :
            /\ start[i - 1] + n \in 1 .. Len(SourceBlocks)
            /\ SourceBlocks[start[i - 1] + n] = <<sourcefiles[i], n>>
            /\ Described[start[i - 1] + n] = verifications[sourcefiles[i]][n]
  /\ Len(SourceBlocks) \in Nat \ {0} /\ Len(SourceBlocks) = start[Len(sourcefiles)]
  /\ Len(Described) = Len(SourceBlocks)
  /\ DOMAIN Described = 1 .. Len(SourceBlocks)
  /\ \A k \in 1 .. Len(SourceBlocks) :
       \E i \in 1 .. Len(sourcefiles) : \E n \in 1 .. BlockCount(sourcefiles[i]) :
         k = start[i - 1] + n

LEMMA Listing ==
  ASSUME Shape, Hashed, Ordered, blocksize # 0,
         NEW start, StartsAt(start, sourcefiles, BlocksOf)
  PROVE  Listed(start)
<1> DEFINE F == DOMAIN disk
           N == Len(sourcefiles)
           V == Words \union {None}
<1>1. /\ IsFiniteSet(F) /\ F # {} /\ \A f \in F : BlockCount(f) \in Nat \ {0}
  BY BlockCounts
<1>2. /\ sourcefiles \in Seq(F) /\ N = Cardinality(F) /\ ToSet(sourcefiles) = F
      /\ \A i, j \in 1 .. N : sourcefiles[i] = sourcefiles[j] => i = j
  BY <1>1, OrderFacts DEF Ordered
<1>3. N \in Nat \ {0} /\ DOMAIN sourcefiles = 1 .. N /\ \A i \in 1 .. N : sourcefiles[i] \in F
  BY <1>1, <1>2, FS_CardinalityType, FS_EmptySet
<1>4. \A f \in F : /\ BlocksOf[f] \in Seq(F \X Nat) /\ Len(BlocksOf[f]) = BlockCount(f)
                   /\ \A n \in 1 .. BlockCount(f) : BlocksOf[f][n] = <<f, n>>
  <2> TAKE f \in F
  <2>1. BlocksOf[f] = [n \in 1 .. BlockCount(f) |-> <<f, n>>] /\ BlockCount(f) \in Nat
    BY <1>1 DEF BlocksOf
  <2>2. BlocksOf[f] \in [1 .. BlockCount(f) -> F \X Nat]
    BY <2>1
  <2> QED BY <2>1, <2>2
<1>5. \A f \in F : verifications[f] \in Seq(V) /\ Len(verifications[f]) = BlockCount(f)
  <2> TAKE f \in F
  <2>1. verifications[f] \in [1 .. BlockCount(f) -> V] /\ BlockCount(f) \in Nat
    BY <1>1, <1>2 DEF Hashed, HashesOf
  <2> HIDE DEF V
  <2> QED BY <2>1
<1>6. SourceBlocks = Joined(sourcefiles, BlocksOf)
  <2>1. \A i \in DOMAIN sourcefiles :
          BlocksOf[sourcefiles[i]] = [n \in 1 .. BlockCount(sourcefiles[i]) |-> <<sourcefiles[i], n>>]
    BY <1>3 DEF BlocksOf
  <2>2. [i \in DOMAIN sourcefiles |-> [n \in 1 .. BlockCount(sourcefiles[i]) |-> <<sourcefiles[i], n>>]]
          = [i \in DOMAIN sourcefiles |-> BlocksOf[sourcefiles[i]]]
    BY <2>1
  <2> QED BY <2>2 DEF SourceBlocks, Joined
<1>7. Described = Joined(sourcefiles, verifications)
  BY DEF Described, Joined
<1>8. StartsAt(start, sourcefiles, verifications)
  BY <1>3, <1>4, <1>5 DEF StartsAt
<1> HIDE DEF F, V, N
<1>9. /\ SourceBlocks \in Seq(F \X Nat) /\ Len(SourceBlocks) = start[N]
      /\ \A i \in 1 .. N : \A n \in 1 .. Len(BlocksOf[sourcefiles[i]]) :
           /\ start[i - 1] + n \in 1 .. start[N]
           /\ SourceBlocks[start[i - 1] + n] = BlocksOf[sourcefiles[i]][n]
      /\ \A k \in 1 .. start[N] :
           \E i \in 1 .. N : \E n \in 1 .. Len(BlocksOf[sourcefiles[i]]) : k = start[i - 1] + n
  <2>1. Len(sourcefiles) > 0
    BY <1>3 DEF N
  <2> DEFINE content == BlocksOf
             U == F \X Nat
  <2>2. content \in [F -> Seq(U)]
    BY <1>4 DEF BlocksOf, F
  <2> HIDE DEF content, U
  <2>3. StartsAt(start, sourcefiles, content)
    BY DEF content
  <2>4. /\ Joined(sourcefiles, content) \in Seq(U)
        /\ LaidOut(Joined(sourcefiles, content), start, sourcefiles, content)
    BY <1>2, <2>1, <2>2, <2>3, JoinedFacts
  <2> QED BY <2>4, <1>6 DEF content, U, N, LaidOut
<1>10. /\ Described \in Seq(V) /\ Len(Described) = start[N]
       /\ \A i \in 1 .. N : \A n \in 1 .. Len(verifications[sourcefiles[i]]) :
            Described[start[i - 1] + n] = verifications[sourcefiles[i]][n]
  <2>1. Len(sourcefiles) > 0
    BY <1>3 DEF N
  <2>2. verifications \in [F -> Seq(V)]
    BY <1>2, <1>5 DEF Hashed, F
  <2>3. /\ Joined(sourcefiles, verifications) \in Seq(V)
        /\ LaidOut(Joined(sourcefiles, verifications), start, sourcefiles, verifications)
    BY <1>2, <1>8, <2>1, <2>2, JoinedFacts
  <2> QED BY <2>3, <1>7 DEF N, LaidOut
<1>11. start[0] = 0 /\ \A i \in 1 .. N : /\ start[i] = start[i - 1] + BlockCount(sourcefiles[i])
                                        /\ start[i] \in Nat /\ start[i - 1] \in Nat
  <2>1. /\ start \in [0 .. N -> Nat] /\ start[0] = 0
        /\ \A i \in 1 .. N : start[i] = start[i - 1] + Len(BlocksOf[sourcefiles[i]])
    BY DEF StartsAt, N
  <2>2. \A i \in 1 .. N : i \in 0 .. N /\ i - 1 \in 0 .. N
    BY <1>3
  <2> QED BY <2>1, <2>2, <1>3, <1>4
<1>12. ASSUME NEW i \in 1 .. N
       PROVE  \A n \in 1 .. BlockCount(sourcefiles[i]) :
                /\ start[i - 1] + n \in 1 .. Len(SourceBlocks)
                /\ SourceBlocks[start[i - 1] + n] = <<sourcefiles[i], n>>
                /\ Described[start[i - 1] + n] = verifications[sourcefiles[i]][n]
  BY <1>3, <1>4, <1>5, <1>9, <1>10
<1>13. Len(SourceBlocks) \in Nat \ {0}
  <2>1. 1 \in 1 .. BlockCount(sourcefiles[1]) /\ 1 \in 1 .. N
    BY <1>1, <1>3
  <2>2. start[1 - 1] + 1 \in 1 .. Len(SourceBlocks)
    BY <2>1, <1>12
  <2>3. Len(SourceBlocks) \in Nat
    BY <1>9
  <2> QED BY <2>2, <2>3
<1>14. \A k \in 1 .. Len(SourceBlocks) :
         \E i \in 1 .. N : \E n \in 1 .. BlockCount(sourcefiles[i]) : k = start[i - 1] + n
  <2> TAKE k \in 1 .. Len(SourceBlocks)
  <2>1. PICK i \in 1 .. N : \E n \in 1 .. Len(BlocksOf[sourcefiles[i]]) : k = start[i - 1] + n
    BY <1>9
  <2> QED BY <2>1, <1>3, <1>4
<1>15. Len(Described) = Len(SourceBlocks) /\ DOMAIN Described = 1 .. Len(SourceBlocks)
  BY <1>9, <1>10
<1>16. \A i \in 1 .. N : BlockCount(sourcefiles[i]) \in Nat \ {0}
  BY <1>1, <1>3
<1> QED BY <1>2, <1>3, <1>9, <1>11, <1>12, <1>13, <1>14, <1>15, <1>16 DEF F, N, Listed

-----------------------------------------------------------------------------
(* Sums of blocks.                                                         *)

LEMMA SummingExists ==
  ASSUME NEW n \in Nat, NEW row, NEW inputs, NEW size
  PROVE  \E h : Summing(h, row, inputs, size, n)
<1> DEFINE P == {m \in Nat : \E h : Summing(h, row, inputs, size, m)}
<1>1. 0 \in P
  <2>1. Summing([k \in {0} |-> Zeros(size)], row, inputs, size, 0)
    BY DEF Summing
  <2> QED BY <2>1
<1>2. ASSUME NEW m \in P PROVE m + 1 \in P
  <2>1. PICK h : Summing(h, row, inputs, size, m)
    BY <1>2
  <2> DEFINE next == [p \in 1 .. size |-> AddTo(row[m + 1], inputs[m + 1][p], h[m][p])]
             g == [k \in 0 .. m + 1 |-> IF k = m + 1 THEN next ELSE h[k]]
  <2>2. m \in Nat /\ m + 1 \in Nat
    OBVIOUS
  <2>3. g[0] = Zeros(size)
    BY <2>1, <2>2 DEF Summing
  <2>4. ASSUME NEW k \in 1 .. m + 1
        PROVE  g[k] = [p \in 1 .. size |-> AddTo(row[k], inputs[k][p], g[k - 1][p])]
    <3>1. k - 1 \in 0 .. m + 1 /\ k \in 0 .. m + 1 /\ k - 1 # m + 1
      BY <2>2
    <3>2. g[k - 1] = h[k - 1]
      BY <3>1
    <3>3. CASE k = m + 1
      <4>1. k - 1 = m
        BY <3>3, <2>2
      <4> QED BY <3>1, <3>2, <3>3, <4>1
    <3>4. CASE k # m + 1
      <4>1. k \in 1 .. m /\ g[k] = h[k]
        BY <3>1, <3>4, <2>2
      <4> QED BY <4>1, <3>2, <2>1 DEF Summing
    <3> QED BY <3>3, <3>4
  <2> HIDE DEF g
  <2>5. Summing(g, row, inputs, size, m + 1)
    BY <2>3, <2>4 DEF Summing
  <2> QED BY <2>2, <2>5
<1>3. P = Nat
  <2> HIDE DEF P
  <2>1. P \in SUBSET Nat
    BY DEF P
  <2> QED BY <1>1, <1>2, <2>1, Induction
<1> QED BY <1>3

(* Sums is defined, and what Output returns is the last of them.           *)
IsRow(row, m, i, n) == \A k \in 1 .. n : row[k] = m[<<i, k>>]

LEMMA OutputIsSum ==
  ASSUME NEW m, NEW i, NEW inputs, Len(inputs) \in Nat, NEW size, DOMAIN inputs[1] = 1 .. size,
         NEW row, IsRow(row, m, i, Len(inputs)),
         NEW h, Summing(h, row, inputs, size, Len(inputs))
  PROVE  Output(m, i, inputs) = h[Len(inputs)]
<1> DEFINE N == Len(inputs)
           zeros == [p \in 1 .. size |-> 0]
           Right(g) == g = [n \in 0 .. N |-> IF n = 0 THEN [p \in DOMAIN inputs[1] |-> 0]
                                             ELSE Process(m[<<i, n>>], inputs[n], g[n - 1])]
           g == [n \in 0 .. N |-> h[n]]
           f == CHOOSE f : Right(f)
<1>1. N \in Nat
  OBVIOUS
<1>2. h[0] = zeros /\ h[0] = [p \in 1 .. size |-> h[0][p]]
  BY DEF Summing, Zeros
<1>3. ASSUME NEW n \in 1 .. N
      PROVE  /\ h[n] = [p \in 1 .. size |-> AddTo(m[<<i, n>>], inputs[n][p], h[n - 1][p])]
             /\ h[n] = [p \in 1 .. size |-> h[n][p]]
  <2> HIDE DEF N
  <2>1. h[n] = [p \in 1 .. size |-> AddTo(row[n], inputs[n][p], h[n - 1][p])]
    BY DEF Summing, N
  <2>2. row[n] = m[<<i, n>>]
    BY DEF N, IsRow
  <2> QED BY <2>1, <2>2
<1>4. ASSUME NEW n \in 1 .. N PROVE h[n] = Process(m[<<i, n>>], inputs[n], h[n - 1])
  <2>1. n = 1 \/ n - 1 \in 1 .. N
    BY <1>1
  <2>2. h[n - 1] = [p \in 1 .. size |-> h[n - 1][p]]
    <3>1. CASE n = 1
      <4>1. n - 1 = 0
        BY <3>1
      <4> QED BY <4>1, <1>2
    <3>2. CASE n - 1 \in 1 .. N
      <4> DEFINE k == n - 1
      <4>1. k \in 1 .. N
        BY <3>2
      <4> HIDE DEF k, N
      <4>2. h[k] = [p \in 1 .. size |-> h[k][p]]
        BY <4>1, <1>3
      <4> QED BY <4>2 DEF k
    <3> QED BY <2>1, <3>1, <3>2
  <2> DEFINE output == h[n - 1]
             factor == m[<<i, n>>]
             word == inputs[n]
  <2>3. output = [p \in 1 .. size |-> output[p]]
    BY <2>2
  <2>4. h[n] = [p \in 1 .. size |-> AddTo(factor, word[p], output[p])]
    BY <1>3
  <2> HIDE DEF output, factor, word
  <2>5. Process(factor, word, output) = [p \in 1 .. size |-> AddTo(factor, word[p], output[p])]
    BY <2>3 DEF Process, AddTo
  <2>6. h[n] = Process(factor, word, output)
    BY <2>4, <2>5
  <2> QED BY <2>6 DEF factor, word, output
<1> HIDE DEF N
<1>5. Right(g)
  <2>1. ASSUME NEW n \in 0 .. N
        PROVE  g[n] = IF n = 0 THEN [p \in DOMAIN inputs[1] |-> 0] ELSE Process(m[<<i, n>>], inputs[n], g[n - 1])
    <3>1. CASE n = 0
      BY <3>1, <1>2
    <3>2. CASE n # 0
      <4>1. n \in 1 .. N /\ n - 1 \in 0 .. N
        BY <3>2, <1>1
      <4> QED BY <3>2, <4>1, <1>4
    <3> QED BY <3>1, <3>2
  <2> QED BY <2>1
<1>6. Right(f)
  <2> HIDE DEF Right, g
  <2> QED BY <1>5
<1>7. Output(m, i, inputs) = f[N]
  BY DEF Output, Sums, N
<1> HIDE DEF f
<1>8. f[0] = h[0] /\ \A n \in 1 .. N : f[n] = Process(m[<<i, n>>], inputs[n], f[n - 1])
  <2>1. \A n \in 0 .. N :
          f[n] = IF n = 0 THEN [p \in DOMAIN inputs[1] |-> 0] ELSE Process(m[<<i, n>>], inputs[n], f[n - 1])
    BY <1>6
  <2>2. 0 \in 0 .. N /\ \A n \in 1 .. N : n \in 0 .. N /\ n # 0
    BY <1>1
  <2> QED BY <2>1, <2>2, <1>2
<1> DEFINE P == {n \in 0 .. N : f[n] = h[n]}
<1>9. P = 0 .. N
  <2>1. 0 \in P
    BY <1>1, <1>8
  <2>2. ASSUME NEW n \in P, n < N PROVE n + 1 \in P
    <3>1. n + 1 \in 1 .. N /\ (n + 1) - 1 = n /\ n + 1 \in 0 .. N
      BY <2>2, <1>1
    <3> QED BY <3>1, <2>2, <1>4, <1>8
  <2> HIDE DEF P
  <2>3. P \in SUBSET (0 .. N)
    BY DEF P
  <2> QED BY <1>1, <2>1, <2>2, <2>3, InductionUpTo
<1>10. N \in P
  BY <1>1, <1>9
<1> QED BY <1>7, <1>10 DEF N

-----------------------------------------------------------------------------
(* The sizes that the command line computes.                               *)

(* What is defined by its values on what is smaller is defined: step makes *)
(* a better approximation of each function.                                *)
Agree(f, g, D, size, n) == \A y \in D : size[y] < n => f[y] = g[y]
Solves(h, step) == h = step[h]
Approximates(step, D, S, size) ==
  \A f, g \in [D -> S] : \A x \in D : Agree(f, g, D, size, size[x]) => step[f][x] = step[g][x]

LEMMA Recursion ==
  ASSUME NEW D, NEW S, NEW base \in [D -> S], NEW size \in [D -> Nat],
         NEW step \in [[D -> S] -> [D -> S]], Approximates(step, D, S, size)
  PROVE  \E h \in [D -> S] : Solves(h, step)
<1> DEFINE Funs == [D -> S]
           steps == [n \in Nat |-> step]
<1>1. PICK H \in [Nat -> Funs] : H[0] = base /\ \A n \in Nat : H[n + 1] = step[H[n]]
  <2>1. base \in Funs /\ steps \in [Nat -> [Funs -> Funs]] /\ \A n \in Nat : steps[n] = step
    OBVIOUS
  <2> HIDE DEF Funs, steps
  <2>2. PICK H \in [Nat -> Funs] : Iterates(H, base, steps)
    BY <2>1, Iteration
  <2>3. H[0] = base /\ \A n \in Nat : H[n + 1] = step[H[n]]
    BY <2>1, <2>2 DEF Iterates
  <2> QED BY <2>3
<1>2. \A x \in D : size[x] \in Nat
  OBVIOUS
<1>3. \A n \in Nat : H[n] \in [D -> S]
  OBVIOUS
<1> DEFINE P == {n \in Nat : Agree(H[n + 1], H[n], D, size, n)}
<1>4. P = Nat
  <2>1. 0 \in P
    BY <1>2 DEF Agree
  <2>2. ASSUME NEW n \in P PROVE n + 1 \in P
    <3>1. n \in Nat /\ n + 1 \in Nat
      OBVIOUS
    <3>2. ASSUME NEW x \in D, size[x] < n + 1 PROVE H[(n + 1) + 1][x] = H[n + 1][x]
      <4>1. Agree(H[n + 1], H[n], D, size, size[x])
        <5>1. \A y \in D : size[y] < size[x] => size[y] < n
          BY <1>2, <3>1, <3>2
        <5> QED BY <5>1, <2>2 DEF Agree
      <4>2. H[n + 1] \in [D -> S] /\ H[n] \in [D -> S]
        BY <3>1, <1>3
      <4>3. step[H[n + 1]][x] = step[H[n]][x]
        BY <4>1, <4>2 DEF Approximates
      <4> QED BY <4>3, <1>1, <3>1
    <3> QED BY <3>1, <3>2 DEF Agree
  <2> HIDE DEF P
  <2>3. P \in SUBSET Nat
    BY DEF P
  <2> QED BY <2>1, <2>2, <2>3, Induction
<1>5. ASSUME NEW n \in Nat, NEW x \in D, size[x] < n PROVE H[n + 1][x] = H[n][x]
  <2>1. n \in P
    BY <1>4
  <2> QED BY <2>1, <1>5 DEF Agree
<1> HIDE DEF P
<1>6. ASSUME NEW x \in D, NEW m \in Nat, size[x] < m PROVE H[m][x] = H[size[x] + 1][x]
  <2> DEFINE n == size[x] + 1
             Q == {k \in Nat : H[n + k][x] = H[n][x]}
  <2>1. n \in Nat /\ size[x] < n
    BY <1>2
  <2>2. m - n \in Nat /\ n + (m - n) = m
    BY <1>2, <1>6
  <2> HIDE DEF n
  <2>3. 0 \in Q
    BY <2>1
  <2>4. ASSUME NEW k \in Q PROVE k + 1 \in Q
    <3>1. k \in Nat /\ n + k \in Nat /\ size[x] < n + k /\ n + (k + 1) = (n + k) + 1
      BY <2>1, <1>2
    <3>2. H[(n + k) + 1][x] = H[n + k][x]
      BY <3>1, <1>5
    <3> QED BY <3>1, <3>2
  <2>5. Q = Nat
    <3> HIDE DEF Q
    <3>1. Q \in SUBSET Nat
      BY DEF Q
    <3> QED BY <2>3, <2>4, <3>1, Induction
  <2>6. m - n \in Q
    BY <2>2, <2>5
  <2> QED BY <2>2, <2>6 DEF n
<1> DEFINE h == [x \in D |-> H[size[x] + 1][x]]
<1>7. h \in [D -> S]
  BY <1>2, <1>3
<1>8. ASSUME NEW x \in D PROVE h[x] = step[h][x]
  <2>1. Agree(h, H[size[x]], D, size, size[x])
    <3>1. ASSUME NEW y \in D, size[y] < size[x] PROVE h[y] = H[size[x]][y]
      BY <3>1, <1>2, <1>6
    <3> QED BY <3>1 DEF Agree
  <2>2. h[x] = step[H[size[x]]][x]
    BY <1>1, <1>2
  <2> HIDE DEF h
  <2> QED BY <2>1, <2>2, <1>2, <1>3, <1>7 DEF Approximates
<1>9. h = step[h]
  <2> HIDE DEF h
  <2>1. step[h] \in [D -> S]
    BY <1>7
  <2> QED BY <2>1, <1>7, <1>8
<1> QED BY <1>7, <1>9 DEF Solves

(* A sum over a finite set of numbers.                                     *)
Some(s) == CHOOSE x \in s : TRUE
Adding(h, T, g) == \A s \in SUBSET T : h[s] = IF s = {} THEN 0 ELSE g[Some(s)] + h[s \ {Some(s)}]
AddsUp(h, T, g) == h = [s \in SUBSET T |-> IF s = {} THEN 0 ELSE g[Some(s)] + h[s \ {Some(s)}]]

LEMMA SmallerSet ==
  ASSUME NEW T, IsFiniteSet(T), NEW s \in SUBSET T, s # {}
  PROVE  /\ Some(s) \in T /\ s \ {Some(s)} \in SUBSET T
         /\ Cardinality(s) \in Nat /\ Cardinality(s \ {Some(s)}) \in Nat
         /\ Cardinality(s \ {Some(s)}) < Cardinality(s)
<1>1. Some(s) \in s
  BY DEF Some
<1>2. IsFiniteSet(s) /\ Cardinality(s) \in Nat
  BY FS_Subset, FS_CardinalityType
<1>3. /\ IsFiniteSet(s \ {Some(s)}) /\ Cardinality(s \ {Some(s)}) = Cardinality(s) - 1
  BY <1>1, <1>2, FS_RemoveElement
<1>4. Cardinality(s \ {Some(s)}) \in Nat
  BY <1>3, FS_CardinalityType
<1> QED BY <1>1, <1>2, <1>3, <1>4

LEMMA SumDefined ==
  ASSUME NEW T, IsFiniteSet(T), NEW g \in [T -> Nat]
  PROVE  \E h : AddsUp(h, T, g)
<1> DEFINE D == SUBSET T
           size == [s \in D |-> Cardinality(s)]
           base == [s \in D |-> 0]
           step == [f \in [D -> Nat] |->
                     [s \in D |-> IF s = {} THEN 0 ELSE g[Some(s)] + f[s \ {Some(s)}]]]
<1>1. base \in [D -> Nat]
  OBVIOUS
<1>2. size \in [D -> Nat]
  <2>1. \A s \in D : Cardinality(s) \in Nat
    BY FS_Subset, FS_CardinalityType
  <2> QED BY <2>1
<1>3. \A s \in D : s # {} => Some(s) \in T /\ s \ {Some(s)} \in D
                             /\ size[s \ {Some(s)}] < size[s]
  BY SmallerSet
<1>4. step \in [[D -> Nat] -> [D -> Nat]]
  <2> HIDE DEF D
  <2>1. ASSUME NEW f \in [D -> Nat], NEW s \in D
        PROVE  (IF s = {} THEN 0 ELSE g[Some(s)] + f[s \ {Some(s)}]) \in Nat
    <3>1. CASE s = {}
      BY <3>1
    <3>2. CASE s # {}
      <4>1. g[Some(s)] \in Nat /\ f[s \ {Some(s)}] \in Nat
        BY <3>2, <1>3
      <4> QED BY <3>2, <4>1
    <3> QED BY <3>1, <3>2
  <2> QED BY <2>1
<1>5. ASSUME NEW f1 \in [D -> Nat], NEW f2 \in [D -> Nat], NEW s \in D, Agree(f1, f2, D, size, size[s])
      PROVE  step[f1][s] = step[f2][s]
  <2> HIDE DEF D, size
  <2>1. s # {} => f1[s \ {Some(s)}] = f2[s \ {Some(s)}]
    BY <1>3, <1>5 DEF Agree
  <2> QED BY <2>1
<1>6. \A h \in [D -> Nat] : step[h] = [s \in D |-> IF s = {} THEN 0 ELSE g[Some(s)] + h[s \ {Some(s)}]]
  OBVIOUS
<1> HIDE DEF D, size, base, step
<1>7. PICK h \in [D -> Nat] : Solves(h, step)
  <2>1. Approximates(step, D, Nat, size)
    BY <1>5 DEF Approximates
  <2> QED BY <1>1, <1>2, <1>4, <2>1, Recursion
<1>8. AddsUp(h, T, g)
  BY <1>6, <1>7 DEF Solves, AddsUp, D
<1> QED BY <1>8

LEMMA SumNatural ==
  ASSUME NEW T, IsFiniteSet(T), NEW g \in [T -> Nat], NEW h, Adding(h, T, g)
  PROVE  h[T] \in Nat
<1> DEFINE Q == {s \in SUBSET T : h[s] \notin Nat}
           counts == {Cardinality(s) : s \in Q}
<1>1. SUFFICES ASSUME Q # {} PROVE FALSE
  OBVIOUS
<1>2. \A s \in SUBSET T : Cardinality(s) \in Nat
  BY FS_Subset, FS_CardinalityType
<1>3. counts \in SUBSET Nat /\ counts # {}
  BY <1>1, <1>2
<1>4. PICK n \in counts : \A m \in counts : n <= m
  <2> HIDE DEF counts
  <2> QED BY <1>3, LeastNumber
<1>5. PICK s \in Q : n = Cardinality(s)
  OBVIOUS
<1>6. s \in SUBSET T /\ h[s] = IF s = {} THEN 0 ELSE g[Some(s)] + h[s \ {Some(s)}]
  BY DEF Adding
<1>7. s # {}
  BY <1>5, <1>6
<1>8. /\ Some(s) \in T /\ s \ {Some(s)} \in SUBSET T
      /\ Cardinality(s) \in Nat /\ Cardinality(s \ {Some(s)}) \in Nat
      /\ Cardinality(s \ {Some(s)}) < Cardinality(s)
  BY <1>6, <1>7, SmallerSet
<1>9. s \ {Some(s)} \notin Q
  BY <1>4, <1>5, <1>8
<1>10. h[s \ {Some(s)}] \in Nat /\ g[Some(s)] \in Nat
  BY <1>8, <1>9
<1> QED BY <1>5, <1>6, <1>7, <1>10

(* The sum of g over F.                                                    *)
IsSum(total, F, g) == \E h : Adding(h, F, g) /\ total = h[F]

LEMMA CountIsSum ==
  ASSUME NEW F, IsFiniteSet(F), NEW sized \in [F -> Nat], NEW d \in Nat \ {0}
  PROVE  /\ [x \in F |-> Ceil(sized[x], d)] \in [F -> Nat]
         /\ IsSum(SourceBlockCount(sized, d), F, [x \in F |-> Ceil(sized[x], d)])
<1> DEFINE g == [x \in F |-> Ceil(sized[x], d)]
           Right(h) == h = [s \in SUBSET DOMAIN sized |->
             IF s = {} THEN 0 ELSE Ceil(sized[CHOOSE x \in s : TRUE], d) + h[s \ {CHOOSE x \in s : TRUE}]]
           f == CHOOSE h : Right(h)
<1>1. DOMAIN sized = F /\ g \in [F -> Nat]
  BY CeilFacts
<1>2. \E h : Right(h)
  <2>1. PICK h : AddsUp(h, F, g)
    BY <1>1, SumDefined
  <2>2. \A s \in SUBSET F : s # {} => g[Some(s)] = Ceil(sized[CHOOSE x \in s : TRUE], d)
    BY DEF Some
  <2>3. Right(h)
    <3> HIDE DEF g
    <3> QED BY <1>1, <2>1, <2>2 DEF AddsUp, Some
  <2> QED BY <2>3
<1>3. Right(f)
  <2> HIDE DEF Right
  <2> QED BY <1>2
<1>4. SourceBlockCount(sized, d) = f[F]
  BY <1>1 DEF SourceBlockCount, MapThenSumSet, MapThenFoldSet
<1> HIDE DEF f
<1>5. Adding(f, F, g)
  BY <1>1, <1>3 DEF Adding, Some
<1> QED BY <1>1, <1>4, <1>5 DEF IsSum

LEMMA TotalIsSum ==
  ASSUME NEW F, IsFiniteSet(F), NEW g \in [F -> Nat]
  PROVE  IsSum(Total(g), F, g)
<1> DEFINE Right(h) == h = [s \in SUBSET DOMAIN g |->
             IF s = {} THEN 0 ELSE g[CHOOSE x \in s : TRUE] + h[s \ {CHOOSE x \in s : TRUE}]]
           f == CHOOSE h : Right(h)
<1>1. DOMAIN g = F
  OBVIOUS
<1>2. \E h : Right(h)
  <2>1. PICK h : AddsUp(h, F, g)
    BY SumDefined
  <2>2. Right(h)
    BY <1>1, <2>1 DEF AddsUp, Some
  <2> QED BY <2>2
<1>3. Right(f)
  <2> HIDE DEF Right
  <2> QED BY <1>2
<1>4. Total(g) = f[F]
  BY <1>1 DEF Total, MapThenSumSet, MapThenFoldSet
<1> HIDE DEF f
<1>5. Adding(f, F, g)
  BY <1>1, <1>3 DEF Adding, Some
<1> QED BY <1>4, <1>5 DEF IsSum

LEMMA SumIsNatural ==
  ASSUME NEW F, IsFiniteSet(F), NEW g \in [F -> Nat], NEW total, IsSum(total, F, g)
  PROVE  total \in Nat
BY SumNatural DEF IsSum

LEMMA TotalNatural ==
  ASSUME NEW F, IsFiniteSet(F), NEW g \in [F -> Nat]
  PROVE  Total(g) \in Nat
BY TotalIsSum, SumIsNatural

LEMMA CountNatural ==
  ASSUME NEW F, IsFiniteSet(F), NEW sized \in [F -> Nat], NEW d \in Nat \ {0}
  PROVE  SourceBlockCount(sized, d) \in Nat
BY CountIsSum, SumIsNatural

(* A linear bound on the terms of a sum bounds the sum, and one that is    *)
(* strict for a term is strict for the sum.                                *)
LEMMA SumsCompare ==
  ASSUME NEW F, IsFiniteSet(F), NEW g1 \in [F -> Nat], NEW g2 \in [F -> Nat],
         NEW t1, NEW t2, IsSum(t1, F, g1), IsSum(t2, F, g2),
         NEW a \in Nat, NEW b \in Nat, NEW c \in Int,
         \A x \in F : a * g1[x] <= b * g2[x] + c
  PROVE  /\ a * t1 <= b * t2 + c * Cardinality(F)
         /\ (\E x \in F : a * g1[x] < b * g2[x] + c) => a * t1 < b * t2 + c * Cardinality(F)
<1>1. PICK h1 : Adding(h1, F, g1) /\ t1 = h1[F]
  BY DEF IsSum
<1>2. PICK h2 : Adding(h2, F, g2) /\ t2 = h2[F]
  BY DEF IsSum
<1> DEFINE Holds(s) ==
             /\ h1[s] \in Nat /\ h2[s] \in Nat
             /\ a * h1[s] <= b * h2[s] + c * Cardinality(s)
             /\ (\E x \in s : a * g1[x] < b * g2[x] + c) => a * h1[s] < b * h2[s] + c * Cardinality(s)
           Q == {s \in SUBSET F : ~Holds(s)}
           counts == {Cardinality(s) : s \in Q}
<1>3. SUFFICES ASSUME Q # {} PROVE FALSE
  BY <1>1, <1>2
<1> HIDE DEF Holds
<1>4. \A s \in SUBSET F : Cardinality(s) \in Nat
  BY FS_Subset, FS_CardinalityType
<1>5. counts \in SUBSET Nat /\ counts # {}
  BY <1>3, <1>4
<1>6. PICK n \in counts : \A m \in counts : n <= m
  <2> HIDE DEF counts
  <2> QED BY <1>5, LeastNumber
<1>7. PICK s \in Q : n = Cardinality(s)
  OBVIOUS
<1>8. s \in SUBSET F /\ ~Holds(s)
  OBVIOUS
<1>9. s # {}
  <2>1. SUFFICES ASSUME s = {} PROVE FALSE
    OBVIOUS
  <2>2. h1[s] = 0 /\ h2[s] = 0
    BY <1>1, <1>2, <2>1 DEF Adding
  <2>3. Cardinality(s) = 0
    BY <2>1, FS_EmptySet
  <2>4. a * 0 = 0 /\ b * 0 = 0 /\ c * 0 = 0
    OBVIOUS
  <2>5. Holds(s)
    BY <2>1, <2>2, <2>3, <2>4 DEF Holds
  <2> QED BY <1>8, <2>5
<1> DEFINE x == Some(s)
           r == s \ {Some(s)}
<1>10. /\ x \in F /\ r \in SUBSET F
       /\ Cardinality(s) \in Nat /\ Cardinality(r) \in Nat /\ Cardinality(r) < Cardinality(s)
  BY <1>8, <1>9, SmallerSet
<1>11. Cardinality(s) = Cardinality(r) + 1 /\ s = r \union {x}
  <2>1. x \in s
    BY <1>9 DEF Some
  <2>2. IsFiniteSet(s)
    BY <1>8, FS_Subset
  <2>3. Cardinality(r) = Cardinality(s) - 1
    BY <2>1, <2>2, FS_RemoveElement
  <2> QED BY <2>1, <2>3, <1>10
<1>12. Holds(r)
  <2> HIDE DEF r
  <2>1. ASSUME r \in Q PROVE FALSE
    <3>1. Cardinality(r) \in counts
      BY <2>1
    <3> HIDE DEF counts, Q
    <3>2. n \in Nat
      BY <1>5
    <3> QED BY <3>1, <3>2, <1>6, <1>7, <1>10
  <2> QED BY <1>10, <2>1
<1>13. h1[s] = g1[x] + h1[r] /\ h2[s] = g2[x] + h2[r]
  BY <1>1, <1>2, <1>8, <1>9 DEF Adding
<1> DEFINE p1 == g1[x]  q1 == h1[r]  p2 == g2[x]  q2 == h2[r]  k == Cardinality(r)
<1>14. p1 \in Nat /\ q1 \in Nat /\ p2 \in Nat /\ q2 \in Nat /\ k \in Nat
  BY <1>10, <1>12 DEF Holds
<1>15. /\ a * p1 <= b * p2 + c
       /\ a * q1 <= b * q2 + c * k
       /\ (\E y \in r : a * g1[y] < b * g2[y] + c) => a * q1 < b * q2 + c * k
  BY <1>10, <1>12 DEF Holds
<1>16. (\E y \in s : a * g1[y] < b * g2[y] + c) =>
         (\E y \in r : a * g1[y] < b * g2[y] + c) \/ a * p1 < b * p2 + c
  <2> HIDE DEF r, x
  <2> QED BY <1>11
<1> HIDE DEF x, r, p1, q1, p2, q2, k
<1>17. /\ a * (p1 + q1) = a * p1 + a * q1 /\ b * (p2 + q2) = b * p2 + b * q2 /\ c * (k + 1) = c * k + c
       /\ a * p1 \in Int /\ a * q1 \in Int /\ b * p2 \in Int /\ b * q2 \in Int /\ c * k \in Int
  BY <1>14
<1>18. h1[s] = p1 + q1 /\ h2[s] = p2 + q2 /\ Cardinality(s) = k + 1
  BY <1>11, <1>13 DEF p1, q1, p2, q2, k
<1>19. a * h1[s] <= b * h2[s] + c * Cardinality(s)
  BY <1>15, <1>17, <1>18
<1>20. (a * p1 < b * p2 + c \/ a * q1 < b * q2 + c * k) => a * h1[s] < b * h2[s] + c * Cardinality(s)
  BY <1>15, <1>17, <1>18
<1>21. Holds(s)
  BY <1>14, <1>15, <1>16, <1>18, <1>19, <1>20 DEF Holds
<1> QED BY <1>8, <1>21

LEMMA SumsEqual ==
  ASSUME NEW F, IsFiniteSet(F), NEW g \in [F -> Nat], NEW t1, NEW t2, IsSum(t1, F, g), IsSum(t2, F, g)
  PROVE  t1 = t2
<1> DEFINE one == 1
           zero == 0
           N == Cardinality(F)
<1>1. one \in Nat /\ zero \in Int /\ \A x \in F : one * g[x] <= one * g[x] + zero
  OBVIOUS
<1>2. t1 \in Nat /\ t2 \in Nat /\ N \in Nat
  BY SumIsNatural, FS_CardinalityType
<1> HIDE DEF one, zero
<1>3. one * t1 <= one * t2 + zero * N
  BY <1>1, SumsCompare
<1>4. one * t2 <= one * t1 + zero * N
  BY <1>1, SumsCompare
<1> HIDE DEF N
<1> QED BY <1>2, <1>3, <1>4 DEF one, zero

(* The largest of numbers.                                                 *)
LEMMA FiniteBounded ==
  ASSUME NEW S \in SUBSET Nat, IsFiniteSet(S)
  PROVE  \E m \in Nat : \A y \in S : y <= m
<1> DEFINE Bounded(T) == \E m \in Nat : \A y \in T : y <= m
           P == {n \in Nat : \A T \in SUBSET Nat : (IsFiniteSet(T) /\ Cardinality(T) = n) => Bounded(T)}
<1>1. 0 \in P
  <2>1. ASSUME NEW T \in SUBSET Nat, IsFiniteSet(T), Cardinality(T) = 0 PROVE Bounded(T)
    <3>1. T = {}
      BY <2>1, FS_EmptySet
    <3> QED BY <3>1
  <2> HIDE DEF Bounded
  <2> QED BY <2>1
<1>2. ASSUME NEW n \in P PROVE n + 1 \in P
  <2>1. n \in Nat /\ n + 1 \in Nat /\ n + 1 # 0
    OBVIOUS
  <2>2. ASSUME NEW T \in SUBSET Nat, IsFiniteSet(T), Cardinality(T) = n + 1 PROVE Bounded(T)
    <3>1. PICK x \in T : TRUE
      BY <2>1, <2>2, FS_EmptySet
    <3>2. IsFiniteSet(T \ {x}) /\ Cardinality(T \ {x}) = n /\ T \ {x} \in SUBSET Nat
      <4>1. IsFiniteSet(T \ {x}) /\ Cardinality(T \ {x}) = Cardinality(T) - 1
        BY <2>2, <3>1, FS_RemoveElement
      <4>2. (n + 1) - 1 = n
        BY <2>1
      <4> QED BY <4>1, <4>2, <2>2
    <3>3. PICK m \in Nat : \A y \in T \ {x} : y <= m
      BY <3>2, <1>2
    <3>4. x \in Nat /\ m + x \in Nat
      OBVIOUS
    <3>5. \A y \in T : y <= m + x
      <4> TAKE y \in T
      <4>1. y \in Nat /\ (y = x \/ y <= m)
        BY <3>3
      <4> QED BY <4>1, <3>4
    <3> QED BY <3>4, <3>5
  <2> HIDE DEF Bounded
  <2> QED BY <2>1, <2>2
<1>3. P = Nat
  <2> HIDE DEF P
  <2>1. P \in SUBSET Nat
    BY DEF P
  <2> QED BY <1>1, <1>2, <2>1, Induction
<1>4. Cardinality(S) \in Nat
  BY FS_CardinalityType
<1> QED BY <1>3, <1>4

LEMMA MaxNatural ==
  ASSUME NEW S \in SUBSET Nat, IsFiniteSet(S), S # {}
  PROVE  Max(S) \in S /\ \A y \in S : y <= Max(S)
<1>1. PICK m \in Nat : \A y \in S : y <= m
  BY FiniteBounded
<1> DEFINE bounds == {n \in Nat : \A y \in S : y <= n}
<1>2. PICK n \in bounds : \A k \in bounds : n <= k
  <2>1. bounds \in SUBSET Nat /\ bounds # {}
    BY <1>1
  <2> HIDE DEF bounds
  <2> QED BY <2>1, LeastNumber
<1>3. n \in S
  <2>1. SUFFICES ASSUME n \notin S PROVE FALSE
    OBVIOUS
  <2>2. \A y \in S : y \in Nat /\ y < n
    BY <1>2, <2>1
  <2>3. n > 0 /\ n - 1 \in Nat
    <3>1. PICK y \in S : TRUE
      OBVIOUS
    <3>2. y \in Nat /\ y < n /\ n \in Nat
      BY <1>2, <2>2
    <3> QED BY <3>2
  <2>4. n - 1 \in bounds
    BY <2>2, <2>3
  <2> QED BY <1>2, <2>3, <2>4
<1>4. \A y \in S : n >= y
  BY <1>2
<1> QED BY <1>3, <1>4 DEF Max

LEMMA MaxOfTwo ==
  ASSUME NEW m \in Int, NEW n \in Int
  PROVE  Max({m, n}) \in {m, n} /\ m <= Max({m, n}) /\ n <= Max({m, n})
<1>1. \E x \in {m, n} : \A y \in {m, n} : x >= y
  <2>1. m >= n \/ n >= m
    OBVIOUS
  <2> QED BY <2>1
<1>2. \A y \in {m, n} : Max({m, n}) >= y
  BY <1>1 DEF Max
<1>3. Max({m, n}) \in {m, n}
  BY <1>1 DEF Max
<1> QED BY <1>2, <1>3

(* The loop over the bits of a number ends.                                *)
LEMMA BitCountFacts ==
  /\ \A n \in Nat : BitCount[n] \in Nat
  /\ BitCount[0] = 0 /\ \A n \in Nat \ {0} : BitCount[n] = 1 + BitCount[n \div 2]
<1> DEFINE Funs == [Nat -> Nat]
           size == [n \in Nat |-> n]
           base == [n \in Nat |-> 0]
           step == [h \in Funs |-> [n \in Nat |-> IF n = 0 THEN 0 ELSE 1 + h[n \div 2]]]
<1>1. base \in Funs /\ size \in [Nat -> Nat]
  OBVIOUS
<1>2. \A n \in Nat : n # 0 => n \div 2 \in Nat /\ n \div 2 < n
  OBVIOUS
<1>3. step \in [Funs -> Funs]
  <2>1. ASSUME NEW h \in Funs, NEW n \in Nat PROVE (IF n = 0 THEN 0 ELSE 1 + h[n \div 2]) \in Nat
    <3>1. n \div 2 \in Nat
      OBVIOUS
    <3>2. h[n \div 2] \in Nat
      BY <3>1
    <3> QED BY <3>2
  <2> QED BY <2>1
<1>4. ASSUME NEW f \in Funs, NEW g \in Funs, NEW n \in Nat, Agree(f, g, Nat, size, size[n])
      PROVE  step[f][n] = step[g][n]
  <2>1. n # 0 => f[n \div 2] = g[n \div 2]
    BY <1>2, <1>4 DEF Agree
  <2> QED BY <2>1
<1>5. \A h \in Funs : step[h] = [n \in Nat |-> IF n = 0 THEN 0 ELSE 1 + h[n \div 2]]
  OBVIOUS
<1> HIDE DEF size, base, step
<1>6. PICK h \in Funs : Solves(h, step)
  <2>1. Approximates(step, Nat, Nat, size)
    BY <1>4 DEF Approximates
  <2> QED BY <1>1, <1>3, <2>1, Recursion
<1>7. h = [n \in Nat |-> IF n = 0 THEN 0 ELSE 1 + h[n \div 2]]
  BY <1>5, <1>6 DEF Solves
<1>8. BitCount = [n \in Nat |-> IF n = 0 THEN 0 ELSE 1 + BitCount[n \div 2]]
  BY <1>7 DEF BitCount
<1>9. ASSUME NEW n \in Nat PROVE BitCount[n] \in Nat
  <2> DEFINE Q == {m \in Nat : BitCount[m] \notin Nat}
  <2>1. SUFFICES ASSUME Q # {} PROVE FALSE
    OBVIOUS
  <2> HIDE DEF Q
  <2>2. PICK m \in Q : \A k \in Q : m <= k
    <3>1. Q \in SUBSET Nat
      BY DEF Q
    <3> QED BY <2>1, <3>1, LeastNumber
  <2>3. m \in Nat /\ BitCount[m] \notin Nat
    BY DEF Q
  <2>4. m # 0
    BY <1>8, <2>3
  <2>5. m \div 2 \in Nat /\ ~(m <= m \div 2)
    BY <1>2, <2>3, <2>4
  <2>6. BitCount[m \div 2] \in Nat
    BY <2>2, <2>5 DEF Q
  <2>7. BitCount[m] = 1 + BitCount[m \div 2]
    BY <1>8, <2>3, <2>4
  <2> QED BY <2>3, <2>6, <2>7
<1>10. BitCount[0] = 0
  BY <1>8
<1>11. ASSUME NEW n \in Nat \ {0} PROVE BitCount[n] = 1 + BitCount[n \div 2]
  BY <1>8
<1> QED BY <1>9, <1>10, <1>11

(* The files of the largest size leave something, and less than two more.  *)
LEMMA WholeFits ==
  ASSUME NEW blocks \in Nat, NEW largest \in Nat \ {0}
  PROVE  LET whole == Max({0, blocks \div largest - 1})
         IN /\ whole \in Nat /\ whole * largest \in Nat /\ blocks - whole * largest \in Nat
            /\ blocks > 0 => blocks - whole * largest > 0
            /\ blocks - whole * largest < 2 * largest
            /\ whole > 0 => whole = blocks \div largest - 1
<1> DEFINE q == blocks \div largest
           more == q - 1
           zero == 0
           whole == Max({zero, more})
           taken == whole * largest
<1>1. q \in Nat /\ largest * q <= blocks /\ blocks < largest * q + largest
  BY Division
<1>2. whole \in {zero, more} /\ zero <= whole /\ more <= whole
  <2>1. zero \in Int /\ more \in Int
    BY <1>1
  <2> HIDE DEF zero, more
  <2> QED BY <2>1, MaxOfTwo
<1>3. whole \in Nat /\ (q > 0 => whole = q - 1) /\ (q = 0 => whole = 0)
  <2> HIDE DEF whole, q
  <2> QED BY <1>1, <1>2
<1>4. whole > 0 => whole = q - 1
  <2> HIDE DEF whole, q
  <2> QED BY <1>1, <1>3
<1> HIDE DEF q, whole
<1>5. taken \in Nat /\ (q > 0 => taken = largest * q - largest) /\ (q = 0 => taken = 0 /\ largest * q = 0)
  <2>1. taken \in Nat
    BY <1>3
  <2>2. ASSUME q > 0 PROVE taken = largest * q - largest
    <3>1. whole = q - 1
      BY <1>3, <2>2
    <3>2. (q - 1) * largest = largest * q - largest
      BY <1>1
    <3> QED BY <3>1, <3>2
  <2>3. ASSUME q = 0 PROVE taken = 0 /\ largest * q = 0
    <3>1. whole = 0
      BY <1>3, <2>3
    <3>2. 0 * largest = 0 /\ largest * 0 = 0
      OBVIOUS
    <3> QED BY <3>1, <3>2, <2>3
  <2> QED BY <2>1, <2>2, <2>3
<1>6. largest * q \in Nat
  BY <1>1
<1> DEFINE lq == largest * q
<1> HIDE DEF taken, lq
<1>7. blocks - taken \in Nat /\ (blocks > 0 => blocks - taken > 0) /\ blocks - taken < 2 * largest
  <2>1. lq \in Nat /\ lq <= blocks /\ blocks < lq + largest /\ taken \in Nat
        /\ (q > 0 => taken = lq - largest) /\ (q = 0 => taken = 0 /\ lq = 0) /\ q \in Nat
    BY <1>1, <1>5, <1>6 DEF lq
  <2> QED BY <2>1
<1> QED BY <1>3, <1>4, <1>5, <1>7 DEF taken, whole, q

LEMMA FileCountNatural ==
  ASSUME NEW scheme, NEW wanted \in Nat, NEW blocks \in Nat, NEW largest \in Nat \ {0}
  PROVE  ComputeRecoveryFileCount(scheme, wanted, blocks, largest) \in Nat \union {None}
<1> DEFINE whole == Max({0, blocks \div largest - 1})
<1>1. whole \in Nat
  BY WholeFits DEF whole
<1> HIDE DEF whole
<1>2. whole + BitCount[blocks - whole * largest] \in Nat
  <2>1. blocks - whole * largest \in Nat
    BY <1>1, WholeFits DEF whole
  <2>2. BitCount[blocks - whole * largest] \in Nat
    BY <2>1, BitCountFacts
  <2> QED BY <1>1, <2>2
<1>3. BitCount[blocks] \in Nat
  BY BitCountFacts
<1> QED BY <1>2, <1>3 DEF ComputeRecoveryFileCount, whole

(* The bisection ends, as its bounds get closer.                           *)
Width(bounds) == IF bounds[2] > bounds[1] THEN bounds[2] - bounds[1] ELSE 0
Middle(bounds) == (bounds[1] + bounds[2]) \div 2

LEMMA MiddleFacts ==
  ASSUME NEW b \in Nat \X Nat
  PROVE  /\ Middle(b) \in Nat /\ Middle(b) + 1 \in Nat /\ Width(b) \in Nat
         /\ ~(Middle(b) + 1 >= b[2]) => /\ <<Middle(b) + 1, b[2]>> \in Nat \X Nat
                                         /\ Width(<<Middle(b) + 1, b[2]>>) < Width(b)
         /\ ~(b[1] >= Middle(b)) => /\ <<b[1], Middle(b)>> \in Nat \X Nat
                                     /\ Width(<<b[1], Middle(b)>>) < Width(b)
<1>1. PICK l \in Nat, u \in Nat : b = <<l, u>>
  OBVIOUS
<1>2. b[1] = l /\ b[2] = u
  BY <1>1
<1> DEFINE m == (l + u) \div 2
<1>3. m \in Nat /\ 2 * m <= l + u /\ l + u <= 2 * m + 1
  OBVIOUS
<1>4. Middle(b) = m
  BY <1>2 DEF Middle
<1> HIDE DEF m
<1>5. ~(m + 1 >= u) => (IF u > m + 1 THEN u - (m + 1) ELSE 0) < (IF u > l THEN u - l ELSE 0)
  BY <1>3
<1>6. ~(l >= m) => (IF m > l THEN m - l ELSE 0) < (IF u > l THEN u - l ELSE 0)
  BY <1>3
<1> QED BY <1>2, <1>3, <1>4, <1>5, <1>6 DEF Width

(* The blocks of a file: as few as have room for it.                       *)
LEMMA CeilBounds ==
  ASSUME NEW n \in Nat, NEW d \in Nat \ {0}
  PROVE  /\ Ceil(n, d) \in Nat /\ d * Ceil(n, d) \in Nat
         /\ n <= d * Ceil(n, d) /\ d * Ceil(n, d) <= n + (d - 1)
<1>1. Ceil(n, d) \in Nat /\ n <= d * Ceil(n, d)
  BY CeilFacts
<1>2. n + d - 1 \in Nat
  OBVIOUS
<1>3. d * Ceil(n, d) <= n + d - 1
  BY <1>2, Division DEF Ceil
<1> QED BY <1>1, <1>3

LEMMA CeilLeast ==
  ASSUME NEW n \in Nat, NEW d \in Nat \ {0}, NEW k \in Nat
  PROVE  Ceil(n, d) <= k <=> n <= d * k
<1>1. Ceil(n, d) \in Nat
  BY CeilFacts
<1>2. ASSUME Ceil(n, d) <= k PROVE n <= d * k
  <2>1. Ceil(n, d) * d <= k * d /\ Ceil(n, d) * d \in Nat /\ k * d \in Nat
    BY <1>1, <1>2, Monotone
  <2>2. n <= d * Ceil(n, d) /\ d * Ceil(n, d) = Ceil(n, d) * d /\ d * k = k * d
    BY <1>1, CeilFacts
  <2> QED BY <2>1, <2>2
<1>3. ASSUME n <= d * k PROVE Ceil(n, d) <= k
  <2>1. SUFFICES ASSUME k < Ceil(n, d) PROVE FALSE
    BY <1>1
  <2>2. k * d < n
    BY <1>1, <2>1, BlocksCover
  <2> QED BY <1>3, <2>2
<1> QED BY <1>2, <1>3

(* Blocks of words are the blocks of the bytes in them.                    *)
LEMMA CeilOfCeil ==
  ASSUME NEW n \in Nat, NEW d \in Nat \ {0}, NEW e \in Nat \ {0}
  PROVE  Ceil(n, d * e) = Ceil(Ceil(n, d), e)
<1>1. d * e \in Nat \ {0} /\ Ceil(n, d) \in Nat
  BY CeilFacts
<1>2. \A k \in Nat : Ceil(n, d * e) <= k <=> Ceil(Ceil(n, d), e) <= k
  <2> TAKE k \in Nat
  <2>1. Ceil(Ceil(n, d), e) <= k <=> Ceil(n, d) <= e * k
    BY <1>1, CeilLeast
  <2>2. e * k \in Nat
    OBVIOUS
  <2>3. Ceil(n, d) <= e * k <=> n <= d * (e * k)
    BY <2>2, CeilLeast
  <2> DEFINE de == d * e
  <2>4. de \in Nat \ {0} /\ d * (e * k) = de * k
    BY <1>1
  <2> HIDE DEF de
  <2>5. Ceil(n, de) <= k <=> n <= de * k
    BY <2>4, CeilLeast
  <2> QED BY <2>1, <2>3, <2>4, <2>5 DEF de
<1>3. Ceil(n, d * e) \in Nat /\ Ceil(Ceil(n, d), e) \in Nat
  <2> DEFINE de == d * e
             m == Ceil(n, d)
  <2>1. de \in Nat \ {0} /\ m \in Nat
    BY <1>1
  <2> HIDE DEF de, m
  <2>2. Ceil(n, de) \in Nat /\ Ceil(m, e) \in Nat
    BY <2>1, CeilFacts
  <2> QED BY <2>2 DEF de, m
<1> QED BY <1>2, <1>3

(* The bounds that the bisection starts with: the upper gives few enough   *)
(* blocks, and a size below the lower too many.                            *)
LEMMA UpperFits ==
  ASSUME NEW F, IsFiniteSet(F), NEW words \in [F -> Nat], NEW count \in Nat, count > Cardinality(F),
         NEW size \in Nat \ {0}, Total(words) <= (count - Cardinality(F)) * size
  PROVE  SourceBlockCount(words, size) <= count
<1> DEFINE g == [x \in F |-> Ceil(words[x], size)]
           needed == SourceBlockCount(words, size)
           total == Total(words)
           N == Cardinality(F)
           one == 1
           more == size - 1
<1>1. g \in [F -> Nat] /\ IsSum(needed, F, g) /\ IsSum(total, F, words)
  BY CountIsSum, TotalIsSum
<1>2. N \in Nat /\ needed \in Nat /\ total \in Nat
  BY <1>1, FS_CardinalityType, SumIsNatural
<1>3. \A x \in F : size * g[x] <= one * words[x] + more
  <2> TAKE x \in F
  <2>1. words[x] \in Nat /\ g[x] = Ceil(words[x], size)
    OBVIOUS
  <2>2. size * Ceil(words[x], size) <= words[x] + (size - 1) /\ size * Ceil(words[x], size) \in Nat
    BY <2>1, CeilBounds
  <2> HIDE DEF g
  <2> QED BY <2>1, <2>2
<1>4. one \in Nat /\ more \in Int /\ size \in Nat
  OBVIOUS
<1> HIDE DEF g, needed, total, one, more
<1>5. size * needed <= one * total + more * N
  BY <1>1, <1>3, <1>4, SumsCompare DEF N
<1>6. N < count /\ total <= (count - N) * size
  BY DEF N, total
<1> HIDE DEF N
<1>7. size * needed <= total + (size - 1) * N
  BY <1>2, <1>4, <1>5 DEF one, more
<1>8. (size - 1) * N = N * size - N /\ (count - N) * size = count * size - N * size
  BY <1>2
<1>9. size * needed <= count * size - N
  <2>1. N * size \in Int /\ count * size \in Int /\ size * needed \in Int
    BY <1>2
  <2> QED BY <2>1, <1>2, <1>6, <1>7, <1>8
<1>10. SUFFICES ASSUME count + 1 <= needed PROVE FALSE
  BY <1>2 DEF needed
<1>11. (count + 1) * size <= needed * size
  <2>1. count + 1 \in Nat /\ size \in Nat
    OBVIOUS
  <2> QED BY <1>2, <1>10, <2>1, Monotone
<1>12. (count + 1) * size = count * size + size /\ needed * size = size * needed
       /\ count * size \in Int /\ size * needed \in Int
  BY <1>2
<1> QED BY <1>2, <1>9, <1>11, <1>12

LEMMA SmallerFails ==
  ASSUME NEW F, IsFiniteSet(F), NEW words \in [F -> Nat], NEW count \in Nat,
         NEW size \in Nat \ {0}, count * size < Total(words)
  PROVE  SourceBlockCount(words, size) > count
<1> DEFINE g == [x \in F |-> Ceil(words[x], size)]
           needed == SourceBlockCount(words, size)
           total == Total(words)
           N == Cardinality(F)
           one == 1
           zero == 0
<1>1. g \in [F -> Nat] /\ IsSum(needed, F, g) /\ IsSum(total, F, words)
  BY CountIsSum, TotalIsSum
<1>2. N \in Nat /\ needed \in Nat /\ total \in Nat
  BY <1>1, FS_CardinalityType, SumIsNatural
<1>3. \A x \in F : one * words[x] <= size * g[x] + zero
  <2> TAKE x \in F
  <2>1. words[x] \in Nat /\ g[x] = Ceil(words[x], size)
    OBVIOUS
  <2>2. words[x] <= size * Ceil(words[x], size) /\ size * Ceil(words[x], size) \in Nat
    BY <2>1, CeilBounds
  <2> HIDE DEF g
  <2> QED BY <2>1, <2>2
<1>4. one \in Nat /\ zero \in Int /\ size \in Nat
  OBVIOUS
<1> HIDE DEF g, needed, total, one, zero
<1>5. one * total <= size * needed + zero * N
  BY <1>1, <1>3, <1>4, SumsCompare DEF N
<1>6. count * size < total
  BY DEF total
<1> HIDE DEF N
<1>7. total <= needed * size
  BY <1>2, <1>4, <1>5 DEF one, zero
<1>8. SUFFICES ASSUME needed <= count PROVE FALSE
  BY <1>2 DEF needed
<1>9. needed * size <= count * size /\ needed * size \in Nat /\ count * size \in Nat
  BY <1>2, <1>4, <1>8, Monotone
<1> QED BY <1>2, <1>6, <1>7, <1>9

(* The least size that gives no more blocks than that.                     *)
LeastSize(words, blockcount, size) ==
  /\ size \in Nat \ {0} /\ SourceBlockCount(words, size) <= blockcount
  /\ size = 1 \/ SourceBlockCount(words, size - 1) > blockcount

(* What the bisection keeps of its bounds, whatever the sizes between them *)
(* would give: the upper is large enough, and one less than the lower not. *)
Bracketed(words, blockcount, bounds) ==
  /\ bounds \in Nat \X Nat /\ 0 < bounds[1] /\ bounds[1] <= bounds[2]
  /\ SourceBlockCount(words, bounds[2]) <= blockcount
  /\ bounds[1] = 1 \/ SourceBlockCount(words, bounds[1] - 1) > blockcount

LEMMA BracketMoves ==
  ASSUME NEW F, IsFiniteSet(F), NEW words \in [F -> Nat], NEW blockcount \in Nat,
         NEW b, Bracketed(words, blockcount, b), NEW m, m = Middle(b)
  PROVE  IF SourceBlockCount(words, m) > blockcount
         THEN IF m + 1 >= b[2] THEN LeastSize(words, blockcount, m + 1)
              ELSE Bracketed(words, blockcount, <<m + 1, b[2]>>)
         ELSE IF b[1] >= m THEN LeastSize(words, blockcount, m)
              ELSE Bracketed(words, blockcount, <<b[1], m>>)
<1>1. PICK l \in Nat, u \in Nat : b = <<l, u>>
  BY DEF Bracketed
<1>2. b[1] = l /\ b[2] = u
  BY <1>1
<1>3. /\ 0 < l /\ l <= u /\ SourceBlockCount(words, u) <= blockcount
      /\ l = 1 \/ SourceBlockCount(words, l - 1) > blockcount
  BY <1>2 DEF Bracketed
<1>4. m \in Nat /\ l <= m /\ m <= u
  BY <1>2, <1>3 DEF Middle
<1>5. m \in Nat \ {0}
  BY <1>3, <1>4
<1>6. SourceBlockCount(words, m) \in Nat /\ SourceBlockCount(words, u) \in Nat
  <2>1. u \in Nat \ {0}
    BY <1>3
  <2> QED BY <1>5, <2>1, CountNatural
<1>7. ASSUME SourceBlockCount(words, m) > blockcount
      PROVE  IF m + 1 >= u THEN LeastSize(words, blockcount, m + 1) ELSE Bracketed(words, blockcount, <<m + 1, u>>)
  <2>1. m # u
    BY <1>3, <1>6, <1>7
  <2>2. m + 1 <= u /\ m + 1 \in Nat \ {0} /\ (m + 1) - 1 = m
    BY <1>4, <2>1
  <2>3. CASE m + 1 >= u
    <3>1. m + 1 = u
      BY <2>2, <2>3
    <3> QED BY <1>3, <1>7, <2>2, <3>1 DEF LeastSize
  <2>4. CASE ~(m + 1 >= u)
    <3> DEFINE c == <<m + 1, u>>
    <3>1. c \in Nat \X Nat /\ c[1] = m + 1 /\ c[2] = u
      BY <2>2
    <3> HIDE DEF c
    <3>2. Bracketed(words, blockcount, c)
      BY <1>3, <1>7, <2>2, <3>1 DEF Bracketed
    <3> QED BY <2>4, <3>2 DEF c
  <2> QED BY <2>3, <2>4
<1>8. ASSUME ~(SourceBlockCount(words, m) > blockcount)
      PROVE  IF l >= m THEN LeastSize(words, blockcount, m) ELSE Bracketed(words, blockcount, <<l, m>>)
  <2>1. SourceBlockCount(words, m) <= blockcount
    BY <1>6, <1>8
  <2>2. CASE l >= m
    <3>1. l = m
      BY <1>4, <2>2
    <3> QED BY <1>3, <1>5, <2>1, <2>2, <3>1 DEF LeastSize
  <2>3. CASE ~(l >= m)
    <3> DEFINE c == <<l, m>>
    <3>1. c \in Nat \X Nat /\ c[1] = l /\ c[2] = m
      BY <1>4
    <3> HIDE DEF c
    <3>2. Bracketed(words, blockcount, c)
      BY <1>3, <1>4, <2>1, <3>1 DEF Bracketed
    <3> QED BY <2>3, <3>2 DEF c
  <2> QED BY <2>2, <2>3
<1> QED BY <1>2, <1>7, <1>8

LEMMA BisectFinds ==
  ASSUME NEW F, IsFiniteSet(F), NEW words \in [F -> Nat], NEW blockcount \in Nat,
         NEW lower, lower = Total(words) \div blockcount,
         NEW upper, upper = Ceil(Total(words), blockcount - Cardinality(DOMAIN words)),
         Bracketed(words, blockcount, <<lower, upper>>)
  PROVE  LeastSize(words, blockcount, Bisect(words, blockcount))
<1> DEFINE D == Nat \X Nat
           More(b) == SourceBlockCount(words, Middle(b)) > blockcount
           Body(f, b) == IF More(b)
                         THEN IF Middle(b) + 1 >= b[2] THEN Middle(b) + 1 ELSE f[<<Middle(b) + 1, b[2]>>]
                         ELSE IF b[1] >= Middle(b) THEN Middle(b) ELSE f[<<b[1], Middle(b)>>]
           Right(f) == f = [b \in D |-> Body(f, b)]
           bisect == CHOOSE f : Right(f)
           size == [b \in D |-> Width(b)]
           base == [b \in D |-> 0]
           step == [f \in [D -> Nat] |-> [b \in D |-> Body(f, b)]]
<1>1. Bisect(words, blockcount) = bisect[<<lower, upper>>]
  BY DEF Bisect, Middle
<1> HIDE DEF More
<1>2. ASSUME NEW f \in [D -> Nat], NEW b \in D PROVE Body(f, b) \in Nat
  BY MiddleFacts
<1>3. base \in [D -> Nat] /\ size \in [D -> Nat]
  BY MiddleFacts
<1>4. step \in [[D -> Nat] -> [D -> Nat]]
  <2> HIDE DEF Body, D
  <2> QED BY <1>2
<1>5. Approximates(step, D, Nat, size)
  <2>1. ASSUME NEW f \in [D -> Nat], NEW g \in [D -> Nat], NEW b \in D, Agree(f, g, D, size, size[b])
        PROVE  Body(f, b) = Body(g, b)
    <3>1. \A c \in D : Width(c) < Width(b) => f[c] = g[c]
      BY <2>1 DEF Agree
    <3> QED BY <3>1, MiddleFacts
  <2> HIDE DEF Body, D, size
  <2> QED BY <2>1 DEF Approximates
<1>6. \E f : Right(f)
  <2> HIDE DEF Body, D, size, base, step
  <2>1. PICK h \in [D -> Nat] : Solves(h, step)
    BY <1>3, <1>4, <1>5, Recursion
  <2>2. Right(h)
    BY <2>1 DEF Solves, step
  <2> QED BY <2>2
<1>7. Right(bisect)
  <2> HIDE DEF Right
  <2> QED BY <1>6
<1> HIDE DEF bisect
<1>8. \A b \in D : bisect[b] = Body(bisect, b)
  <2> HIDE DEF Body, D
  <2> QED BY <1>7
<1> DEFINE Good(b) == Bracketed(words, blockcount, b)
           Found(b) == LeastSize(words, blockcount, bisect[b])
           Q == {b \in D : Good(b) /\ ~Found(b)}
           widths == {Width(b) : b \in Q}
<1>9. Q = {}
  <2>1. SUFFICES ASSUME Q # {} PROVE FALSE
    OBVIOUS
  <2>2. widths \in SUBSET Nat /\ widths # {}
    BY <2>1, MiddleFacts
  <2>3. PICK n \in widths : \A m \in widths : n <= m
    <3> HIDE DEF widths
    <3> QED BY <2>2, LeastNumber
  <2>4. PICK b \in Q : n = Width(b)
    OBVIOUS
  <2>5. b \in D /\ Good(b) /\ ~Found(b)
    BY <2>4
  <2>6. ASSUME NEW c \in D, Good(c), Width(c) < Width(b) PROVE Found(c)
    <3>1. Width(c) \in Nat /\ Width(b) \in Nat
      BY <2>5, MiddleFacts
    <3>2. ASSUME c \in Q PROVE FALSE
      <4>1. Width(c) \in widths
        BY <3>2
      <4> HIDE DEF widths, Q
      <4>2. n <= Width(c)
        BY <2>3, <4>1
      <4> QED BY <4>2, <2>4, <2>6, <3>1
    <3> HIDE DEF Found, Good, D
    <3> QED BY <3>2, <2>6
  <2> DEFINE m == Middle(b)
             right == <<m + 1, b[2]>>
             left == <<b[1], m>>
  <2>7. /\ ~(m + 1 >= b[2]) => right \in D /\ Width(right) < Width(b)
        /\ ~(b[1] >= m) => left \in D /\ Width(left) < Width(b)
    BY <2>5, MiddleFacts
  <2>8. IF SourceBlockCount(words, m) > blockcount
        THEN IF m + 1 >= b[2] THEN LeastSize(words, blockcount, m + 1) ELSE Good(right)
        ELSE IF b[1] >= m THEN LeastSize(words, blockcount, m) ELSE Good(left)
    BY <2>5, BracketMoves
  <2>9. bisect[b] = IF SourceBlockCount(words, m) > blockcount
                    THEN IF m + 1 >= b[2] THEN m + 1 ELSE bisect[right]
                    ELSE IF b[1] >= m THEN m ELSE bisect[left]
    BY <1>8, <2>5 DEF More
  <2> HIDE DEF m, right, left, D, Good, Q
  <2>10. Found(b)
    <3>1. CASE SourceBlockCount(words, m) > blockcount /\ m + 1 >= b[2]
      BY <2>8, <2>9, <3>1
    <3>2. CASE SourceBlockCount(words, m) > blockcount /\ ~(m + 1 >= b[2])
      BY <2>6, <2>7, <2>8, <2>9, <3>2
    <3>3. CASE ~(SourceBlockCount(words, m) > blockcount) /\ b[1] >= m
      BY <2>8, <2>9, <3>3
    <3>4. CASE ~(SourceBlockCount(words, m) > blockcount) /\ ~(b[1] >= m)
      BY <2>6, <2>7, <2>8, <2>9, <3>4
    <3> QED BY <3>1, <3>2, <3>3, <3>4
  <2> QED BY <2>5, <2>10
<1> DEFINE start == <<lower, upper>>
<1>10. start \in D /\ Good(start)
  BY DEF Bracketed
<1>11. Found(start)
  <2> HIDE DEF start, D, Good, Found
  <2> QED BY <1>9, <1>10
<1> QED BY <1>1, <1>11

LEMMA WordsCount ==
  ASSUME NEW F, IsFiniteSet(F), NEW sized \in [F -> Nat], NEW words, words = [x \in F |-> Ceil(sized[x], Align)]
  PROVE  /\ words \in [F -> Nat]
         /\ SourceBlockCount(sized, Align) = Total(words)
         /\ \A size \in Nat \ {0} : SourceBlockCount(sized, Align * size) = SourceBlockCount(words, size)
<1>1. Align \in Nat \ {0}
  BY CommandLineAssumption
<1>2. words \in [F -> Nat]
  BY <1>1, CeilFacts
<1>3. SourceBlockCount(sized, Align) = Total(words)
  <2>1. IsSum(SourceBlockCount(sized, Align), F, words)
    BY <1>1, CountIsSum
  <2>2. IsSum(Total(words), F, words)
    BY <1>2, TotalIsSum
  <2> QED BY <1>2, <2>1, <2>2, SumsEqual
<1>4. ASSUME NEW size \in Nat \ {0}
      PROVE  SourceBlockCount(sized, Align * size) = SourceBlockCount(words, size)
  <2> DEFINE whole == Align * size
             g == [x \in F |-> Ceil(sized[x], whole)]
             h == [x \in F |-> Ceil(words[x], size)]
  <2>1. whole \in Nat \ {0}
    BY <1>1
  <2>2. g = h
    <3>1. \A x \in F : Ceil(sized[x], whole) = Ceil(words[x], size)
      <4> TAKE x \in F
      <4>1. sized[x] \in Nat /\ words[x] = Ceil(sized[x], Align)
        OBVIOUS
      <4> QED BY <1>1, <4>1, CeilOfCeil
    <3> QED BY <3>1
  <2> HIDE DEF whole
  <2>3. g \in [F -> Nat] /\ IsSum(SourceBlockCount(sized, whole), F, g)
    BY <2>1, CountIsSum
  <2>4. IsSum(SourceBlockCount(words, size), F, h)
    BY <1>2, CountIsSum
  <2> HIDE DEF g, h
  <2>5. SourceBlockCount(sized, whole) = SourceBlockCount(words, size)
    BY <2>2, <2>3, <2>4, SumsEqual
  <2> QED BY <2>5 DEF whole
<1> QED BY <1>2, <1>3, <1>4

(* As many blocks as files: one each, and the least size for the largest.  *)
LEMMA OneBlockEach ==
  ASSUME NEW F, IsFiniteSet(F), NEW sized \in [F -> Nat \ {0}], NEW size \in Nat \ {0},
         \A x \in F : sized[x] <= size
  PROVE  SourceBlockCount(sized, size) <= Cardinality(F)
<1> DEFINE g == [x \in F |-> Ceil(sized[x], size)]
           needed == SourceBlockCount(sized, size)
           N == Cardinality(F)
           one == 1
           zero == 0
<1>1. sized \in [F -> Nat]
  OBVIOUS
<1>2. g \in [F -> Nat] /\ IsSum(needed, F, g)
  BY <1>1, CountIsSum
<1>3. N \in Nat /\ needed \in Nat
  BY <1>2, FS_CardinalityType, SumIsNatural
<1>4. \A x \in F : one * g[x] <= zero * g[x] + one
  <2> TAKE x \in F
  <2>1. sized[x] \in Nat /\ g[x] = Ceil(sized[x], size) /\ sized[x] <= size * one
    OBVIOUS
  <2>2. one \in Nat
    OBVIOUS
  <2>3. g[x] \in Nat
    BY <1>2
  <2> HIDE DEF g, one
  <2>4. g[x] <= one
    BY <2>1, <2>2, CeilLeast
  <2> QED BY <2>3, <2>4 DEF one
<1>5. one \in Nat /\ zero \in Nat /\ one \in Int
  OBVIOUS
<1> HIDE DEF g, needed, one, zero
<1>6. one * needed <= zero * needed + one * N
  BY <1>2, <1>4, <1>5, SumsCompare DEF N
<1> HIDE DEF N
<1>7. needed <= N
  BY <1>3, <1>6 DEF one, zero
<1> QED BY <1>7 DEF needed, N

LEMMA OneHasMore ==
  ASSUME NEW F, IsFiniteSet(F), NEW sized \in [F -> Nat \ {0}], NEW size \in Nat \ {0},
         NEW largest \in F, size < sized[largest]
  PROVE  SourceBlockCount(sized, size) > Cardinality(F)
<1> DEFINE g == [x \in F |-> Ceil(sized[x], size)]
           needed == SourceBlockCount(sized, size)
           N == Cardinality(F)
           one == 1
           zero == 0
           less == -1
<1>1. sized \in [F -> Nat]
  OBVIOUS
<1>2. g \in [F -> Nat] /\ IsSum(needed, F, g)
  <2>1. IsFiniteSet(F) /\ size \in Nat \ {0}
    OBVIOUS
  <2> QED BY ONLY <1>1, <2>1, CountIsSum
<1>3. N \in Nat /\ needed \in Nat
  BY <1>2, FS_CardinalityType, SumIsNatural
<1>4. \A x \in F : zero * g[x] <= one * g[x] + less
  <2> TAKE x \in F
  <2>1. sized[x] \in Nat /\ sized[x] > 0 /\ g[x] = Ceil(sized[x], size)
    OBVIOUS
  <2>2. g[x] \in Nat /\ g[x] > 0
    BY <2>1, CeilFacts
  <2> HIDE DEF g
  <2> QED BY <2>2
<1>5. zero * g[largest] < one * g[largest] + less
  <2>1. sized[largest] \in Nat /\ g[largest] = Ceil(sized[largest], size) /\ ~(sized[largest] <= size * one)
    OBVIOUS
  <2>2. one \in Nat
    OBVIOUS
  <2>3. g[largest] \in Nat
    BY <1>2
  <2> HIDE DEF g, one
  <2>4. ~(g[largest] <= one)
    BY <2>1, <2>2, CeilLeast
  <2> QED BY <2>3, <2>4 DEF one
<1>6. one \in Nat /\ zero \in Nat /\ less \in Int
  OBVIOUS
<1> HIDE DEF g, needed, one, zero, less
<1>7. zero * needed < one * needed + less * N
  BY <1>2, <1>4, <1>5, <1>6, SumsCompare DEF N
<1> HIDE DEF N
<1>8. N < needed
  BY <1>3, <1>7 DEF one, zero, less
<1> QED BY <1>3, <1>8 DEF needed, N

(* The bounds that the bisection starts with are around the least size,    *)
(* when there are more blocks than files and no more than words.           *)
LEMMA StartBrackets ==
  ASSUME NEW F, IsFiniteSet(F), NEW words \in [F -> Nat], NEW blockcount \in Nat,
         blockcount > Cardinality(F), blockcount <= Total(words),
         NEW lower, lower = Total(words) \div blockcount,
         NEW upper, upper = Ceil(Total(words), blockcount - Cardinality(F))
  PROVE  Bracketed(words, blockcount, <<lower, upper>>)
<1> DEFINE total == Total(words)
           N == Cardinality(F)
           B == blockcount
           room == B - N
<1>1. total \in Nat /\ N \in Nat
  BY TotalNatural, FS_CardinalityType
<1>2. N < B /\ B <= total
  OBVIOUS
<1>3. B \in Nat \ {0} /\ room \in Nat \ {0} /\ room <= B
  BY <1>1, <1>2
<1>4. lower \in Nat /\ B * lower <= total /\ total < B * lower + B
  BY <1>1, <1>3, Division
<1>5. upper \in Nat /\ total <= room * upper
  BY <1>1, <1>3, CeilFacts
<1>6. lower > 0
  <2>1. lower = 0 => B * lower = 0
    BY <1>3
  <2> QED BY <1>1, <1>2, <1>3, <1>4, <2>1
<1>7. lower <= upper
  <2>1. SUFFICES ASSUME upper < lower PROVE FALSE
    BY <1>4, <1>5
  <2> HIDE DEF room
  <2>2. room * upper <= B * upper /\ B * upper \in Nat /\ room * upper \in Nat
    BY <1>3, <1>5, Monotone
  <2>3. B * lower <= B * upper
    BY <1>1, <1>4, <1>5, <2>2
  <2>4. (upper + 1) * B <= lower * B
    <3>1. upper + 1 \in Nat /\ upper + 1 <= lower
      BY <1>4, <1>5, <2>1
    <3> QED BY <1>3, <1>4, <3>1, Monotone
  <2>5. (upper + 1) * B = B * upper + B /\ lower * B = B * lower
    BY <1>3, <1>4, <1>5
  <2>6. B * lower \in Nat
    BY <1>3, <1>4
  <2> QED BY <1>3, <2>2, <2>3, <2>4, <2>5, <2>6
<1>8. SourceBlockCount(words, upper) <= blockcount
  <2>1. upper \in Nat \ {0}
    BY <1>4, <1>5, <1>6, <1>7
  <2> QED BY <1>1, <1>2, <1>5, <2>1, UpperFits
<1>9. lower = 1 \/ SourceBlockCount(words, lower - 1) > blockcount
  <2>1. SUFFICES ASSUME lower # 1 PROVE SourceBlockCount(words, lower - 1) > blockcount
    OBVIOUS
  <2>2. lower - 1 \in Nat \ {0}
    BY <1>4, <1>6, <2>1
  <2>3. B * (lower - 1) = B * lower - B /\ B * lower \in Nat
    BY <1>3, <1>4
  <2>4. B * (lower - 1) < total
    BY <1>1, <1>3, <1>4, <2>3
  <2> QED BY <2>2, <2>4, SmallerFails
<1> DEFINE b == <<lower, upper>>
<1>10. b \in Nat \X Nat /\ b[1] = lower /\ b[2] = upper
  BY <1>4, <1>5
<1> HIDE DEF b
<1>11. Bracketed(words, blockcount, b)
  BY <1>6, <1>7, <1>8, <1>9, <1>10 DEF Bracketed
<1> QED BY <1>11 DEF b

(* A block size that gives no more blocks than asked for, when one less    *)
(* would give more.                                                        *)
FitsCount(sized, blockcount, size) ==
  /\ SourceBlockCount(sized, size) <= blockcount
  /\ size > Align => SourceBlockCount(sized, size - Align) > blockcount

LEMMA ComputeBlockSizeFits ==
  ASSUME NEW F, IsFiniteSet(F), F # {}, NEW sized \in [F -> Nat \ {0}], NEW blockcount \in Nat,
         NEW size, size = ComputeBlockSize(sized, blockcount), size # None
  PROVE  size \in Nat \ {0} /\ FitsCount(sized, blockcount, size)
<1> DEFINE words == [f \in F |-> Ceil(sized[f], Align)]
           S == {sized[f] : f \in F}
           filecount == Cardinality(F)
           total == Total(words)
           found == Bisect(words, blockcount)
<1>1. Align \in Nat \ {0}
  BY CommandLineAssumption
<1>2. sized \in [F -> Nat]
  OBVIOUS
<1>3. /\ words \in [F -> Nat] /\ SourceBlockCount(sized, Align) = total
      /\ \A n \in Nat \ {0} : SourceBlockCount(sized, Align * n) = SourceBlockCount(words, n)
  BY <1>2, WordsCount
<1>4. filecount \in Nat \ {0} /\ DOMAIN sized = F /\ DOMAIN words = F /\ total \in Nat
  BY <1>3, FS_CardinalityType, FS_EmptySet, TotalNatural
<1>5. /\ ~(blockcount < filecount)
      /\ size = IF blockcount = filecount THEN RoundUp(Max(S))
                ELSE IF blockcount > total THEN Align
                ELSE IF SourceBlockCount(words, found) \in 1 .. MaxBlocks THEN Align * found ELSE None
  BY <1>4 DEF ComputeBlockSize
<1>6. CASE blockcount = filecount
  <2> DEFINE most == Max(S)
             q == Ceil(most, Align)
  <2>1. most \in S /\ \A n \in S : n <= most
    <3>1. S \in SUBSET Nat /\ S # {}
      OBVIOUS
    <3>2. IsFiniteSet(S)
      <4>1. sized \in Surjection(F, S)
        BY DEF Surjection
      <4> QED BY <4>1, FS_Surjection
    <3> HIDE DEF S
    <3> QED BY <3>1, <3>2, MaxNatural
  <2> HIDE DEF most
  <2>2. PICK largest \in F : sized[largest] = most
    BY <2>1
  <2>3. most \in Nat /\ most > 0 /\ \A x \in F : sized[x] <= most
    BY <2>1
  <2>4. q \in Nat /\ q > 0 /\ most <= Align * q
    BY <1>1, <2>3, CeilFacts
  <2>5. ASSUME NEW k \in Nat, k < q PROVE Align * k < most
    <3>1. k * Align < most
      BY <1>1, <2>3, <2>5, BlocksCover
    <3> QED BY <1>1, <3>1
  <2>6. size = Align * q
    BY <1>5, <1>6 DEF RoundUp, most
  <2> HIDE DEF q
  <2>7. size \in Nat \ {0} /\ \A x \in F : sized[x] <= size
    <3>1. size \in Nat /\ most <= size
      BY <1>1, <2>4, <2>6
    <3>2. \A x \in F : sized[x] \in Nat
      OBVIOUS
    <3> QED BY <2>3, <3>1, <3>2
  <2>8. SourceBlockCount(sized, size) <= blockcount
    BY <1>6, <2>7, OneBlockEach
  <2>9. ASSUME size > Align PROVE SourceBlockCount(sized, size - Align) > blockcount
    <3> DEFINE less == size - Align
    <3>1. q - 1 \in Nat /\ q - 1 < q /\ less = Align * (q - 1)
      BY <1>1, <2>4, <2>6
    <3>2. less < sized[largest]
      BY <2>2, <2>5, <3>1
    <3>3. less \in Nat \ {0}
      BY <1>1, <2>7, <2>9
    <3> HIDE DEF less
    <3>4. SourceBlockCount(sized, less) > filecount
      BY <3>2, <3>3, OneHasMore
    <3> QED BY <1>6, <3>4 DEF less
  <2> QED BY <2>7, <2>8, <2>9 DEF FitsCount
<1>7. CASE blockcount # filecount /\ blockcount > total
  <2>1. size = Align
    BY <1>5, <1>7
  <2>2. SourceBlockCount(sized, size) <= blockcount
    BY <1>3, <1>4, <1>7, <2>1
  <2>3. ~(size > Align)
    BY <1>1, <2>1
  <2> QED BY <1>1, <2>1, <2>2, <2>3 DEF FitsCount
<1>8. CASE blockcount # filecount /\ ~(blockcount > total)
  <2> HIDE DEF words, S
  <2>1. blockcount > filecount /\ blockcount <= total
    BY <1>4, <1>5, <1>8
  <2>2. LeastSize(words, blockcount, found)
    <3> DEFINE lower == total \div blockcount
               upper == Ceil(total, blockcount - filecount)
    <3> HIDE DEF lower, upper
    <3>1. lower = Total(words) \div blockcount /\ upper = Ceil(Total(words), blockcount - Cardinality(F))
      BY DEF lower, upper
    <3>2. Bracketed(words, blockcount, <<lower, upper>>)
      BY <1>3, <2>1, <3>1, StartBrackets
    <3>3. upper = Ceil(Total(words), blockcount - Cardinality(DOMAIN words))
      BY <1>4, <3>1
    <3> QED BY <1>3, <3>1, <3>2, <3>3, BisectFinds
  <2> HIDE DEF found, total
  <2>3. size = Align * found
    BY <1>5, <1>8
  <2>4. found \in Nat \ {0} /\ size \in Nat \ {0}
    BY <1>1, <2>2, <2>3 DEF LeastSize
  <2>5. SourceBlockCount(sized, size) <= blockcount
    BY <1>3, <2>2, <2>3, <2>4 DEF LeastSize
  <2>6. ASSUME size > Align PROVE SourceBlockCount(sized, size - Align) > blockcount
    <3>1. found # 1
      BY <1>1, <2>3, <2>6
    <3>2. found - 1 \in Nat \ {0} /\ size - Align = Align * (found - 1)
      BY <1>1, <2>3, <2>4, <3>1
    <3>3. SourceBlockCount(words, found - 1) > blockcount
      BY <2>2, <3>1 DEF LeastSize
    <3>4. SourceBlockCount(sized, Align * (found - 1)) = SourceBlockCount(words, found - 1)
      BY <1>3, <3>2
    <3> QED BY <3>2, <3>3, <3>4
  <2> QED BY <2>4, <2>5, <2>6 DEF FitsCount
<1> QED BY <1>6, <1>7, <1>8

LEMMA RoundUpFacts ==
  ASSUME NEW size \in Nat
  PROVE  RoundUp(size) \in Nat /\ (size > 0 => RoundUp(size) > 0)
<1>1. Align \in Nat \ {0}
  BY CommandLineAssumption
<1> DEFINE q == Ceil(size, Align)
<1>2. q \in Nat /\ (size > 0 => q > 0)
  BY <1>1, CeilFacts
<1> HIDE DEF q
<1>3. Align * q \in Nat /\ (q > 0 => Align * q > 0)
  BY <1>1, <1>2
<1> QED BY <1>2, <1>3 DEF RoundUp, q

LEMMA DefaultBlockSizePositive ==
  ASSUME NEW F, IsFiniteSet(F), NEW sized \in [F -> Nat]
  PROVE  DefaultBlockSize(sized) \in Nat \ {0}
<1> DEFINE sizing(count) == RoundUp(Max({Align, Ceil(Total(sized), count)}))
<1>1. ASSUME NEW count \in Nat \ {0} PROVE sizing(count) \in Nat \ {0}
  <2> DEFINE part == Ceil(Total(sized), count)
  <2>1. Align \in Nat \ {0}
    BY CommandLineAssumption
  <2>2. part \in Nat
    BY TotalNatural, CeilFacts
  <2> HIDE DEF part
  <2>3. Max({Align, part}) \in {Align, part} /\ Align <= Max({Align, part})
    BY <2>1, <2>2, MaxOfTwo
  <2> DEFINE most == Max({Align, part})
  <2>4. most \in Nat /\ most > 0
    BY <2>1, <2>2, <2>3
  <2> HIDE DEF most
  <2>5. RoundUp(most) \in Nat /\ RoundUp(most) > 0
    BY <2>4, RoundUpFacts
  <2> QED BY <2>5 DEF most, part
<1>2. TargetBlocks \in Nat \ {0} /\ MaxBlocks \in Nat \ {0}
  BY CommandLineAssumption
<1> DEFINE first == sizing(TargetBlocks)
           second == sizing(MaxBlocks)
<1>3. DefaultBlockSize(sized) = Max({first, second})
  BY DEF DefaultBlockSize
<1> HIDE DEF sizing
<1>4. first \in Nat \ {0} /\ second \in Nat \ {0}
  BY <1>1, <1>2
<1> HIDE DEF first, second
<1>5. Max({first, second}) \in {first, second}
  <2>1. first \in Int /\ second \in Int
    BY <1>4
  <2> QED BY <2>1, MaxOfTwo
<1> QED BY <1>3, <1>4, <1>5

LEMMA InSizeNatural ==
  ASSUME NEW redundancysize \in Nat, NEW blocks \in Nat, NEW size \in Nat, NEW wanted \in Nat
  PROVE  RecoveryBlocksInSize(redundancysize, blocks, size, wanted) \in Nat
<1> DEFINE overhead == wanted * blocks * 21
<1>1. overhead \in Nat
  <2>1. wanted * blocks \in Nat
    OBVIOUS
  <2> QED BY <2>1
<1> HIDE DEF overhead
<1>2. ASSUME ~(overhead > redundancysize) PROVE (redundancysize - overhead) \div (size + 70) \in Nat
  <2> DEFINE n == redundancysize - overhead
             d == size + 70
  <2>1. n \in Nat /\ d \in Nat \ {0}
    BY <1>1, <1>2
  <2> HIDE DEF n, d
  <2>2. n \div d \in Nat
    BY <2>1, Division
  <2> QED BY <2>2 DEF n, d
<1> QED BY <1>2 DEF RecoveryBlocksInSize, overhead

LEMMA RecoveryBlockCountNatural ==
  ASSUME NEW a \in Asks, NEW blocks \in Nat, NEW size \in Nat, NEW largest \in Nat \ {0}
  PROVE  ComputeRecoveryBlockCount(a, blocks, size, largest) \in Nat \union {None}
<1>1. /\ a.recoveryblockcount \in Nat \union {None} /\ a.redundancy \in Nat
      /\ a.redundancysize \in Nat /\ a.recoveryfilecount \in Nat
  BY CreatorAssumption
<1> DEFINE InSize(wanted) == RecoveryBlocksInSize(a.redundancysize, blocks, size, wanted)
           found == ComputeRecoveryFileCount(a.scheme, 0, InSize(15), largest)
           count == IF a.recoveryfilecount # 0 THEN a.recoveryfilecount ELSE found
           share == Max({1, (blocks * a.redundancy + 50) \div 100})
           number == IF a.recoveryblockcount # None THEN a.recoveryblockcount
                     ELSE IF a.redundancy > 0 THEN share
                     ELSE IF a.redundancysize = 0 \/ count = None THEN None
                     ELSE InSize(count)
<1>2. \A wanted \in Nat : InSize(wanted) \in Nat
  BY <1>1, InSizeNatural
<1>3. found \in Nat \union {None}
  <2> DEFINE n == InSize(15)
             scheme == a.scheme
             zero == 0
  <2>1. n \in Nat /\ zero \in Nat
    BY <1>2
  <2> HIDE DEF n, scheme, zero
  <2>2. ComputeRecoveryFileCount(scheme, zero, n, largest) \in Nat \union {None}
    BY <2>1, FileCountNatural
  <2> QED BY <2>2 DEF n, scheme, zero
<1>4. share \in Nat
  <2> DEFINE n == (blocks * a.redundancy + 50) \div 100
             one == 1
  <2>1. n \in Nat
    <3> DEFINE product == blocks * a.redundancy
    <3>1. product \in Nat
      BY <1>1
    <3> HIDE DEF product
    <3>2. (product + 50) \div 100 \in Nat
      BY <3>1
    <3> QED BY <3>2 DEF product
  <2> HIDE DEF n
  <2>2. n \in Int /\ one \in Int
    BY <2>1
  <2> HIDE DEF one
  <2>3. Max({one, n}) \in {one, n}
    BY <2>2, MaxOfTwo
  <2> QED BY <2>1, <2>3 DEF n, one
<1>5. ComputeRecoveryBlockCount(a, blocks, size, largest) =
        IF number = None \/ number > MaxExponents \/ a.firstblock + number >= MaxExponents
        THEN None ELSE number
  BY DEF ComputeRecoveryBlockCount
<1> HIDE DEF share, found, InSize
<1>6. number \in Nat \union {None}
  BY <1>1, <1>2, <1>3, <1>4
<1> HIDE DEF number
<1> QED BY <1>5, <1>6

(* What the command line computes is a size and a number.                  *)
LEMMA ParsedSizes ==
  ASSUME Shape, NEW size, size # None,
         size = IF ask.blocksize # None THEN ask.blocksize
                ELSE IF ask.blockcount # None THEN ComputeBlockSize(FileSizes, ask.blockcount)
                ELSE DefaultBlockSize(FileSizes)
  PROVE  /\ size \in Nat \ {0}
         /\ ComputeRecoveryBlockCount(ask, SourceBlockCount(FileSizes, size), size,
              Ceil(Max({Len(disk[f]) : f \in DOMAIN disk}), size)) \in Nat \union {None}
<1> DEFINE F == DOMAIN disk
           sized == FileSizes
           lengths == {Len(disk[f]) : f \in F}
<1>1. ask \in Asks /\ IsFiniteSet(F) /\ F # {} /\ disk \in [F -> Seq(Field) \ {<<>>}]
  BY CreatorAssumption DEF Shape
<1>2. ask.blocksize \in (Nat \ {0}) \union {None} /\ ask.blockcount \in Nat \union {None}
  BY <1>1, CreatorAssumption
<1>3. sized \in [F -> Nat \ {0}]
  <2>1. \A f \in F : Len(disk[f]) \in Nat \ {0}
    <3> TAKE f \in F
    <3>1. disk[f] \in Seq(Field) /\ disk[f] # <<>>
      BY <1>1
    <3> QED BY <3>1
  <2> QED BY <2>1 DEF FileSizes
<1>4. lengths \in SUBSET Nat /\ lengths # {} /\ IsFiniteSet(lengths) /\ 0 \notin lengths
  <2>1. lengths = {sized[f] : f \in F}
    BY DEF FileSizes
  <2> HIDE DEF sized, lengths, F
  <2>2. sized \in Surjection(F, lengths)
    BY <1>3, <2>1 DEF Surjection
  <2>3. IsFiniteSet(lengths)
    BY <1>1, <2>2, FS_Surjection
  <2> QED BY <1>1, <1>3, <2>1, <2>3
<1> HIDE DEF sized, lengths
<1>5. sized \in [F -> Nat]
  <2> HIDE DEF F
  <2> QED BY <1>3
<1> HIDE DEF F
<1>6. size \in Nat \ {0}
  <2>1. DefaultBlockSize(sized) \in Nat \ {0}
    BY <1>1, <1>5, DefaultBlockSizePositive
  <2>2. ask.blockcount # None => ComputeBlockSize(sized, ask.blockcount) \in (Nat \ {0}) \union {None}
    <3> DEFINE blockcount == ask.blockcount
    <3> HIDE DEF blockcount
    <3>1. blockcount \in Nat => ComputeBlockSize(sized, blockcount) \in (Nat \ {0}) \union {None}
      BY <1>1, <1>3, ComputeBlockSizeFits
    <3> QED BY <3>1, <1>2 DEF blockcount
  <2> QED BY <1>2, <2>1, <2>2 DEF sized
<1> DEFINE blocks == SourceBlockCount(sized, size)
           most == Max(lengths)
           largest == Ceil(most, size)
<1>7. blocks \in Nat
  BY <1>1, <1>5, <1>6, CountNatural
<1>8. most \in Nat /\ most > 0
  <2>1. most \in lengths
    BY <1>4, MaxNatural
  <2>2. \A n \in lengths : n \in Nat /\ n > 0
    BY <1>4
  <2> QED BY <2>1, <2>2
<1> HIDE DEF blocks, most
<1>9. largest \in Nat /\ largest > 0
  BY <1>6, <1>8, CeilFacts
<1> HIDE DEF largest
<1>10. ComputeRecoveryBlockCount(ask, blocks, size, largest) \in Nat \union {None}
  BY <1>1, <1>6, <1>7, <1>9, RecoveryBlockCountNatural
<1> QED BY <1>6, <1>10 DEF blocks, most, largest, lengths, sized, F

-----------------------------------------------------------------------------
(* What is read, and the first steps.                                      *)

LEMMA FieldFacts == Field \in SUBSET Nat /\ 0 \in Field /\ \A v \in Field : (v + 1) % Count \in Field
<1>1. Count \in Nat \ {0}
  BY CountAssumption
<1> HIDE DEF Count
<1>2. 0 \in 0 .. Count - 1 /\ (0 .. Count - 1) \in SUBSET Nat
  BY <1>1
<1>3. \A v \in 0 .. Count - 1 : (v + 1) % Count \in 0 .. Count - 1
  BY <1>1
<1> QED BY <1>2, <1>3 DEF Field, Limit

(* A part of a block, from a place in it.                                  *)
IsPart(data, block, position, length) ==
  \A p \in 1 .. length : position + p \in 1 .. blocksize /\ data[p] = block[position + p]

LEMMA ReadDataFacts ==
  ASSUME Shape, NEW f \in DOMAIN disk, NEW n \in Nat \ {0}, NEW position \in Nat, NEW length \in Nat
  PROVE  /\ ReadData(<<f, n>>, position, length) \in [1 .. length -> Field]
         /\ position + length <= blocksize =>
              IsPart(ReadData(<<f, n>>, position, length), ReadData(<<f, n>>, 0, blocksize), position, length)
<1> DEFINE content == disk[f]
           offset == (n - 1) * blocksize
           Byte(q) == IF q <= Len(content) THEN content[q] ELSE 0
<1>1. blocksize \in Nat
  BY DEF Shape
<1>2. offset \in Nat
  <2>1. n - 1 \in Nat
    OBVIOUS
  <2> QED BY <1>1, <2>1
<1>3. content \in Seq(Field)
  BY DEF Shape
<1>4. /\ ReadData(<<f, n>>, position, length) = [p \in 1 .. length |-> Byte(offset + position + p)]
      /\ ReadData(<<f, n>>, 0, blocksize) = [p \in 1 .. blocksize |-> Byte(offset + 0 + p)]
  BY DEF ReadData
<1> HIDE DEF content, offset
<1>5. \A q \in Nat \ {0} : Byte(q) \in Field
  <2> TAKE q \in Nat \ {0}
  <2>1. q <= Len(content) => content[q] \in Field
    <3> HIDE DEF Field
    <3> QED BY <1>3
  <2> QED BY <2>1, FieldFacts
<1> HIDE DEF Byte
<1>6. ReadData(<<f, n>>, position, length) \in [1 .. length -> Field]
  <2>1. \A p \in 1 .. length : offset + position + p \in Nat \ {0}
    BY <1>2
  <2> QED BY <1>4, <1>5, <2>1
<1>7. ASSUME position + length <= blocksize, NEW p \in 1 .. length
      PROVE  /\ position + p \in 1 .. blocksize
             /\ ReadData(<<f, n>>, position, length)[p] = ReadData(<<f, n>>, 0, blocksize)[position + p]
  <2>1. position + p \in 1 .. blocksize
    BY <1>1, <1>7
  <2>2. offset + position + p = offset + 0 + (position + p)
    BY <1>2
  <2> QED BY <1>4, <2>1, <2>2
<1> QED BY <1>6, <1>7 DEF IsPart

(* Before a file is opened there is nothing else to say.                   *)
Early ==
  /\ Shape /\ changes \in Nat /\ pc \in Sizing \union {"OpenSourceFiles", "Done"}
  /\ sourcefiles = <<>> /\ headers = {} /\ written = 0
  /\ DOMAIN descriptions = {} /\ DOMAIN verifications = {} /\ DOMAIN contextfull = {}
  /\ verifications = [f \in DOMAIN verifications |-> verifications[f]]
  /\ blockoffset = 0 /\ inputblock = 1 /\ sourcefile = 1 /\ sourceindex = 0 /\ outputblock = 1

LEMMA EarlyHolds == Early => IInv
<1> SUFFICES ASSUME Early PROVE IInv
  OBVIOUS
<1>1. ToSet(sourcefiles) = {}
  BY DEF Early, ToSet
<1>2. Shape
  BY DEF Early
<1>3. Hashed
  BY <1>1 DEF Early, Hashed
<1>4. Staged
  BY DEF Early, Staged, Sizing, Reading
<1>5. pc # "ProcessData" /\ pc # "WriteHeaders" /\ pc # "WriteCriticalPackets"
  BY DEF Early, Sizing
<1>6. CursorsAgree /\ Passing /\ SumsTrue
  BY <1>5 DEF CursorsAgree, Passing, SumsTrue
<1>7. DataWritten
  BY <1>5 DEF DataWritten, Early
<1>8. HashesDone
  BY <1>5 DEF HashesDone, Early
<1> QED BY <1>2, <1>3, <1>4, <1>6, <1>7, <1>8 DEF IInv

LEMMA EarlyStates == (IInv /\ pc \in Sizing) => Early
<1> SUFFICES ASSUME IInv, pc \in Sizing PROVE Early
  OBVIOUS
<1>1. sourcefiles = <<>>
  BY DEF IInv, Shape
<1>2. ToSet(sourcefiles) = {}
  BY <1>1 DEF ToSet
<1> QED BY <1>1, <1>2 DEF IInv, Hashed, Staged, Early, Reading, Sizing

LEMMA InitHolds == Init => IInv
<1> SUFFICES ASSUME Init PROVE Early
  BY EarlyHolds
<1>1. /\ ask \in Asks /\ disk = ask.files
      /\ ask.files \in [DOMAIN ask.files -> Seq(Field) \ {<<>>}]
  BY CreatorAssumption DEF Init
<1>2. Shape
  <2>1. /\ pc = "Parse" /\ sourcefiles = <<>> /\ deferhashcomputation = FALSE
        /\ blocksize = 0 /\ recoveryblockcount = 0 /\ chunksize = 0
    BY DEF Init
  <2>2. <<>> \in Seq(DOMAIN disk)
    OBVIOUS
  <2>3. DOMAIN disk = DOMAIN ask.files /\ disk \in [DOMAIN disk -> Seq(Field) \ {<<>>}]
    BY <1>1
  <2>4. sourcefiles \in Seq(DOMAIN disk)
    BY <2>1, <2>2
  <2>5. {blocksize, recoveryblockcount, chunksize} \subseteq Nat
    <3>1. 0 \in Nat
      OBVIOUS
    <3> QED BY <2>1, <3>1
  <2>7. ~deferhashcomputation /\ deferhashcomputation \in BOOLEAN
    BY <2>1, Zenon
  <2>6. pc \in Sizing
    BY <2>1 DEF Sizing
  <2> QED BY <1>1, <2>1, <2>3, <2>4, <2>5, <2>6, <2>7 DEF Shape
<1>3. DOMAIN descriptions = {} /\ DOMAIN verifications = {} /\ DOMAIN contextfull = {}
  BY DEF Init
<1>4. verifications = [f \in DOMAIN verifications |-> verifications[f]]
  BY DEF Init
<1> QED BY <1>2, <1>3, <1>4 DEF Init, Early, Sizing

LEMMA ParseKeeps == (IInv /\ Parse) => IInv'
<1> SUFFICES ASSUME IInv, Parse PROVE Early'
  BY EarlyHolds, PTL
<1>1. pc = "Parse" /\ Early
  BY EarlyStates DEF Parse, Sizing
<1>2. Shape'
  <2>1. UNCHANGED <<input, sourcefiles>>
    BY DEF Parse
  <2>2. CASE pc' = "Done" /\ UNCHANGED sizes
    BY <1>1, <2>1, <2>2 DEF Early, Shape, Sizing, input, sizes
  <2>3. CASE ~(pc' = "Done" /\ UNCHANGED sizes)
    <3> DEFINE size == IF ask.blocksize # None THEN ask.blocksize
                       ELSE IF ask.blockcount # None THEN ComputeBlockSize(FileSizes, ask.blockcount)
                       ELSE DefaultBlockSize(FileSizes)
               number == ComputeRecoveryBlockCount(ask, SourceBlockCount(FileSizes, size), size,
                           Ceil(Max({Len(disk[f]) : f \in DOMAIN disk}), size))
    <3>1. /\ size # None /\ number # None /\ pc' = "CheckBasepath"
          /\ blocksize' = size /\ recoveryblockcount' = number
          /\ UNCHANGED <<recoveryfilecount, chunksize, deferhashcomputation>>
      BY <2>3 DEF Parse, Stop, Goto
    <3> HIDE DEF size
    <3>2. size \in Nat \ {0} /\ number \in Nat \union {None}
      BY <1>1, <3>1, ParsedSizes DEF size, Early
    <3> HIDE DEF number
    <3> QED BY <1>1, <2>1, <3>1, <3>2 DEF Early, Shape, Sizing, input
  <2> QED BY <2>2, <2>3
<1>3. UNCHANGED <<input, sourcefiles, hashes, cursor, packets>> /\ pc' \in {"Done", "CheckBasepath"}
  BY DEF Parse, Stop, Goto
<1> QED BY <1>1, <1>2, <1>3 DEF Early, input, hashes, cursor, packets, Sizing

LEMMA CheckBasepathKeeps == (IInv /\ CheckBasepath) => IInv'
<1> SUFFICES ASSUME IInv, CheckBasepath PROVE Early'
  BY EarlyHolds, PTL
<1>1. pc = "CheckBasepath" /\ Early
  BY EarlyStates DEF CheckBasepath, Sizing
<1>2. UNCHANGED <<input, sizes, sourcefiles, hashes, cursor, packets>> /\ pc' \in {"Done", "Compute"}
  BY DEF CheckBasepath, Stop, Goto
<1>3. Shape'
  BY <1>1, <1>2 DEF Early, Shape, Sizing, input, sizes
<1> QED BY <1>1, <1>2, <1>3 DEF Early, input, hashes, cursor, packets, Sizing

LEMMA ComputeSizesKeeps == (IInv /\ ComputeSizes) => IInv'
<1> SUFFICES ASSUME IInv, ComputeSizes PROVE Early'
  BY EarlyHolds, PTL
<1>1. pc = "Compute" /\ Early
  BY EarlyStates DEF ComputeSizes, Sizing
<1>2. Shape'
  <2>1. UNCHANGED <<input, sourcefiles>>
    BY DEF ComputeSizes
  <2>2. CASE pc' = "Done" /\ UNCHANGED sizes
    BY <1>1, <2>1, <2>2 DEF Early, Shape, Sizing, input, sizes
  <2>3. CASE ~(pc' = "Done" /\ UNCHANGED sizes)
    <3> DEFINE limit == ask.memorylimit
               inmemory == blocksize * recoveryblockcount <= limit
               chunk == IF inmemory THEN blocksize ELSE Align * (limit \div (recoveryblockcount * Align))
               cut == MaxChunk # 0 /\ chunk > MaxChunk
    <3>1. /\ blocksize # 0 /\ pc' = "OpenSourceFiles"
          /\ chunksize' = IF recoveryblockcount = 0 THEN 0 ELSE IF cut THEN MaxChunk ELSE chunk
          /\ deferhashcomputation' = (recoveryblockcount # 0 /\ inmemory /\ ~cut)
          /\ UNCHANGED <<blocksize, recoveryblockcount>>
      BY <2>3 DEF ComputeSizes, Stop, Goto
    <3>2. blocksize \in Nat /\ recoveryblockcount \in Nat /\ limit \in Nat /\ MaxChunk \in Nat /\ Align \in Nat \ {0}
      BY <1>1, CreatorAssumption, CommandLineAssumption DEF Early, Shape
    <3>3. recoveryblockcount # 0 => chunk \in Nat
      <4> SUFFICES ASSUME recoveryblockcount # 0 PROVE chunk \in Nat
        OBVIOUS
      <4> DEFINE d == recoveryblockcount * Align
                 q == limit \div d
      <4>1. d \in Nat \ {0}
        BY <3>2
      <4> HIDE DEF d, limit
      <4>2. q \in Nat
        BY <3>2, <4>1, Division
      <4> HIDE DEF q
      <4>3. Align * q \in Nat
        BY <3>2, <4>2
      <4> QED BY <3>2, <4>3 DEF q, d
    <3>4. chunksize' \in Nat
      <4> HIDE DEF chunk, cut
      <4> QED BY <3>1, <3>2, <3>3
    <3>5. deferhashcomputation' \in BOOLEAN
      <4> HIDE DEF inmemory, cut
      <4> QED BY <3>1
    <3>6. deferhashcomputation' => chunksize' = blocksize /\ recoveryblockcount # 0
      BY <3>1
    <3> HIDE DEF inmemory, cut, chunk
    <3>7. blocksize' = blocksize /\ recoveryblockcount' = recoveryblockcount /\ pc' = "OpenSourceFiles"
      BY <3>1
    <3>8. pc' \notin Sizing /\ sourcefiles' = <<>>
      BY <1>1, <2>1, <3>7 DEF Sizing, Early
    <3> QED BY <1>1, <2>1, <3>1, <3>2, <3>4, <3>5, <3>6, <3>7, <3>8 DEF Early, Shape, input
  <2> QED BY <2>2, <2>3
<1>3. UNCHANGED <<input, sourcefiles, hashes, cursor, packets>> /\ pc' \in {"Done", "OpenSourceFiles"}
  BY DEF ComputeSizes, Stop, Goto
<1> QED BY <1>1, <1>2, <1>3 DEF Early, input, hashes, cursor, packets, Sizing

(* A creation may stop at any time.                                        *)
LEMMA StopKeeps ==
  ASSUME IInv, pc' = "Done",
         UNCHANGED <<input, sizes, sourcefiles, hashes, cursor, matrix, outputbuffer, packets>>
  PROVE  IInv'
<1> USE DEF IInv
<1>1. Shape'
  BY DEF Shape, Sizing, input, sizes
<1>2. Hashed'
  <2>1. ASSUME NEW f \in ToSet(sourcefiles) PROVE HashesOf(f)'
    <3>1. HashesOf(f)
      BY DEF Hashed
    <3> QED BY <3>1 DEF HashesOf, Words, BlockCount, ReadData, input, sizes, hashes
  <2> QED BY <2>1 DEF Hashed, hashes
<1>3. Staged'
  BY DEF Staged, Reading, Sizing, input, sizes, packets
<1>4. CursorsAgree' /\ Passing' /\ SumsTrue'
  BY DEF CursorsAgree, Passing, SumsTrue
<1>5. DataWritten'
  BY DEF DataWritten, ReadAsHashed, Described, input, sizes, hashes, packets
<1>6. HashesDone'
  BY DEF HashesDone, AllRead, Words, BlockCount, Ordered, input, sizes, hashes, packets
<1> QED BY <1>1, <1>2, <1>3, <1>4, <1>5, <1>6

LEMMA HashedStays ==
  ASSUME Hashed, UNCHANGED <<input, sizes, hashes>>, ToSet(sourcefiles') = ToSet(sourcefiles)
  PROVE  Hashed'
<1>1. ASSUME NEW f \in ToSet(sourcefiles) PROVE HashesOf(f)'
  <2>1. HashesOf(f)
    BY DEF Hashed
  <2> QED BY <2>1 DEF HashesOf, Words, BlockCount, ReadData, input, sizes, hashes
<1> QED BY <1>1 DEF Hashed, hashes

LEMMA OpenSourceFileKeeps ==
  ASSUME IInv, NEW f \in DOMAIN disk, OpenSourceFile(f)
  PROVE  IInv'
<1> USE DEF IInv
<1>1. /\ pc = "OpenSourceFiles" /\ f \notin ToSet(sourcefiles)
      /\ UNCHANGED <<input, sizes, files, cursor, matrix, outputbuffer, packets>>
  BY DEF OpenSourceFile
<1>2. CASE pc' = "Done"
  <2>1. UNCHANGED <<sourcefiles, hashes>>
    BY <1>1, <1>2 DEF OpenSourceFile
  <2> QED BY <1>1, <1>2, <2>1, StopKeeps
<1>3. CASE pc' # "Done"
  <2> DEFINE described == [hash16k |-> SubSeq(disk[f], 1, Least(ShortFile, Len(disk[f]))),
                           hashfull |-> IF deferhashcomputation THEN None ELSE disk[f]]
             verified == [n \in 1 .. BlockCount(f) |->
                           IF deferhashcomputation THEN None ELSE ReadData(<<f, n>>, 0, blocksize)]
  <2>1. /\ sourcefiles' = Append(sourcefiles, f) /\ pc' = pc
        /\ descriptions' = [g \in DOMAIN descriptions \union {f} |-> IF g = f THEN described ELSE descriptions[g]]
        /\ verifications' = [g \in DOMAIN verifications \union {f} |-> IF g = f THEN verified ELSE verifications[g]]
        /\ contextfull' = [g \in DOMAIN contextfull \union {f} |-> IF g = f THEN <<>> ELSE contextfull[g]]
    BY <1>3 DEF OpenSourceFile, Stop
  <2> HIDE DEF described, verified
  <2>2. sourcefiles \in Seq(DOMAIN disk)
    BY DEF Shape
  <2>3. sourcefiles' \in Seq(DOMAIN disk) /\ sourcefiles' # <<>>
           /\ ToSet(sourcefiles') = ToSet(sourcefiles) \union {f}
    <3> DEFINE s == sourcefiles
               F == DOMAIN disk
    <3>1. s \in Seq(F) /\ f \in F
      BY <2>2
    <3> HIDE DEF s, F
    <3>2. Append(s, f) \in Seq(F) /\ Len(Append(s, f)) = Len(s) + 1 /\ Append(s, f)[Len(s) + 1] = f
          /\ \A i \in 1 .. Len(s) : Append(s, f)[i] = s[i]
      BY <3>1
    <3>3. Len(s) \in Nat /\ DOMAIN s = 1 .. Len(s) /\ DOMAIN Append(s, f) = 1 .. Len(s) + 1
      BY <3>1, <3>2
    <3>4. ToSet(Append(s, f)) = ToSet(s) \union {f}
      <4>1. \A i \in 1 .. Len(s) + 1 : i \in 1 .. Len(s) \/ i = Len(s) + 1
        BY <3>3
      <4>2. \A i \in 1 .. Len(s) : i \in 1 .. Len(s) + 1
        BY <3>3
      <4>3. Len(s) + 1 \in 1 .. Len(s) + 1
        BY <3>3
      <4> QED BY <3>2, <3>3, <4>1, <4>2, <4>3 DEF ToSet
    <3>5. Append(s, f) # <<>>
      BY <3>2, <3>3
    <3> QED BY <2>1, <3>2, <3>4, <3>5 DEF s, F
  <2>4. blocksize # 0 /\ blocksize \in Nat
    BY <1>1 DEF Shape, Sizing
  <2>5. Shape'
    BY <1>1, <2>1, <2>3, <2>4 DEF Shape, Sizing, input, sizes
  <2>6. /\ BlockCount(f) \in Nat \ {0} /\ disk[f] \in Seq(Field)
    BY <2>4, BlockCounts DEF Shape
  <2>7. ASSUME NEW g \in ToSet(sourcefiles)
        PROVE  /\ g # f /\ descriptions'[g] = descriptions[g]
               /\ verifications'[g] = verifications[g] /\ contextfull'[g] = contextfull[g]
    <3>1. g # f /\ g \in DOMAIN descriptions /\ g \in DOMAIN verifications /\ g \in DOMAIN contextfull
      BY <1>1 DEF Hashed
    <3> QED BY <2>1, <3>1
  <2>8. descriptions'[f] = described /\ verifications'[f] = verified /\ contextfull'[f] = <<>>
    BY <2>1
  <2>9. HashesOf(f)'
    <3>1. \A n \in 1 .. BlockCount(f) : ReadData(<<f, n>>, 0, blocksize) \in Words
      <4> TAKE n \in 1 .. BlockCount(f)
      <4> DEFINE zero == 0
      <4>1. n \in Nat \ {0} /\ zero \in Nat
        BY <2>6
      <4> HIDE DEF zero
      <4>2. ReadData(<<f, n>>, zero, blocksize) \in [1 .. blocksize -> Field]
        BY <2>4, <4>1, ReadDataFacts
      <4> QED BY <4>2 DEF zero, Words
    <3>2. verified \in [1 .. BlockCount(f) -> Words \union {None}]
      BY <3>1 DEF verified
    <3>3. ~deferhashcomputation => /\ verified \in [1 .. BlockCount(f) -> Words]
                                   /\ \A n \in 1 .. BlockCount(f) : verified[n] = ReadData(<<f, n>>, 0, blocksize)
      BY <3>1 DEF verified
    <3>4. /\ described = [hash16k |-> described.hash16k, hashfull |-> described.hashfull]
          /\ ~deferhashcomputation => described.hashfull = disk[f]
      BY DEF described
    <3>5. <<>> \in Seq(Field)
      OBVIOUS
    <3>6. (BlockCount(f))' = BlockCount(f) /\ Words' = Words /\ UNCHANGED <<deferhashcomputation, changes>>
          /\ \A n : ReadData(<<f, n>>, 0, blocksize)' = ReadData(<<f, n>>, 0, blocksize)
      BY <1>1 DEF BlockCount, Words, ReadData, input, sizes
    <3> QED BY <2>6, <2>8, <3>2, <3>3, <3>4, <3>5, <3>6 DEF HashesOf
  <2>10. ASSUME NEW g \in ToSet(sourcefiles) PROVE HashesOf(g)'
    <3>1. HashesOf(g)
      BY DEF Hashed
    <3>2. (BlockCount(g))' = BlockCount(g) /\ Words' = Words /\ UNCHANGED <<deferhashcomputation, changes>>
          /\ \A n : ReadData(<<g, n>>, 0, blocksize)' = ReadData(<<g, n>>, 0, blocksize)
      BY <1>1 DEF BlockCount, Words, ReadData, input, sizes
    <3> QED BY <2>7, <3>1, <3>2 DEF HashesOf
  <2>11. Hashed'
    <3>1. /\ DOMAIN descriptions' = ToSet(sourcefiles') /\ DOMAIN verifications' = ToSet(sourcefiles')
          /\ DOMAIN contextfull' = ToSet(sourcefiles')
      BY <2>1, <2>3 DEF Hashed
    <3>2. verifications' = [g \in DOMAIN verifications' |-> verifications'[g]]
      BY <2>1
    <3>3. \A g \in ToSet(sourcefiles') : HashesOf(g)'
      BY <2>3, <2>9, <2>10
    <3> QED BY <3>1, <3>2, <3>3 DEF Hashed
  <2>12. Staged'
    BY <1>1, <2>1 DEF Staged, Reading, Sizing, input, sizes, cursor, packets
  <2>13. CursorsAgree' /\ Passing' /\ SumsTrue' /\ HashesDone' /\ DataWritten'
    <3>1. headers = {} /\ written = 0
      BY <1>1 DEF Staged, Reading
    <3> QED BY <1>1, <2>1, <3>1
            DEF CursorsAgree, Passing, SumsTrue, HashesDone, DataWritten, packets
  <2> QED BY <2>5, <2>11, <2>12, <2>13
<1> QED BY <1>2, <1>3

LEMMA CreateMainPacketKeeps == (IInv /\ CreateMainPacket) => IInv'
<1> SUFFICES ASSUME IInv, CreateMainPacket PROVE IInv'
  OBVIOUS
<1> USE DEF IInv
<1>1. /\ pc = "OpenSourceFiles" /\ ToSet(sourcefiles) = DOMAIN disk /\ pc' = "CreateFiles"
      /\ recoverydata' = [i \in 1 .. recoveryblockcount |-> Zeros(blocksize)]
      /\ packetcontext' = [i \in 1 .. recoveryblockcount |-> <<>>]
      /\ UNCHANGED <<input, sizes, hashes, names, cursor, matrix, outputbuffer, headers, written>>
  BY DEF CreateMainPacket, Goto
<1>2. sourcefiles' \in SetToSeqs(DOMAIN disk)
  BY DEF CreateMainPacket
<1>3. blocksize # 0 /\ IsFiniteSet(DOMAIN disk)
  BY <1>1, BlockCounts DEF Shape, Sizing
<1>4. sourcefiles' \in Seq(DOMAIN disk) /\ ToSet(sourcefiles') = ToSet(sourcefiles)
  BY <1>1, <1>2, <1>3, OrderFacts
<1>5. Shape'
  BY <1>1, <1>3, <1>4 DEF Shape, Sizing, input, sizes
<1>6. Hashed'
  BY <1>1, <1>4, HashedStays
<1>7. Ordered'
  BY <1>1, <1>2 DEF Ordered, input
<1>8. Staged'
  <2>1. Zeros(blocksize) = [p \in 1 .. blocksize |-> Zeros(blocksize)[p]]
    BY DEF Zeros
  <2>2. headers = {} /\ written = 0 /\ blockoffset = 0 /\ inputblock = 1 /\ sourcefile = 1
        /\ sourceindex = 0 /\ outputblock = 1 /\ changes \in Nat
    BY <1>1 DEF Staged, Reading
  <2>3. \A i \in 1 .. recoveryblockcount :
          /\ recoverydata'[i] = [p \in 1 .. blocksize |-> recoverydata'[i][p]]
          /\ packetcontext'[i] = <<>>
    BY <1>1, <2>1
  <2>4. DOMAIN recoverydata' = 1 .. recoveryblockcount /\ DOMAIN packetcontext' = 1 .. recoveryblockcount
    BY <1>1
  <2>5. UNCHANGED <<changes, headers, written, blockoffset, inputblock, sourcefile, sourceindex,
                    outputblock, blocksize, recoveryblockcount>>
    BY <1>1 DEF input, sizes, cursor
  <2> HIDE DEF IInv
  <2> QED BY <1>1, <1>7, <2>2, <2>3, <2>4, <2>5 DEF Staged, Reading, Sizing
<1>9. CursorsAgree' /\ Passing' /\ SumsTrue' /\ HashesDone' /\ DataWritten'
  <2>1. headers = {} /\ written = 0
    BY <1>1 DEF Staged, Reading
  <2> QED BY <1>1, <2>1 DEF CursorsAgree, Passing, SumsTrue, HashesDone, DataWritten
<1> QED BY <1>5, <1>6, <1>8, <1>9

(* Steps that change nothing that is spoken of.                            *)
LEMMA CreateFileKeeps == (IInv /\ CreateFile) => IInv'
<1> SUFFICES ASSUME IInv, CreateFile PROVE IInv'
  OBVIOUS
<1>1. /\ pc = "CreateFiles" /\ pc' \in {pc, "Done"}
      /\ UNCHANGED <<input, sizes, sourcefiles, hashes, cursor, matrix, outputbuffer, packets>>
  BY DEF CreateFile, Stop
<1>2. CASE pc' = "Done"
  BY <1>1, <1>2, StopKeeps
<1>3. CASE pc' = pc
  <2> USE DEF IInv
  <2>1. Shape'
    BY <1>1, <1>3 DEF Shape, input, sizes
  <2>2. Hashed'
    BY <1>1, HashedStays
  <2>3. Staged'
    BY <1>1, <1>3 DEF Staged, Ordered, input, sizes, cursor, packets
  <2>4. headers = {} /\ written = 0
    BY <1>1 DEF Staged, Reading
  <2>5. CursorsAgree' /\ Passing' /\ SumsTrue' /\ HashesDone' /\ DataWritten'
    BY <1>1, <1>3, <2>4 DEF CursorsAgree, Passing, SumsTrue, HashesDone, DataWritten, packets
  <2> QED BY <2>1, <2>2, <2>3, <2>5
<1> QED BY <1>1, <1>2, <1>3

LEMMA CloseFilesKeeps == (IInv /\ CloseFiles) => IInv'
BY StopKeeps DEF CloseFiles, Stop

LEMMA ComputeRSMatrixKeeps == (IInv /\ ComputeRSMatrix) => IInv'
<1> SUFFICES ASSUME IInv, ComputeRSMatrix PROVE IInv'
  OBVIOUS
<1> USE DEF IInv
<1>1. /\ pc = "CreateFiles"
      /\ UNCHANGED <<input, sizes, sourcefiles, hashes, files, cursor, packets>>
  BY DEF ComputeRSMatrix
<1>2. /\ blocksize # 0 /\ blocksize \in Nat \ {0} /\ chunksize \in Nat /\ recoveryblockcount \in Nat
      /\ headers = {} /\ written = 0 /\ blockoffset = 0 /\ inputblock = 1 /\ sourcefile = 1
      /\ sourceindex = 0 /\ outputblock = 1 /\ changes \in Nat /\ Ordered
      /\ deferhashcomputation \in BOOLEAN
  BY <1>1 DEF Shape, Staged, Sizing, Reading
<1>3. Hashed'
  BY <1>1, HashedStays
<1>4. ToSet(sourcefiles) = DOMAIN disk
  BY <1>2, BlockCounts, OrderFacts DEF Ordered
<1>5. CASE pc' = "Done"
  BY <1>1, <1>5, StopKeeps DEF ComputeRSMatrix, Goto, Stop
<1>6. CASE pc' = "WriteCriticalPackets"
  <2>1. recoveryblockcount = 0
    BY <1>6 DEF ComputeRSMatrix, Stop, Goto
  <2>2. ~deferhashcomputation
    BY <2>1 DEF Shape
  <2>3. \A f \in DOMAIN disk : /\ verifications[f] \in [1 .. BlockCount(f) -> Words]
                               /\ descriptions[f].hashfull \in Seq(Field)
    BY <1>4, <2>2 DEF Hashed, HashesOf
  <2>4. Shape'
    BY <1>1, <1>2, <1>6 DEF Shape, Sizing, input, sizes
  <2>5. Staged'
    BY <1>1, <1>2, <1>6 DEF Staged, Reading, Sizing, Ordered, input, sizes, cursor, packets
  <2>6. CursorsAgree' /\ Passing' /\ SumsTrue'
    BY <1>6 DEF CursorsAgree, Passing, SumsTrue
  <2>7. DataWritten'
    BY <1>1, <1>2, <1>6 DEF DataWritten, packets
  <2>8. HashesDone'
    BY <1>1, <1>2, <1>6, <2>3 DEF HashesDone, AllRead, Ordered, Words, BlockCount, input, sizes, hashes, packets
  <2> QED BY <1>3, <2>4, <2>5, <2>6, <2>7, <2>8
<1>7. CASE pc' = "ProcessData"
  <2> DEFINE size == Least(chunksize, blocksize)
  <2>1. /\ matrix' = Matrix /\ outputbuffer' = [i \in 1 .. recoveryblockcount |-> Zeros(size)]
    BY <1>7 DEF ComputeRSMatrix, Stop, Goto
  <2>2. size \in Nat /\ size <= blocksize /\ ChunkLength' = size
    BY <1>1, <1>2 DEF Least, ChunkLength, sizes, cursor
  <2> HIDE DEF size
  <2>3. Shape'
    BY <1>1, <1>2, <1>7 DEF Shape, Sizing, input, sizes
  <2>4. Staged'
    BY <1>1, <1>2, <1>7 DEF Staged, Reading, Sizing, Ordered, input, sizes, cursor, packets
  <2>5. PICK start : StartsAt(start, sourcefiles, BlocksOf)
    <3> DEFINE F == DOMAIN disk
               V == F \X Nat
               content == BlocksOf
    <3>1. content \in [F -> Seq(V)]
      <4>1. ASSUME NEW f \in F PROVE [n \in 1 .. BlockCount(f) |-> <<f, n>>] \in Seq(V)
        <5>1. BlockCount(f) \in Nat
          BY <1>2, BlockCounts
        <5>2. [n \in 1 .. BlockCount(f) |-> <<f, n>>] \in [1 .. BlockCount(f) -> V]
          BY <5>1
        <5> HIDE DEF V
        <5> QED BY <5>1, <5>2
      <4> HIDE DEF V
      <4> QED BY <4>1 DEF BlocksOf
    <3>2. sourcefiles \in Seq(F)
      BY DEF Shape
    <3> HIDE DEF F, V, content
    <3>3. \E start : StartsAt(start, sourcefiles, content)
      BY <3>1, <3>2, StartsExist
    <3> QED BY <3>3 DEF content
  <2>6. /\ Len(sourcefiles) \in Nat \ {0} /\ start[0] = 0
        /\ BlockCount(sourcefiles[1]) \in Nat \ {0}
        /\ Len(SourceBlocks) \in Nat \ {0}
    <3>1. /\ Len(sourcefiles) \in Nat \ {0} /\ Len(SourceBlocks) \in Nat \ {0}
          /\ \A i \in 1 .. Len(sourcefiles) : BlockCount(sourcefiles[i]) \in Nat \ {0}
      BY <1>2, <2>5, Listing DEF Listed
    <3>2. 1 \in 1 .. Len(sourcefiles)
      BY <3>1
    <3> QED BY <3>1, <3>2, <2>5 DEF StartsAt
  <2>7. CursorsAgree'
    <3>1. CursorAt(start, 1, 1, 0)
      BY <2>6 DEF CursorAt
    <3>2. BlocksOf' = BlocksOf
      BY <1>1 DEF BlocksOf, BlockCount, input, sizes
    <3>3. StartsAt(start, sourcefiles, BlocksOf)'
      BY <1>1, <2>5, <3>2 DEF StartsAt
    <3>4. CursorAt(start, inputblock, sourcefile, sourceindex)'
      BY <1>1, <1>2, <3>1 DEF CursorAt, BlockCount, input, sizes, cursor
    <3> QED BY <3>3, <3>4 DEF CursorsAgree
  <2>8. SourceBlocks' = SourceBlocks /\ Described' = Described
    BY <1>1 DEF SourceBlocks, Described, BlockCount, input, sizes, hashes
  <2>9. UNCHANGED <<blocksize, recoveryblockcount, deferhashcomputation, chunksize, blockoffset, inputblock,
                    outputblock, packetcontext, recoverydata>>
    BY <1>1 DEF sizes, cursor, packets
  <2>10. \A i \in 1 .. recoveryblockcount : Stored(i)' = 0
    BY <1>2, <2>9 DEF Stored
  <2>11. Passing'
    <3>1. \A i \in 1 .. recoveryblockcount :
            /\ outputbuffer'[i] = [p \in 1 .. size |-> outputbuffer'[i][p]]
            /\ packetcontext[i] = [p \in 1 .. 0 |-> recoverydata[i][p]]
      <4> TAKE i \in 1 .. recoveryblockcount
      <4>1. outputbuffer'[i] = [p \in 1 .. size |-> 0]
        BY <2>1 DEF Zeros
      <4>2. packetcontext[i] = <<>>
        BY <1>1 DEF Staged
      <4> QED BY <4>1, <4>2
    <3>2. /\ DOMAIN outputbuffer' = 1 .. recoveryblockcount
          /\ blockoffset \in 0 .. blocksize - 1 /\ inputblock \in 1 .. Len(SourceBlocks) + 1
          /\ outputblock \in 1 .. recoveryblockcount + 1
      BY <1>2, <2>1, <2>6
    <3>3. \A k \in 1 .. inputblock - 1 : FALSE
      BY <1>2
    <3> QED BY <1>2, <2>2, <2>8, <2>9, <2>10, <3>1, <3>2, <3>3 DEF Passing
  <2>12. SumsTrue'
    <3>1. ASSUME NEW i \in 1 .. recoveryblockcount PROVE \E h : SummedUp(i, h)'
      <4> DEFINE row == Row(i)'
                 n == IF deferhashcomputation THEN inputblock - 1 ELSE Len(SourceBlocks)
      <4>1. n \in Nat
        BY <1>2, <2>6
      <4> HIDE DEF row, n
      <4>2. PICK h : Summing(h, row, Described, blocksize, n)
        BY <4>1, SummingExists
      <4>3. h[0] = Zeros(blocksize)
        BY <4>2 DEF Summing
      <4>4. \A p \in 1 .. size : outputbuffer'[i][p] = h[inputblock - 1][blockoffset + p]
        <5> TAKE p \in 1 .. size
        <5>1. inputblock - 1 = 0 /\ blockoffset + p = p /\ p \in 1 .. blocksize
          BY <1>2, <2>2
        <5> QED BY <5>1, <4>3, <2>1 DEF Zeros
      <4>5. Summing(h, row, Described', blocksize',
              IF deferhashcomputation' THEN inputblock' - 1 ELSE Len(SourceBlocks'))
        BY <4>2, <2>8, <2>9 DEF n
      <4>6. SummedUp(i, h)'
        BY <4>4, <4>5, <2>2, <2>8, <2>9, <2>10 DEF SummedUp, row, Summing
      <4> QED BY <4>6
    <3> QED BY <3>1, <2>9 DEF SumsTrue
  <2>13. HashesDone' /\ DataWritten'
    BY <1>1, <1>2, <1>7 DEF HashesDone, DataWritten, packets
  <2> QED BY <1>3, <2>3, <2>4, <2>7, <2>11, <2>12, <2>13
<1>8. pc' \in {"Done", "WriteCriticalPackets", "ProcessData"}
  BY DEF ComputeRSMatrix, Goto, Stop
<1> QED BY <1>5, <1>6, <1>7, <1>8

LEMMA WriteHeaderKeeps == (IInv /\ WriteHeader) => IInv'
<1> SUFFICES ASSUME IInv, WriteHeader PROVE IInv'
  OBVIOUS
<1> USE DEF IInv
<1>1. /\ pc = "WriteHeaders" /\ Cardinality(headers) < recoveryblockcount
      /\ UNCHANGED <<input, sizes, sourcefiles, hashes, files, cursor, matrix, outputbuffer,
                     recoverydata, packetcontext, written>>
  BY DEF WriteHeader
<1>2. CASE pc' = "Done"
  BY <1>1, <1>2, StopKeeps DEF WriteHeader, packets
<1>3. CASE pc' # "Done"
  <2>1. pc' = pc /\ headers' = headers \union {Cardinality(headers) + 1}
    BY <1>3 DEF WriteHeader, Stop
  <2>2. headers' \subseteq 1 .. recoveryblockcount
    <3> DEFINE n == recoveryblockcount
               one == 1
    <3>1. n \in Nat /\ headers \subseteq 1 .. n /\ one = 1 /\ one \in Int /\ n \in Int
      BY DEF Shape, Staged
    <3> HIDE DEF n, one
    <3>2. IsFiniteSet(one .. n)
      BY <3>1, FS_Interval
    <3>3. Cardinality(headers) \in Nat
      BY <3>1, <3>2, FS_Subset, FS_CardinalityType
    <3>4. Cardinality(headers) < n
      BY <1>1 DEF n
    <3> DEFINE c == Cardinality(headers)
    <3>5. c \in Nat /\ c < n /\ headers' = headers \union {c + 1}
      BY <2>1, <3>3, <3>4
    <3> HIDE DEF c
    <3>6. c + 1 \in 1 .. n
      BY <3>1, <3>5
    <3> QED BY <3>1, <3>5, <3>6 DEF n
  <2>3. Shape'
    BY <1>1, <2>1 DEF Shape, input, sizes
  <2>4. Hashed'
    BY <1>1, HashedStays
  <2>5. Staged'
    BY <1>1, <2>1, <2>2 DEF Staged, Ordered, Reading, Sizing, input, sizes, cursor
  <2>6. CursorsAgree' /\ Passing' /\ SumsTrue'
    BY <1>1, <2>1 DEF CursorsAgree, Passing, SumsTrue
  <2>7. DataWritten'
    BY <1>1 DEF DataWritten, ReadAsHashed, Described, input, sizes, hashes
  <2>8. HashesDone'
    BY <1>1, <2>1 DEF HashesDone, AllRead, Words, BlockCount, Ordered, Staged, input, sizes, hashes
  <2> QED BY <2>3, <2>4, <2>5, <2>6, <2>7, <2>8
<1> QED BY <1>2, <1>3

LEMMA FinishFileHashComputationKeeps == (IInv /\ FinishFileHashComputation) => IInv'
<1> SUFFICES ASSUME IInv, FinishFileHashComputation PROVE IInv'
  OBVIOUS
<1> USE DEF IInv
<1>1. /\ pc = "WriteHeaders" /\ pc' = "WriteCriticalPackets"
      /\ descriptions' = IF deferhashcomputation
                         THEN [f \in DOMAIN descriptions |-> [descriptions[f] EXCEPT !.hashfull = contextfull[f]]]
                         ELSE descriptions
      /\ UNCHANGED <<input, sizes, sourcefiles, verifications, contextfull,
                     files, cursor, matrix, outputbuffer, packets>>
  BY DEF FinishFileHashComputation, Goto
<1>2. blocksize # 0 /\ Ordered /\ written = 0 /\ AllRead
  BY <1>1 DEF Shape, Sizing, Staged, HashesDone
<1>3. ToSet(sourcefiles) = DOMAIN disk
  BY <1>2, BlockCounts, OrderFacts DEF Ordered
<1>4. Shape'
  BY <1>1, <1>2 DEF Shape, Sizing, input, sizes
<1>5. ASSUME NEW f \in ToSet(sourcefiles)
      PROVE  /\ descriptions'[f] = [hash16k |-> descriptions'[f].hash16k, hashfull |-> descriptions'[f].hashfull]
             /\ descriptions'[f].hashfull \in Seq(Field)
  <2>1. HashesOf(f) /\ f \in DOMAIN descriptions
    BY DEF Hashed
  <2>2. CASE deferhashcomputation
    <3>1. descriptions'[f] = [descriptions[f] EXCEPT !.hashfull = contextfull[f]]
      BY <1>1, <2>1, <2>2
    <3>2. descriptions[f] = [hash16k |-> descriptions[f].hash16k, hashfull |-> descriptions[f].hashfull]
      BY <2>1 DEF HashesOf
    <3> DEFINE d == descriptions[f]
    <3> HIDE DEF d
    <3>3. descriptions'[f] = [hash16k |-> d.hash16k, hashfull |-> contextfull[f]]
      BY <3>1, <3>2 DEF d
    <3> QED BY <2>1, <3>3 DEF HashesOf
  <2>3. CASE ~deferhashcomputation
    BY <1>1, <2>1, <2>3 DEF HashesOf
  <2> QED BY <2>2, <2>3
<1>6. DOMAIN descriptions' = DOMAIN descriptions
  BY <1>1
<1>7. Hashed'
  <2>1. ASSUME NEW f \in ToSet(sourcefiles) PROVE HashesOf(f)'
    <3>1. HashesOf(f)
      BY DEF Hashed
    <3>2. (BlockCount(f))' = BlockCount(f) /\ Words' = Words
          /\ UNCHANGED <<deferhashcomputation, changes, verifications, contextfull>>
          /\ \A n : ReadData(<<f, n>>, 0, blocksize)' = ReadData(<<f, n>>, 0, blocksize)
      BY <1>1 DEF BlockCount, Words, ReadData, input, sizes
    <3> QED BY <1>5, <3>1, <3>2 DEF HashesOf
  <2> QED BY <1>1, <1>6, <2>1 DEF Hashed
<1>8. Staged'
  BY <1>1, <1>2 DEF Staged, Ordered, Reading, Sizing, input, sizes, cursor, packets
<1>9. CursorsAgree' /\ Passing' /\ SumsTrue'
  BY <1>1 DEF CursorsAgree, Passing, SumsTrue
<1>10. DataWritten'
  BY <1>1 DEF DataWritten, ReadAsHashed, Described, input, sizes, packets
<1>11. HashesDone'
  BY <1>1, <1>2, <1>3, <1>5 DEF HashesDone, AllRead, Words, BlockCount, Ordered, input, sizes
<1> QED BY <1>4, <1>7, <1>8, <1>9, <1>10, <1>11

LEMMA WriteCriticalPacketKeeps == (IInv /\ WriteCriticalPacket) => IInv'
<1> SUFFICES ASSUME IInv, WriteCriticalPacket PROVE IInv'
  OBVIOUS
<1> USE DEF IInv
<1>1. /\ pc = "WriteCriticalPackets"
      /\ UNCHANGED <<input, sizes, sourcefiles, hashes, files, cursor, matrix, outputbuffer,
                     recoverydata, packetcontext, headers>>
  BY DEF WriteCriticalPacket
<1>2. CASE pc' = "Done"
  BY <1>1, <1>2, StopKeeps DEF WriteCriticalPacket, packets
<1>3. CASE pc' # "Done"
  <2>1. pc' = pc /\ written' = written + 1
    BY <1>3 DEF WriteCriticalPacket, Stop
  <2>2. Shape'
    BY <1>1, <2>1 DEF Shape, input, sizes
  <2>3. Hashed'
    BY <1>1, HashedStays
  <2>4. Staged'
    BY <1>1, <2>1 DEF Staged, Ordered, Reading, Sizing, input, sizes, cursor
  <2>5. CursorsAgree' /\ Passing' /\ SumsTrue'
    BY <1>1, <2>1 DEF CursorsAgree, Passing, SumsTrue
  <2>6. DataWritten'
    BY <1>1, <2>1 DEF DataWritten, ReadAsHashed, Described, input, sizes, hashes
  <2>7. HashesDone'
    BY <1>1, <2>1 DEF HashesDone, AllRead, Words, BlockCount, Ordered, input, sizes, hashes
  <2> QED BY <2>2, <2>3, <2>4, <2>5, <2>6, <2>7
<1> QED BY <1>2, <1>3

(* A source file that changes keeps its length; what is said of its hashes *)
(* is then said of those that are put together from what was read.         *)
(* A byte of a file is another.                                            *)
LEMMA ChangedDisk ==
  ASSUME Shape, SourceChanges
  PROVE  /\ DOMAIN disk' = DOMAIN disk /\ disk' \in [DOMAIN disk -> Seq(Field) \ {<<>>}]
         /\ \A g \in DOMAIN disk : Len(disk'[g]) = Len(disk[g])
<1>1. PICK f \in DOMAIN disk : \E p \in DOMAIN disk[f] : disk' = [disk EXCEPT ![f][p] = (@ + 1) % Count]
  BY DEF SourceChanges
<1>2. PICK p \in DOMAIN disk[f] : disk' = [disk EXCEPT ![f][p] = (@ + 1) % Count]
  BY <1>1
<1> DEFINE content == disk[f]
           new == [content EXCEPT ![p] = (@ + 1) % Count]
<1>3. disk \in [DOMAIN disk -> Seq(Field) \ {<<>>}]
  BY DEF Shape
<1>4. content \in Seq(Field) /\ content # <<>> /\ p \in 1 .. Len(content)
  BY <1>3
<1>5. new \in Seq(Field) /\ Len(new) = Len(content) /\ new # <<>>
  <2> HIDE DEF content
  <2>1. content[p] \in Field
    BY <1>4
  <2>2. (content[p] + 1) % Count \in Field
    BY <2>1, FieldFacts
  <2> DEFINE byte == (content[p] + 1) % Count
  <2>3. new = [content EXCEPT ![p] = byte]
    OBVIOUS
  <2> HIDE DEF byte, new
  <2>4. byte \in Field
    BY <2>2 DEF byte
  <2> HIDE DEF Field
  <2>5. new \in Seq(Field) /\ Len(new) = Len(content)
    BY <1>4, <2>3, <2>4
  <2>6. Len(content) # 0
    BY <1>4
  <2> QED BY <2>5, <2>6
<1>6. disk' = [disk EXCEPT ![f] = new]
  BY <1>2
<1> HIDE DEF new, content, Field
<1> QED BY <1>3, <1>5, <1>6 DEF content

LEMMA SourceChangesKeeps == (IInv /\ SourceChanges) => IInv'
<1> SUFFICES ASSUME IInv, SourceChanges PROVE IInv'
  OBVIOUS
<1> USE DEF IInv
<1>1. /\ changes' = changes + 1
      /\ UNCHANGED <<ask, sizes, sourcefiles, hashes, files, cursor, matrix, outputbuffer, packets, pc>>
  BY DEF SourceChanges
<1>2. DOMAIN disk' = DOMAIN disk /\ disk' \in [DOMAIN disk -> Seq(Field) \ {<<>>}]
      /\ \A g \in DOMAIN disk : Len(disk'[g]) = Len(disk[g])
  BY ChangedDisk
<1>3. \A g \in DOMAIN disk : (BlockCount(g))' = BlockCount(g)
  BY <1>1, <1>2 DEF BlockCount, sizes
<1>4. sourcefiles \in Seq(DOMAIN disk) /\ changes \in Nat /\ changes' # 0
  BY <1>1 DEF Shape, Staged
<1>5. \A i \in DOMAIN sourcefiles : sourcefiles[i] \in DOMAIN disk
  BY <1>4
<1>6. Shape'
  BY <1>1, <1>2 DEF Shape, sizes
<1>7. Hashed'
  <2>1. ToSet(sourcefiles) \subseteq DOMAIN disk
    BY <1>5 DEF ToSet
  <2>2. ASSUME NEW g \in ToSet(sourcefiles) PROVE HashesOf(g)'
    <3>1. HashesOf(g)
      BY DEF Hashed
    <3>2. (BlockCount(g))' = BlockCount(g) /\ Words' = Words
          /\ UNCHANGED <<deferhashcomputation, descriptions, verifications, contextfull>>
      BY <1>1, <1>3, <2>1 DEF Words, sizes, hashes
    <3> QED BY <1>4, <3>1, <3>2 DEF HashesOf
  <2> QED BY <1>1, <2>2 DEF Hashed, hashes
<1>8. SourceBlocks' = SourceBlocks
  <2>1. \A i \in DOMAIN sourcefiles : (BlockCount(sourcefiles[i]))' = BlockCount(sourcefiles[i])
    BY <1>1, <1>3, <1>5 DEF BlockCount
  <2>2. [i \in DOMAIN sourcefiles' |-> [n \in 1 .. (BlockCount(sourcefiles[i]))' |-> <<sourcefiles'[i], n>>]]
          = [i \in DOMAIN sourcefiles |-> [n \in 1 .. BlockCount(sourcefiles[i]) |-> <<sourcefiles[i], n>>]]
    BY <1>1, <2>1
  <2> QED BY <2>2 DEF SourceBlocks
<1>9. Ordered' = Ordered /\ Described' = Described
  BY <1>1, <1>2 DEF Ordered, Described, hashes
<1>10. Staged'
  <2>1. Staged
    OBVIOUS
  <2>2. /\ changes' \in Nat
        /\ UNCHANGED <<pc, headers, written, recoveryblockcount, blockoffset, inputblock, sourcefile, sourceindex,
                       outputblock, recoverydata, packetcontext, blocksize>>
    BY <1>1, <1>4 DEF sizes, cursor, packets
  <2> HIDE DEF IInv
  <2> QED BY ONLY <1>9, <2>1, <2>2 DEF Staged
<1>11. CursorsAgree'
  <2>1. BlocksOf' = BlocksOf
    BY <1>1, <1>2, <1>3 DEF BlocksOf
  <2>2. ASSUME NEW start, StartsAt(start, sourcefiles, BlocksOf),
               CursorAt(start, inputblock, sourcefile, sourceindex)
        PROVE  CursorAt(start, inputblock, sourcefile, sourceindex)'
    <3>1. sourcefile \in 1 .. Len(sourcefiles) + 1
      BY <2>2 DEF CursorAt
    <3>2. sourcefile <= Len(sourcefiles) =>
            (BlockCount(sourcefiles[sourcefile]))' = BlockCount(sourcefiles[sourcefile])
      <4> SUFFICES ASSUME sourcefile <= Len(sourcefiles)
                   PROVE  (BlockCount(sourcefiles[sourcefile]))' = BlockCount(sourcefiles[sourcefile])
        OBVIOUS
      <4>1. sourcefile \in DOMAIN sourcefiles
        BY <1>4, <3>1
      <4>2. sourcefiles[sourcefile] \in DOMAIN disk /\ UNCHANGED <<sourcefile, sourcefiles>>
        BY <1>1, <1>5, <4>1 DEF cursor
      <4> QED BY <1>3, <4>2 DEF BlockCount
    <3> QED BY <1>1, <2>2, <3>2 DEF CursorAt, cursor
  <2> QED BY <1>1, <2>1, <2>2 DEF CursorsAgree, StartsAt
<1>12. Passing'
  <2>1. ChunkLength' = ChunkLength /\ Words' = Words /\ \A i : Stored(i)' = Stored(i)
    BY <1>1 DEF Stored, ChunkLength, Words, sizes, cursor
  <2>2. UNCHANGED <<pc, blockoffset, blocksize, deferhashcomputation, inputblock, outputblock,
                    recoveryblockcount, outputbuffer, packetcontext, recoverydata>>
    BY <1>1 DEF sizes, cursor, packets
  <2> HIDE DEF IInv
  <2>3. Passing
    BY DEF IInv
  <2> QED BY <1>8, <1>9, <2>1, <2>2, <2>3 DEF Passing
<1>13. SumsTrue'
  <2>1. ReadAsHashed' => ReadAsHashed
    BY <1>1, <1>4 DEF ReadAsHashed, sizes
  <2>3. ASSUME NEW i, NEW h, SummedUp(i, h) PROVE SummedUp(i, h)'
    <3>1. Row(i)' = Row(i)
      BY <1>1, <1>8 DEF Row
    <3> QED BY <1>1, <1>8, <1>9, <2>3, <3>1
            DEF SummedUp, Summing, Zeros, ChunkLength, Stored, sizes, cursor, packets
  <2> QED BY <1>1, <2>1, <2>3 DEF SumsTrue, sizes
<1>14. DataWritten'
  BY <1>1, <1>4, <1>9 DEF DataWritten, ReadAsHashed, sizes, packets
<1>15. HashesDone'
  BY <1>1, <1>2, <1>3, <1>9 DEF HashesDone, AllRead, Words, sizes, hashes, packets
<1> QED BY <1>6, <1>7, <1>10, <1>11, <1>12, <1>13, <1>14, <1>15

(* One of the contents gets another value in one place.                    *)
Distinct(order) == \A i, j \in 1 .. Len(order) : order[i] = order[j] => i = j
Changed(content, new, f, n, v) == new = [content EXCEPT ![f][n] = v]
Replaced(order, content, new, start, place, v) ==
  /\ \A g \in DOMAIN content : Len(new[g]) = Len(content[g])
  /\ Joined(order, new)[place] = v
  /\ \A j \in 1 .. start[Len(order)] :
       j # place => Joined(order, new)[j] = Joined(order, content)[j]

LEMMA ReplaceOne ==
  ASSUME NEW F, NEW V, NEW order \in Seq(F), Len(order) > 0, Distinct(order),
         NEW content \in [F -> Seq(V)], NEW start, StartsAt(start, order, content),
         NEW i \in 1 .. Len(order), NEW n \in 1 .. Len(content[order[i]]), NEW v \in V,
         NEW new, Changed(content, new, order[i], n, v)
  PROVE  new \in [F -> Seq(V)] /\ Replaced(order, content, new, start, start[i - 1] + n, v)
<1>1. Len(order) \in Nat /\ \A k \in 1 .. Len(order) : order[k] \in F
  OBVIOUS
<1> DEFINE f == order[i]
           old == content[f]
           part == [old EXCEPT ![n] = v]
<1>2. f \in F /\ old \in Seq(V) /\ n \in 1 .. Len(old) /\ new = [content EXCEPT ![f] = part]
  BY <1>1 DEF Changed
<1>3. part \in Seq(V) /\ Len(part) = Len(old) /\ part[n] = v /\ \A k \in 1 .. Len(old) : k # n => part[k] = old[k]
  <2> HIDE DEF old
  <2> QED BY <1>2
<1> HIDE DEF part
<1>4. new \in [F -> Seq(V)] /\ new[f] = part /\ \A g \in F : g # f => new[g] = content[g]
  <2> HIDE DEF f, old
  <2> QED BY <1>2, <1>3
<1>5. \A g \in F : Len(new[g]) = Len(content[g])
  BY <1>3, <1>4
<1>6. StartsAt(start, order, new)
  BY <1>1, <1>5 DEF StartsAt
<1>7. LaidOut(Joined(order, new), start, order, new)
  BY <1>4, <1>6, JoinedFacts
<1>8. LaidOut(Joined(order, content), start, order, content)
  BY JoinedFacts
<1>9. Joined(order, new)[start[i - 1] + n] = v
  <2>1. n \in 1 .. Len(new[order[i]]) /\ new[order[i]][n] = v
    BY <1>2, <1>3, <1>4
  <2> QED BY <2>1, <1>7 DEF LaidOut
<1>10. ASSUME NEW j \in 1 .. start[Len(order)], j # start[i - 1] + n
       PROVE  Joined(order, new)[j] = Joined(order, content)[j]
  <2>1. PICK k \in 1 .. Len(order) : \E m \in 1 .. Len(content[order[k]]) : j = start[k - 1] + m
    BY <1>8 DEF LaidOut
  <2>2. PICK m \in 1 .. Len(content[order[k]]) : j = start[k - 1] + m
    BY <2>1
  <2>3. m \in 1 .. Len(new[order[k]])
    BY <1>1, <1>5
  <2>4. Joined(order, new)[j] = new[order[k]][m] /\ Joined(order, content)[j] = content[order[k]][m]
    BY <1>7, <1>8, <2>2, <2>3 DEF LaidOut
  <2>5. new[order[k]][m] = content[order[k]][m]
    <3>1. CASE order[k] = f
      <4>1. k = i
        BY <3>1 DEF Distinct
      <4>2. m # n
        BY <1>10, <2>2, <4>1
      <4> QED BY <3>1, <4>1, <4>2, <1>3, <1>4
    <3>2. CASE order[k] # f
      BY <3>2, <1>1, <1>4
    <3> QED BY <3>1, <3>2
  <2> QED BY <2>4, <2>5
<1> QED BY <1>4, <1>5, <1>9, <1>10 DEF Replaced

(* A part of a sequence, and two of them one after the other.              *)
LEMMA PartFacts ==
  ASSUME NEW S, NEW s \in Seq(S), NEW m \in 1 .. Len(s) + 1, NEW n \in m - 1 .. Len(s)
  PROVE  /\ SubSeq(s, m, n) \in Seq(S) /\ Len(SubSeq(s, m, n)) = n - m + 1
         /\ \A p \in 1 .. n - m + 1 : SubSeq(s, m, n)[p] = s[m + p - 1]
<1>1. SubSeq(s, m, n) \in Seq(S)
  OBVIOUS
<1>2. Len(SubSeq(s, m, n)) = n - m + 1
  OBVIOUS
<1>3. \A p \in 1 .. n - m + 1 : SubSeq(s, m, n)[p] = s[m + p - 1]
  OBVIOUS
<1> QED BY <1>1, <1>2, <1>3

LEMMA WholeFacts ==
  ASSUME NEW S, NEW s \in Seq(S), NEW t \in Seq(S)
  PROVE  /\ s \o t \in Seq(S) /\ Len(s \o t) = Len(s) + Len(t)
         /\ \A p \in 1 .. Len(s) + Len(t) : (s \o t)[p] = IF p <= Len(s) THEN s[p] ELSE t[p - Len(s)]
<1>1. s \o t \in Seq(S)
  OBVIOUS
<1>2. Len(s \o t) = Len(s) + Len(t)
  OBVIOUS
<1>3. \A p \in 1 .. Len(s) + Len(t) : (s \o t)[p] = IF p <= Len(s) THEN s[p] ELSE t[p - Len(s)]
  OBVIOUS
<1> QED BY <1>1, <1>2, <1>3

LEMMA SequenceIsFunction ==
  ASSUME NEW S, NEW s \in Seq(S)
  PROVE  s = [p \in 1 .. Len(s) |-> s[p]]
OBVIOUS

(* A piece is written over a part of a block.                              *)
IsTable(s, n) == s = [p \in 1 .. n |-> s[p]]
Overlaid(new, data, piece, offset, length, size) ==
  \A p \in 1 .. size : new[p] = IF p <= offset THEN data[p]
                                ELSE IF p <= offset + length THEN piece[p - offset] ELSE data[p]

LEMMA WrittenFacts ==
  ASSUME NEW size \in Nat, NEW offset \in Nat, NEW length \in Nat, offset + length <= size,
         NEW data, IsTable(data, size), NEW piece, IsTable(piece, length),
         NEW new, new = SubSeq(data, 1, offset) \o piece \o SubSeq(data, offset + length + 1, size)
  PROVE  IsTable(new, size) /\ Overlaid(new, data, piece, offset, length, size)
<1> USE DEF IsTable
<1> DEFINE S == {data[p] : p \in 1 .. size} \union {piece[p] : p \in 1 .. length}
           front == SubSeq(data, 1, offset)
           back == SubSeq(data, offset + length + 1, size)
<1>1. data \in Seq(S) /\ Len(data) = size /\ piece \in Seq(S) /\ Len(piece) = length
  <2>1. \A p \in 1 .. size : data[p] \in S
    OBVIOUS
  <2>2. \A p \in 1 .. length : piece[p] \in S
    OBVIOUS
  <2> HIDE DEF S
  <2>3. data \in [1 .. size -> S] /\ piece \in [1 .. length -> S]
    BY <2>1, <2>2
  <2> QED BY <2>3
<1> HIDE DEF S
<1> DEFINE done == offset + length
           rest == size - done
           one == 1
           from == done + 1
<1>2. front \in Seq(S) /\ Len(front) = offset /\ \A p \in 1 .. offset : front[p] = data[p]
  <2>1. one \in 1 .. Len(data) + 1 /\ offset \in one - 1 .. Len(data)
    BY <1>1
  <2>2. front = SubSeq(data, one, offset) /\ offset - one + 1 = offset /\ \A p \in 1 .. offset : one + p - 1 = p
    OBVIOUS
  <2> HIDE DEF one, front
  <2>3. /\ SubSeq(data, one, offset) \in Seq(S) /\ Len(SubSeq(data, one, offset)) = offset - one + 1
        /\ \A p \in 1 .. offset - one + 1 : SubSeq(data, one, offset)[p] = data[one + p - 1]
    BY <1>1, <2>1, PartFacts
  <2> QED BY <2>2, <2>3
<1>3. back \in Seq(S) /\ Len(back) = rest /\ \A p \in 1 .. rest : back[p] = data[done + p]
  <2>1. from \in 1 .. Len(data) + 1 /\ size \in from - 1 .. Len(data)
    BY <1>1
  <2>2. back = SubSeq(data, from, size) /\ size - from + 1 = rest /\ \A p \in 1 .. rest : from + p - 1 = done + p
    OBVIOUS
  <2> HIDE DEF from, back, rest, done
  <2>3. /\ SubSeq(data, from, size) \in Seq(S) /\ Len(SubSeq(data, from, size)) = size - from + 1
        /\ \A p \in 1 .. size - from + 1 : SubSeq(data, from, size)[p] = data[from + p - 1]
    BY <1>1, <2>1, PartFacts
  <2> QED BY <2>2, <2>3
<1>d. done \in Nat /\ rest \in Nat /\ done + rest = size
  OBVIOUS
<1> HIDE DEF rest, front, back, one, from
<1> DEFINE both == front \o piece
<1>4. both \in Seq(S) /\ Len(both) = done
      /\ \A p \in 1 .. done : both[p] = IF p <= offset THEN front[p] ELSE piece[p - offset]
  <2>1. /\ both \in Seq(S) /\ Len(both) = Len(front) + Len(piece)
        /\ \A p \in 1 .. Len(front) + Len(piece) :
             both[p] = IF p <= Len(front) THEN front[p] ELSE piece[p - Len(front)]
    BY <1>1, <1>2, WholeFacts
  <2> QED BY <1>1, <1>2, <2>1
<1> HIDE DEF both, done
<1>5. new = both \o back
  BY DEF both, front, back
<1>c. /\ new \in Seq(S) /\ Len(new) = Len(both) + Len(back)
      /\ \A p \in 1 .. Len(both) + Len(back) : new[p] = IF p <= Len(both) THEN both[p] ELSE back[p - Len(both)]
  <2>1. /\ both \o back \in Seq(S) /\ Len(both \o back) = Len(both) + Len(back)
        /\ \A p \in 1 .. Len(both) + Len(back) :
             (both \o back)[p] = IF p <= Len(both) THEN both[p] ELSE back[p - Len(both)]
    BY <1>3, <1>4, WholeFacts
  <2> QED BY <1>5, <2>1
<1>6. new \in Seq(S) /\ Len(new) = size
  BY <1>3, <1>4, <1>c, <1>d
<1>7. \A p \in 1 .. size : new[p] = IF p <= done THEN both[p] ELSE back[p - done]
  BY <1>3, <1>4, <1>c, <1>d
<1>8. new = [p \in 1 .. size |-> new[p]]
  <2>1. new = [p \in 1 .. Len(new) |-> new[p]]
    BY <1>6, SequenceIsFunction
  <2> QED BY <1>6, <2>1
<1>9. ASSUME NEW p \in 1 .. size
      PROVE  new[p] = IF p <= offset THEN data[p] ELSE IF p <= done THEN piece[p - offset] ELSE data[p]
  <2>1. CASE p <= offset
    <3>1. p \in 1 .. done /\ p \in 1 .. offset /\ p <= done
      BY <2>1, <1>d DEF done
    <3> QED BY <2>1, <3>1, <1>2, <1>4, <1>7
  <2>2. CASE ~(p <= offset) /\ p <= done
    <3>1. p \in 1 .. done
      BY <2>2, <1>d
    <3> QED BY <2>2, <3>1, <1>4, <1>7
  <2>3. CASE ~(p <= done)
    <3>0. p \in Nat /\ p <= size /\ p > done
      BY <2>3, <1>d
    <3>1. p - done \in 1 .. rest /\ done + (p - done) = p
      BY <3>0, <1>d
    <3>2. ~(p <= offset)
      BY <2>3 DEF done
    <3> QED BY <2>3, <3>1, <3>2, <1>3, <1>7
  <2> QED BY <2>1, <2>2, <2>3
<1> QED BY <1>8, <1>9 DEF done, Overlaid

LEMMA PutTogether ==
  ASSUME NEW data, NEW piece, NEW offset \in Nat, NEW length \in Nat,
         data = [p \in 1 .. offset |-> data[p]], piece = [p \in 1 .. length |-> piece[p]]
  PROVE  data \o piece = [p \in 1 .. offset + length |-> IF p <= offset THEN data[p] ELSE piece[p - offset]]
<1> DEFINE S == {data[p] : p \in 1 .. offset} \union {piece[p] : p \in 1 .. length}
<1>1. data \in Seq(S) /\ Len(data) = offset /\ piece \in Seq(S) /\ Len(piece) = length
  <2>1. \A p \in 1 .. offset : data[p] \in S
    OBVIOUS
  <2>2. \A p \in 1 .. length : piece[p] \in S
    OBVIOUS
  <2> HIDE DEF S
  <2>3. data \in [1 .. offset -> S] /\ piece \in [1 .. length -> S]
    BY <2>1, <2>2
  <2> QED BY <2>3
<1> HIDE DEF S
<1> QED BY <1>1

(* While the data is processed.                                            *)
LEMMA ProcessingFacts ==
  ASSUME IInv, pc = "ProcessData"
  PROVE  /\ blocksize \in Nat \ {0} /\ chunksize \in Nat /\ recoveryblockcount \in Nat
         /\ deferhashcomputation \in BOOLEAN
         /\ Ordered /\ headers = {} /\ written = 0 /\ changes \in Nat
         /\ blockoffset \in 0 .. blocksize - 1
         /\ ChunkLength \in Nat /\ blockoffset + ChunkLength <= blocksize
         /\ deferhashcomputation => blockoffset = 0 /\ ChunkLength = blocksize
         /\ outputblock \in 1 .. recoveryblockcount + 1
         /\ IsFiniteSet(DOMAIN disk) /\ DOMAIN disk # {}
         /\ sourcefiles \in Seq(DOMAIN disk)
<1> USE DEF IInv
<1>1. /\ blocksize \in Nat \ {0} /\ chunksize \in Nat /\ recoveryblockcount \in Nat
      /\ deferhashcomputation \in BOOLEAN /\ (deferhashcomputation => chunksize = blocksize)
      /\ sourcefiles \in Seq(DOMAIN disk)
  BY DEF Shape, Sizing
<1>2. Ordered /\ headers = {} /\ written = 0 /\ changes \in Nat
  BY DEF Staged, Reading
<1>3. blockoffset \in 0 .. blocksize - 1 /\ (deferhashcomputation => blockoffset = 0)
      /\ outputblock \in 1 .. recoveryblockcount + 1
  BY DEF Passing
<1>4. ChunkLength \in Nat /\ blockoffset + ChunkLength <= blocksize
      /\ (chunksize = blocksize /\ blockoffset = 0 => ChunkLength = blocksize)
  BY <1>1, <1>3 DEF ChunkLength, Least
<1>5. IsFiniteSet(DOMAIN disk) /\ DOMAIN disk # {}
  BY <1>1, BlockCounts
<1> QED BY <1>1, <1>2, <1>3, <1>4, <1>5

(* The block that the cursors point at, and where NextSource goes.         *)
LEMMA CursorFacts ==
  ASSUME Shape, Hashed, Ordered, blocksize # 0,
         NEW start, StartsAt(start, sourcefiles, BlocksOf),
         CursorAt(start, inputblock, sourcefile, sourceindex), inputblock <= Len(SourceBlocks)
  PROVE  /\ sourcefile \in 1 .. Len(sourcefiles) /\ sourcefiles[sourcefile] \in DOMAIN disk
         /\ sourceindex \in Nat /\ sourceindex + 1 \in 1 .. BlockCount(sourcefiles[sourcefile])
         /\ inputblock = start[sourcefile - 1] + (sourceindex + 1)
         /\ SourceBlocks[inputblock] = <<sourcefiles[sourcefile], sourceindex + 1>>
         /\ Described[inputblock] = verifications[sourcefiles[sourcefile]][sourceindex + 1]
         /\ NextSource => CursorAt(start, inputblock + 1, sourcefile', sourceindex')
<1> DEFINE N == Len(sourcefiles)
<1>0. Listed(start)
  BY Listing
<1>1. /\ N \in Nat \ {0} /\ Len(SourceBlocks) \in Nat /\ Len(SourceBlocks) = start[N]
      /\ \A i \in 1 .. N :
           /\ sourcefiles[i] \in DOMAIN disk
           /\ start[i] = start[i - 1] + BlockCount(sourcefiles[i])
           /\ start[i] \in Nat /\ start[i - 1] \in Nat
           /\ BlockCount(sourcefiles[i]) \in Nat \ {0}
           /\ \A n \in 1 .. BlockCount(sourcefiles[i]) :
                /\ SourceBlocks[start[i - 1] + n] = <<sourcefiles[i], n>>
                /\ Described[start[i - 1] + n] = verifications[sourcefiles[i]][n]
  BY <1>0 DEF Listed
<1>2. /\ inputblock = start[sourcefile - 1] + sourceindex + 1
      /\ sourcefile \in 1 .. N + 1 /\ sourceindex \in Nat
      /\ sourcefile <= N => sourceindex < BlockCount(sourcefiles[sourcefile])
      /\ sourcefile > N => sourceindex = 0
  BY DEF CursorAt
<1> HIDE DEF N
<1>3. sourcefile \in 1 .. N
  <2>1. SUFFICES ASSUME sourcefile > N PROVE FALSE
    BY <1>1, <1>2
  <2>2. sourcefile - 1 = N /\ sourceindex = 0
    BY <1>1, <1>2, <2>1
  <2>3. inputblock = start[N] + 0 + 1
    BY <1>2, <2>2
  <2> QED BY <1>1, <2>3
<1> DEFINE f == sourcefiles[sourcefile]
           n == sourceindex + 1
           before == start[sourcefile - 1]
<1>4. /\ f \in DOMAIN disk /\ before \in Nat /\ start[sourcefile] = before + BlockCount(f)
      /\ BlockCount(f) \in Nat \ {0} /\ sourceindex < BlockCount(f)
      /\ inputblock = before + sourceindex + 1
  BY <1>1, <1>2, <1>3
<1>5. n \in 1 .. BlockCount(f) /\ inputblock = before + n
  BY <1>2, <1>4
<1>6. SourceBlocks[before + n] = <<f, n>> /\ Described[before + n] = verifications[f][n]
  BY <1>1, <1>3, <1>5
<1>7. ASSUME NextSource PROVE CursorAt(start, inputblock + 1, sourcefile', sourceindex')
  <2>1. CASE sourceindex + 1 >= BlockCount(f)
    <3>1. sourcefile' = sourcefile + 1 /\ sourceindex' = 0
      BY <1>7, <2>1 DEF NextSource
    <3>2. sourceindex + 1 = BlockCount(f)
      BY <1>2, <1>4, <2>1
    <3>3. sourcefile' - 1 = sourcefile /\ inputblock + 1 = start[sourcefile] + 0 + 1
      BY <1>2, <1>4, <3>1, <3>2
    <3>4. sourcefile' \in 1 .. N + 1
      BY <1>1, <1>3, <3>1
    <3>5. sourcefile' <= N => 0 < BlockCount(sourcefiles[sourcefile'])
      <4>1. sourcefile' <= N => sourcefile' \in 1 .. N
        BY <1>1, <3>4
      <4>2. \A i \in 1 .. N : 0 < BlockCount(sourcefiles[i])
        BY <1>1
      <4> QED BY <4>1, <4>2
    <3> QED BY <3>1, <3>3, <3>4, <3>5 DEF CursorAt, N
  <2>2. CASE ~(sourceindex + 1 >= BlockCount(f))
    <3>1. sourcefile' = sourcefile /\ sourceindex' = sourceindex + 1
      BY <1>7, <2>2 DEF NextSource
    <3>2. sourceindex' < BlockCount(f) /\ sourceindex' \in Nat /\ inputblock + 1 = before + sourceindex' + 1
      BY <1>2, <1>4, <2>2, <3>1
    <3>3. sourcefile \in 1 .. N + 1 /\ sourcefile <= N /\ ~(sourcefile > N)
      BY <1>1, <1>3
    <3> QED BY <3>1, <3>2, <3>3 DEF CursorAt, N
  <2> QED BY <2>1, <2>2
<1> QED BY <1>2, <1>3, <1>4, <1>5, <1>6, <1>7 DEF N

(* With hashes that were computed when the files were opened.              *)
LEMMA HashedBefore ==
  ASSUME Shape, Hashed, Ordered, blocksize # 0, ~deferhashcomputation,
         NEW start, StartsAt(start, sourcefiles, BlocksOf)
  PROVE  \A k \in 1 .. Len(SourceBlocks) : Described[k] \in Words
<1> TAKE k \in 1 .. Len(SourceBlocks)
<1>0. Listed(start)
  BY Listing
<1>1. PICK i \in 1 .. Len(sourcefiles) : \E n \in 1 .. BlockCount(sourcefiles[i]) : k = start[i - 1] + n
  BY <1>0 DEF Listed
<1>2. PICK n \in 1 .. BlockCount(sourcefiles[i]) : k = start[i - 1] + n
  BY <1>1
<1>3. /\ Described[start[i - 1] + n] = verifications[sourcefiles[i]][n]
      /\ sourcefiles[i] \in DOMAIN disk /\ ToSet(sourcefiles) = DOMAIN disk
  BY <1>0 DEF Listed
<1>4. verifications[sourcefiles[i]] \in [1 .. BlockCount(sourcefiles[i]) -> Words]
  BY <1>3 DEF Hashed, HashesOf
<1> QED BY <1>2, <1>3, <1>4

(* UpdateHashes puts the block that was read into the hash of its place.   *)
LEMMA UpdateHashesFacts ==
  ASSUME Shape, Hashed, Ordered, deferhashcomputation, blocksize \in Nat \ {0},
         NEW start, StartsAt(start, sourcefiles, BlocksOf),
         CursorAt(start, inputblock, sourcefile, sourceindex), inputblock \in 1 .. Len(SourceBlocks),
         NEW data \in Words, UpdateHashes(data),
         UNCHANGED <<input, sizes, sourcefiles, descriptions>>
  PROVE  /\ Hashed' /\ Described'[inputblock] = data
         /\ \A k \in 1 .. Len(SourceBlocks) : k # inputblock => Described'[k] = Described[k]
<1> DEFINE F == DOMAIN disk
           V == Words \union {None}
           f == sourcefiles[sourcefile]
           n == sourceindex + 1
<1>1. Listed(start)
  BY Listing
<1>2. /\ sourcefile \in 1 .. Len(sourcefiles) /\ f \in F /\ n \in 1 .. BlockCount(f) /\ sourceindex \in Nat
      /\ inputblock = start[sourcefile - 1] + n
  <2>1. inputblock <= Len(SourceBlocks)
    BY <1>1 DEF Listed
  <2> QED BY <2>1, CursorFacts
<1>3. IsFiniteSet(F) /\ \A g \in F : BlockCount(g) \in Nat \ {0}
  BY BlockCounts
<1>4. /\ sourcefiles \in Seq(F) /\ Len(sourcefiles) > 0 /\ ToSet(sourcefiles) = F
      /\ \A i, j \in 1 .. Len(sourcefiles) : sourcefiles[i] = sourcefiles[j] => i = j
  BY <1>1, <1>3, OrderFacts DEF Ordered, Listed
<1>5. ASSUME NEW g \in F
      PROVE  /\ verifications[g] \in Seq(V) /\ Len(verifications[g]) = BlockCount(g)
             /\ contextfull[g] \in Seq(Field)
  <2>1. HashesOf(g)
    BY <1>4 DEF Hashed
  <2>2. verifications[g] \in [1 .. BlockCount(g) -> V] /\ contextfull[g] \in Seq(Field)
    BY <2>1 DEF HashesOf
  <2> HIDE DEF V
  <2> QED BY <1>3, <2>2
<1>6. /\ DOMAIN verifications = F /\ verifications = [g \in F |-> verifications[g]]
      /\ DOMAIN contextfull = F /\ DOMAIN descriptions = F
  BY <1>4 DEF Hashed
<1>7. verifications \in [F -> Seq(V)]
  <2> HIDE DEF F, V
  <2> QED BY <1>5, <1>6
<1>8. StartsAt(start, sourcefiles, verifications)
  <2>1. \A i \in 1 .. Len(sourcefiles) : sourcefiles[i] \in F
    BY <1>1 DEF Listed
  <2>2. \A i \in 1 .. Len(sourcefiles) : start[i] = start[i - 1] + BlockCount(sourcefiles[i])
    BY <1>1 DEF Listed
  <2> QED BY <1>5, <2>1, <2>2 DEF StartsAt
<1>9. verifications' = [verifications EXCEPT ![f][n] = data]
  BY DEF UpdateHashes
<1>10. Len(SourceBlocks) = start[Len(sourcefiles)]
  BY <1>1 DEF Listed
<1>11. Described = Joined(sourcefiles, verifications) /\ Described' = Joined(sourcefiles, verifications')
  BY DEF Described, Joined
<1> DEFINE new == verifications'
<1>12. /\ new \in [F -> Seq(V)] /\ \A g \in F : Len(new[g]) = Len(verifications[g])
       /\ Joined(sourcefiles, new)[start[sourcefile - 1] + n] = data
       /\ \A j \in 1 .. start[Len(sourcefiles)] :
            j # start[sourcefile - 1] + n =>
              Joined(sourcefiles, new)[j] = Joined(sourcefiles, verifications)[j]
  <2>1. data \in V /\ n \in 1 .. Len(verifications[f])
      /\ Changed(verifications, new, sourcefiles[sourcefile], n, data)
    BY <1>2, <1>5, <1>9 DEF Changed
  <2>2. Distinct(sourcefiles)
    BY <1>4 DEF Distinct
  <2> HIDE DEF F, V, n, new
  <2>3. new \in [F -> Seq(V)]
        /\ Replaced(sourcefiles, verifications, new, start, start[sourcefile - 1] + n, data)
    BY <1>2, <1>4, <1>7, <1>8, <2>1, <2>2, ReplaceOne
  <2> QED BY <1>6, <2>3 DEF Replaced
<1>13. Described'[inputblock] = data
       /\ \A k \in 1 .. Len(SourceBlocks) : k # inputblock => Described'[k] = Described[k]
  BY <1>2, <1>10, <1>11, <1>12
<1>14. Hashed'
  <2> DEFINE part == SubSeq(data, 1, Least(Len(data), Len(disk[f]) - sourceindex * blocksize))
  <2>1. contextfull' = [contextfull EXCEPT ![f] = @ \o part]
    BY DEF UpdateHashes
  <2>2. part \in Seq(Field)
    <3> DEFINE rest == Len(disk[f]) - sourceindex * blocksize
               last == Least(Len(data), rest)
    <3>1. data \in Seq(Field) /\ Len(data) = blocksize
      <4> HIDE DEF Field
      <4> QED BY DEF Words
    <3>2. rest \in Int
      <4>1. Len(disk[f]) \in Nat
        BY <1>2, BlockCounts
      <4>2. sourceindex * blocksize \in Nat
        BY <1>2
      <4> QED BY <4>1, <4>2
    <3> HIDE DEF rest
    <3>3. last \in Int /\ last <= Len(data)
      BY <3>1, <3>2 DEF Least
    <3> DEFINE one == 1
    <3>4. part = SubSeq(data, one, last) /\ one \in Int /\ one = 1
      BY DEF rest
    <3> HIDE DEF last, part, one
    <3>5. \A i \in one .. last : data[i] \in Field
      <4> HIDE DEF Field
      <4> QED BY <3>1, <3>3, <3>4
    <3>6. SubSeq(data, one, last) \in Seq(Field)
      <4> HIDE DEF Field
      <4> QED BY <3>3, <3>4, <3>5, SubSeqProperties
    <3> QED BY <3>4, <3>6
  <2> HIDE DEF part
  <2>3. ASSUME NEW g \in F PROVE contextfull'[g] \in Seq(Field)
    <3> HIDE DEF Field
    <3> QED BY <1>5, <1>6, <2>1, <2>2
  <2>4. DOMAIN contextfull' = F
    BY <1>6, <2>1
  <2>5. /\ DOMAIN verifications' = F /\ verifications' = [g \in F |-> verifications'[g]]
    BY <1>12
  <2>6. ASSUME NEW g \in F PROVE verifications'[g] \in [1 .. BlockCount(g) -> V]
    <3>1. verifications'[g] \in Seq(V) /\ Len(verifications'[g]) = BlockCount(g)
      BY <1>5, <1>12
    <3> HIDE DEF V
    <3> QED BY <3>1
  <2>7. ASSUME NEW g \in F PROVE HashesOf(g)'
    <3>1. HashesOf(g)
      BY <1>4 DEF Hashed
    <3>2. (BlockCount(g))' = BlockCount(g) /\ Words' = Words /\ UNCHANGED <<deferhashcomputation, descriptions>>
      BY DEF BlockCount, Words, input, sizes
    <3> QED BY <2>3, <2>6, <3>1, <3>2 DEF HashesOf
  <2> QED BY <1>4, <1>6, <2>4, <2>5, <2>7 DEF Hashed
<1> QED BY <1>13, <1>14

(* A block that is read is the one that its hash describes, if it is       *)
(* hashed now or if its file did not change since.                         *)
HashedAs(data) ==
  /\ Hashed' /\ Described'[inputblock] \in Words
  /\ \A k \in 1 .. Len(SourceBlocks) : k # inputblock => Described'[k] = Described[k]
  /\ ~deferhashcomputation => Described' = Described
  /\ ReadAsHashed => \A p \in 1 .. ChunkLength : data[p] = Described'[inputblock][blockoffset + p]

LEMMA BlockIsHashed ==
  ASSUME IInv, pc = "ProcessData", inputblock \in 1 .. Len(SourceBlocks),
         NEW data, data = ReadData(SourceBlocks[inputblock], blockoffset, ChunkLength),
         IF deferhashcomputation THEN UpdateHashes(data) ELSE UNCHANGED <<verifications, contextfull>>,
         UNCHANGED <<input, sizes, sourcefiles, descriptions>>
  PROVE  data \in [1 .. ChunkLength -> Field] /\ HashedAs(data)
<1>1. /\ blocksize \in Nat \ {0} /\ blockoffset \in 0 .. blocksize - 1
      /\ ChunkLength \in Nat /\ blockoffset + ChunkLength <= blocksize
      /\ deferhashcomputation \in BOOLEAN
      /\ deferhashcomputation => blockoffset = 0 /\ ChunkLength = blocksize
  BY ProcessingFacts
<1>2. Shape /\ Hashed /\ Ordered
  BY ProcessingFacts DEF IInv
<1>3. PICK start : /\ StartsAt(start, sourcefiles, BlocksOf)
                   /\ CursorAt(start, inputblock, sourcefile, sourceindex)
  BY DEF IInv, CursorsAgree
<1>4. Listed(start)
  BY <1>1, <1>2, <1>3, Listing
<1>5. inputblock <= Len(SourceBlocks)
  BY <1>4 DEF Listed
<1> DEFINE f == sourcefiles[sourcefile]
           n == sourceindex + 1
<1>6. /\ f \in DOMAIN disk /\ n \in 1 .. BlockCount(f) /\ n \in Nat \ {0}
      /\ SourceBlocks[inputblock] = <<f, n>> /\ Described[inputblock] = verifications[f][n]
  BY <1>1, <1>2, <1>3, <1>5, CursorFacts
<1> HIDE DEF f, n
<1>7. /\ data \in [1 .. ChunkLength -> Field]
      /\ \A p \in 1 .. ChunkLength : /\ blockoffset + p \in 1 .. blocksize
                                     /\ data[p] = ReadData(<<f, n>>, 0, blocksize)[blockoffset + p]
  <2> DEFINE position == blockoffset
             length == ChunkLength
  <2>1. position \in Nat /\ length \in Nat /\ position + length <= blocksize
    BY <1>1
  <2>2. data = ReadData(<<f, n>>, position, length)
    BY <1>6
  <2> HIDE DEF position, length
  <2>3. ReadData(<<f, n>>, position, length) \in [1 .. length -> Field]
    BY <1>2, <1>6, <2>1, ReadDataFacts
  <2>4. IsPart(ReadData(<<f, n>>, position, length), ReadData(<<f, n>>, 0, blocksize), position, length)
    BY <1>2, <1>6, <2>1, ReadDataFacts
  <2> QED BY <2>2, <2>3, <2>4 DEF position, length, IsPart
<1>8. CASE deferhashcomputation
  <2>1. UpdateHashes(data) /\ blockoffset = 0 /\ ChunkLength = blocksize
    BY <1>1, <1>8
  <2>2. data \in Words
    BY <1>7, <2>1 DEF Words
  <2>3. /\ Hashed' /\ Described'[inputblock] = data
        /\ \A k \in 1 .. Len(SourceBlocks) : k # inputblock => Described'[k] = Described[k]
    BY <1>1, <1>2, <1>3, <1>8, <2>1, <2>2, UpdateHashesFacts
  <2>4. \A p \in 1 .. ChunkLength : blockoffset + p = p
    BY <1>1, <2>1
  <2> QED BY <1>7, <1>8, <2>2, <2>3, <2>4 DEF HashedAs
<1>9. CASE ~deferhashcomputation
  <2>1. UNCHANGED <<verifications, contextfull>>
    BY <1>9
  <2>2. Described' = Described
    BY <2>1 DEF Described
  <2>3. Hashed'
    BY <1>2, <2>1, HashedStays DEF hashes
  <2>4. Described[inputblock] \in Words
    BY <1>1, <1>2, <1>3, <1>9, HashedBefore
  <2>5. ASSUME ReadAsHashed, NEW p \in 1 .. ChunkLength
        PROVE  data[p] = Described[inputblock][blockoffset + p]
    <3>1. changes = 0
      BY <1>9, <2>5 DEF ReadAsHashed
    <3>2. f \in ToSet(sourcefiles)
      BY <1>4, <1>6 DEF Listed
    <3>3. verifications[f][n] = ReadData(<<f, n>>, 0, blocksize)
      BY <1>2, <1>6, <1>9, <3>1, <3>2 DEF Hashed, HashesOf
    <3> QED BY <1>6, <1>7, <3>3
  <2> QED BY <1>7, <2>2, <2>3, <2>4, <2>5 DEF HashedAs
<1> QED BY <1>1, <1>8, <1>9

LEMMA ReadBlockKeeps == (IInv /\ ReadBlock) => IInv'
<1> SUFFICES ASSUME IInv, ReadBlock PROVE IInv'
  OBVIOUS
<1>1. /\ pc = "ProcessData" /\ inputblock <= Len(SourceBlocks)
      /\ UNCHANGED <<input, sizes, sourcefiles, descriptions, files, blockoffset, outputblock, matrix, packets>>
  BY DEF ReadBlock
<1>2. CASE pc' = "Done"
  <2>1. UNCHANGED <<verifications, contextfull, outputbuffer, inputblock, sourcefile, sourceindex>>
    BY <1>1, <1>2 DEF ReadBlock
  <2> QED BY <1>1, <1>2, <2>1, StopKeeps DEF hashes, cursor
<1>3. CASE pc' # "Done"
  <2> DEFINE data == ReadData(SourceBlocks[inputblock], blockoffset, ChunkLength)
  <2>1. /\ pc' = pc /\ (IF deferhashcomputation THEN UpdateHashes(data) ELSE UNCHANGED <<verifications, contextfull>>)
        /\ outputbuffer' = [i \in DOMAIN outputbuffer |->
                              Process(matrix[<<i, inputblock>>], data, outputbuffer[i])]
        /\ NextSource /\ inputblock' = inputblock + 1
    BY <1>3 DEF ReadBlock, Stop
  <2>2. data = ReadData(SourceBlocks[inputblock], blockoffset, ChunkLength)
    OBVIOUS
  <2> HIDE DEF data
  <2>3. /\ blocksize \in Nat \ {0} /\ recoveryblockcount \in Nat /\ chunksize \in Nat
        /\ deferhashcomputation \in BOOLEAN
        /\ Ordered /\ headers = {} /\ written = 0 /\ changes \in Nat
        /\ blockoffset \in 0 .. blocksize - 1
        /\ ChunkLength \in Nat /\ blockoffset + ChunkLength <= blocksize
    BY <1>1, ProcessingFacts
  <2>4. PICK start : /\ StartsAt(start, sourcefiles, BlocksOf)
                     /\ CursorAt(start, inputblock, sourcefile, sourceindex)
    BY <1>1 DEF IInv, CursorsAgree
  <2>5. Shape /\ Hashed
    BY DEF IInv
  <2>6. Listed(start)
    BY <2>3, <2>4, <2>5, Listing
  <2>7. /\ inputblock \in 1 .. Len(SourceBlocks) /\ outputblock = 1 /\ Len(SourceBlocks) \in Nat
        /\ DOMAIN outputbuffer = 1 .. recoveryblockcount
        /\ \A i \in 1 .. recoveryblockcount :
             /\ outputbuffer[i] = [p \in 1 .. ChunkLength |-> outputbuffer[i][p]]
             /\ packetcontext[i] = [p \in 1 .. Stored(i) |-> recoverydata[i][p]]
        /\ \A k \in 1 .. inputblock - 1 : Described[k] \in Words
        /\ (deferhashcomputation => blockoffset = 0)
    <3>1. Passing /\ Len(SourceBlocks) \in Nat
      BY <2>6 DEF IInv, Listed
    <3>2. /\ inputblock \in 1 .. Len(SourceBlocks) + 1 /\ outputblock \in 1 .. recoveryblockcount + 1
          /\ outputblock > 1 => inputblock = Len(SourceBlocks) + 1
      BY <1>1, <3>1 DEF Passing
    <3>3. inputblock \in 1 .. Len(SourceBlocks) /\ outputblock = 1
      BY <1>1, <2>3, <3>1, <3>2
    <3> QED BY <1>1, <3>1, <3>3 DEF Passing
  <2>8. data \in [1 .. ChunkLength -> Field] /\ HashedAs(data)
    BY <1>1, <2>1, <2>2, <2>7, BlockIsHashed
  <2>9. UNCHANGED <<pc, blocksize, recoveryblockcount, chunksize, deferhashcomputation, sourcefiles, blockoffset,
                    outputblock, matrix, recoverydata, packetcontext, headers, written, ask, disk, changes>>
    BY <1>1, <2>1 DEF input, sizes, packets
  <2>10. /\ ChunkLength' = ChunkLength /\ Words' = Words /\ BlocksOf' = BlocksOf
         /\ SourceBlocks' = SourceBlocks /\ (Ordered <=> Ordered')
         /\ \A i : Stored(i)' = Stored(i) /\ Row(i)' = Row(i)
    <3>1. ChunkLength' = ChunkLength /\ Words' = Words /\ BlocksOf' = BlocksOf /\ (Ordered <=> Ordered')
      BY <2>9 DEF ChunkLength, Words, BlocksOf, BlockCount, Ordered
    <3>2. SourceBlocks' = SourceBlocks
      BY <2>9 DEF SourceBlocks, BlockCount
    <3> QED BY <2>9, <3>1, <3>2 DEF Stored, Row
  <2>11. Shape'
    BY <2>5, <2>9 DEF Shape
  <2>12. Staged'
    <3>1. Staged
      BY DEF IInv
    <3> QED BY <1>1, <2>3, <2>9, <2>10, <3>1 DEF Staged, Reading, Sizing
  <2>13. CursorsAgree'
    <3>1. CursorAt(start, inputblock + 1, sourcefile', sourceindex')
      BY <1>1, <2>1, <2>3, <2>4, <2>5, CursorFacts
    <3>2. CursorAt(start, inputblock, sourcefile, sourceindex)'
      BY <2>1, <2>9, <3>1 DEF CursorAt, BlockCount
    <3>3. StartsAt(start, sourcefiles, BlocksOf)'
      BY <2>4, <2>9, <2>10 DEF StartsAt
    <3> QED BY <3>2, <3>3 DEF CursorsAgree
  <2>14. ASSUME NEW i \in 1 .. recoveryblockcount
         PROVE  /\ outputbuffer'[i] = [p \in 1 .. ChunkLength |-> outputbuffer'[i][p]]
                /\ \A p \in 1 .. ChunkLength :
                     outputbuffer'[i][p] = AddTo(matrix[<<i, inputblock>>], data[p], outputbuffer[i][p])
    <3> DEFINE factor == matrix[<<i, inputblock>>]
               output == outputbuffer[i]
               sum == outputbuffer'[i]
               length == ChunkLength
    <3>1. output = [p \in 1 .. length |-> output[p]] /\ sum = Process(factor, data, output)
      BY <2>1, <2>7
    <3> HIDE DEF factor, output, sum, length
    <3>2. /\ sum = [p \in 1 .. length |-> sum[p]]
          /\ \A p \in 1 .. length : sum[p] = AddTo(factor, data[p], output[p])
      BY <3>1 DEF Process, AddTo
    <3> QED BY <3>2 DEF factor, output, sum, length
  <2>15. Passing'
    <3>1. \A k \in 1 .. inputblock' - 1 : Described'[k] \in Words
      <4> TAKE k \in 1 .. inputblock' - 1
      <4>1. k \in 1 .. Len(SourceBlocks) /\ (k # inputblock => k \in 1 .. inputblock - 1)
        BY <2>1, <2>7
      <4> QED BY <4>1, <2>7, <2>8 DEF HashedAs
    <3>2. inputblock' \in 1 .. Len(SourceBlocks) + 1 /\ ~(outputblock > 1)
      BY <2>1, <2>7
    <3>3. DOMAIN outputbuffer' = 1 .. recoveryblockcount
      BY <2>1, <2>7
    <3>4. outputblock \in 1 .. recoveryblockcount + 1
      BY <2>3, <2>7
    <3> QED BY <2>3, <2>7, <2>9, <2>10, <2>14, <3>1, <3>2, <3>3, <3>4 DEF Passing
  <2>16. SumsTrue'
    <3> SUFFICES ASSUME ReadAsHashed PROVE \A i \in 1 .. recoveryblockcount : \E h : SummedUp(i, h)'
      <4>1. ReadAsHashed' <=> ReadAsHashed
        BY <2>9 DEF ReadAsHashed
      <4> QED BY <2>9, <4>1 DEF SumsTrue
    <3> TAKE i \in 1 .. recoveryblockcount
    <3>1. PICK h : SummedUp(i, h)
      BY <1>1 DEF IInv, SumsTrue
    <3> DEFINE k == inputblock
               row == Row(i)
    <3>2. /\ k \in Nat \ {0} /\ k <= Len(SourceBlocks) /\ k - 1 \in Nat /\ k - 1 # k
          /\ row[k] = matrix[<<i, k>>]
      BY <2>7 DEF Row
    <3>3. /\ Summing(h, row, Described, blocksize, IF deferhashcomputation THEN k - 1 ELSE Len(SourceBlocks))
          /\ \A p \in 1 .. ChunkLength : outputbuffer[i][p] = h[k - 1][blockoffset + p]
          /\ \A p \in 1 .. Stored(i) : recoverydata[i][p] = h[Len(SourceBlocks)][p]
      BY <3>1 DEF SummedUp
    <3>4. \A p \in 1 .. ChunkLength : data[p] = Described'[k][blockoffset + p]
      BY <2>8 DEF HashedAs
    <3> HIDE DEF k, row
    <3> DEFINE next == [p \in 1 .. blocksize |-> AddTo(row[k], Described'[k][p], h[k - 1][p])]
               extended == [m \in 0 .. k |-> IF m = k THEN next ELSE h[m]]
               g == IF deferhashcomputation THEN extended ELSE h
    <3>5. Summing(g, row, Described', blocksize, IF deferhashcomputation THEN k ELSE Len(SourceBlocks))
      <4>1. CASE deferhashcomputation
        <5>1. Summing(h, row, Described, blocksize, k - 1)
          BY <3>3, <4>1
        <5>2. extended[0] = Zeros(blocksize)
          BY <3>2, <5>1 DEF Summing
        <5>3. ASSUME NEW m \in 1 .. k
              PROVE  extended[m] = [p \in 1 .. blocksize |-> AddTo(row[m], Described'[m][p], extended[m - 1][p])]
          <6>1. m \in 0 .. k /\ m - 1 \in 0 .. k /\ m - 1 # k
            BY <3>2
          <6>2. extended[m - 1] = h[m - 1]
            BY <6>1
          <6>3. CASE m = k
            BY <6>1, <6>2, <6>3
          <6>4. CASE m # k
            <7>1. m \in 1 .. k - 1 /\ m \in 1 .. Len(SourceBlocks) /\ extended[m] = h[m]
              BY <6>1, <6>4, <3>2, <2>7
            <7>2. Described'[m] = Described[m]
              BY <7>1, <6>4, <2>8 DEF HashedAs, k
            <7> QED BY <5>1, <6>2, <7>1, <7>2 DEF Summing
          <6> QED BY <6>3, <6>4
        <5> HIDE DEF extended
        <5>4. Summing(extended, row, Described', blocksize, k)
          BY <5>2, <5>3 DEF Summing
        <5> QED BY <4>1, <5>4
      <4>2. CASE ~deferhashcomputation
        BY <2>8, <3>3, <4>2 DEF HashedAs
      <4> QED BY <4>1, <4>2, <2>3
    <3>6. g[k - 1] = h[k - 1] /\ g[k] = next
      <4>1. CASE deferhashcomputation
        <5>1. k \in 0 .. k /\ k - 1 \in 0 .. k
          BY <3>2
        <5> QED BY <3>2, <4>1, <5>1
      <4>2. CASE ~deferhashcomputation
        <5>1. k \in 1 .. Len(SourceBlocks)
          BY <3>2, <2>7
        <5> QED BY <3>5, <4>2, <5>1 DEF Summing
      <4> QED BY <4>1, <4>2, <2>3
    <3> HIDE DEF g
    <3>7. \A p \in 1 .. ChunkLength : outputbuffer'[i][p] = g[k][blockoffset + p]
      <4> TAKE p \in 1 .. ChunkLength
      <4>1. blockoffset + p \in 1 .. blocksize
        BY <2>3
      <4>2. g[k][blockoffset + p] = AddTo(row[k], Described'[k][blockoffset + p], h[k - 1][blockoffset + p])
        BY <3>6, <4>1
      <4>3. outputbuffer'[i][p] = AddTo(matrix[<<i, k>>], data[p], outputbuffer[i][p])
        BY <2>14 DEF k
      <4> QED BY <3>2, <3>3, <3>4, <4>2, <4>3
    <3>8. \A p \in 1 .. Stored(i) : recoverydata[i][p] = g[Len(SourceBlocks)][p]
      <4>1. CASE deferhashcomputation
        <5>1. Stored(i) = 0
          BY <2>7, <4>1 DEF Stored
        <5> QED BY <5>1
      <4>2. CASE ~deferhashcomputation
        BY <3>3, <4>2 DEF g
      <4> QED BY <4>1, <4>2, <2>3
    <3>9. /\ Row(i)' = row /\ inputblock' = k + 1 /\ inputblock' - 1 = k
      BY <2>1, <2>10, <3>2 DEF row, k
    <3>10. PICK u : u = g
      OBVIOUS
    <3>11. SummedUp(i, u)'
      <4>1. Summing(u, Row(i)', Described', blocksize',
                    IF deferhashcomputation' THEN inputblock' - 1 ELSE Len(SourceBlocks'))
        BY <2>9, <2>10, <3>10, <3>5, <3>9
      <4>2. \A p \in 1 .. ChunkLength' : outputbuffer'[i][p] = u[inputblock' - 1][blockoffset' + p]
        BY <2>9, <2>10, <3>10, <3>7, <3>9
      <4>3. \A p \in 1 .. Stored(i)' : recoverydata'[i][p] = u[Len(SourceBlocks')][p]
        BY <2>9, <2>10, <3>10, <3>8
      <4> QED BY <4>1, <4>2, <4>3 DEF SummedUp, Summing, Zeros
    <3> QED BY <3>11
  <2>17. HashesDone' /\ DataWritten'
    BY <1>1, <2>3, <2>9 DEF HashesDone, DataWritten
  <2> QED BY <2>8, <2>11, <2>12, <2>13, <2>15, <2>16, <2>17 DEF IInv, HashedAs
<1> QED BY <1>2, <1>3

LEMMA WriteDataKeeps == (IInv /\ WriteData) => IInv'
<1> SUFFICES ASSUME IInv, WriteData PROVE IInv'
  OBVIOUS
<1>1. /\ pc = "ProcessData" /\ inputblock > Len(SourceBlocks) /\ outputblock <= recoveryblockcount
      /\ UNCHANGED <<input, sizes, sourcefiles, hashes, files, matrix, outputbuffer, headers, written,
                     blockoffset, inputblock, sourcefile, sourceindex>>
  BY DEF WriteData
<1>2. CASE pc' = "Done"
  <2>1. UNCHANGED <<packetcontext, recoverydata, outputblock>>
    BY <1>1, <1>2 DEF WriteData
  <2> QED BY <1>1, <1>2, <2>1, StopKeeps DEF cursor, packets
<1>3. CASE pc' # "Done"
  <2> DEFINE ob == outputblock
             data == recoverydata[ob]
             piece == outputbuffer[ob]
             new == SubSeq(data, 1, blockoffset) \o piece \o SubSeq(data, blockoffset + ChunkLength + 1, blocksize)
             context == packetcontext[ob] \o piece
  <2>1. /\ pc' = pc /\ outputblock' = outputblock + 1
        /\ packetcontext' = [packetcontext EXCEPT ![ob] = context]
        /\ recoverydata' = [recoverydata EXCEPT ![ob] = new]
    BY <1>3 DEF WriteData, Stop
  <2>2. /\ blocksize \in Nat \ {0} /\ recoveryblockcount \in Nat /\ chunksize \in Nat
        /\ deferhashcomputation \in BOOLEAN
        /\ Ordered /\ headers = {} /\ written = 0 /\ changes \in Nat
        /\ blockoffset \in 0 .. blocksize - 1
        /\ ChunkLength \in Nat /\ blockoffset + ChunkLength <= blocksize
        /\ outputblock \in 1 .. recoveryblockcount + 1
    BY <1>1, ProcessingFacts
  <2>3. Shape /\ Hashed /\ Staged /\ Passing /\ CursorsAgree /\ SumsTrue
    BY DEF IInv
  <2>4. UNCHANGED <<pc, blocksize, recoveryblockcount, chunksize, deferhashcomputation, sourcefiles, blockoffset,
                    inputblock, sourcefile, sourceindex, outputbuffer, matrix, headers, written, ask, disk, changes,
                    descriptions, verifications, contextfull>>
    BY <1>1, <2>1 DEF input, sizes, hashes
  <2>5. /\ ChunkLength' = ChunkLength /\ Words' = Words /\ BlocksOf' = BlocksOf
        /\ SourceBlocks' = SourceBlocks /\ Described' = Described /\ (Ordered <=> Ordered')
        /\ \A i : Row(i)' = Row(i)
    <3>1. ChunkLength' = ChunkLength /\ Words' = Words /\ BlocksOf' = BlocksOf /\ (Ordered <=> Ordered')
      BY <2>4 DEF ChunkLength, Words, BlocksOf, BlockCount, Ordered
    <3>2. SourceBlocks' = SourceBlocks /\ Described' = Described
      BY <2>4 DEF SourceBlocks, BlockCount, Described
    <3> QED BY <2>4, <3>1, <3>2 DEF Row
  <2>6. /\ ob \in 1 .. recoveryblockcount
        /\ \A i \in 1 .. recoveryblockcount :
             Stored(i)' = IF i = ob THEN blockoffset + ChunkLength ELSE Stored(i)
        /\ Stored(ob) = blockoffset
    <3>1. ob \in 1 .. recoveryblockcount
      BY <1>1, <2>2
    <3>2. \A i \in 1 .. recoveryblockcount : (i < ob + 1) <=> (i = ob \/ i < ob)
      BY <2>2
    <3>3. ~(ob < ob) /\ blockoffset \in Nat
      BY <2>2
    <3> QED BY <2>1, <2>4, <2>5, <3>1, <3>2, <3>3 DEF Stored
  <2>7. /\ DOMAIN recoverydata = 1 .. recoveryblockcount /\ DOMAIN packetcontext = 1 .. recoveryblockcount
        /\ \A i \in 1 .. recoveryblockcount : recoverydata[i] = [p \in 1 .. blocksize |-> recoverydata[i][p]]
    BY <1>1, <2>3 DEF Staged
  <2>8. /\ DOMAIN outputbuffer = 1 .. recoveryblockcount
        /\ \A i \in 1 .. recoveryblockcount :
             /\ outputbuffer[i] = [p \in 1 .. ChunkLength |-> outputbuffer[i][p]]
             /\ packetcontext[i] = [p \in 1 .. Stored(i) |-> recoverydata[i][p]]
        /\ \A k \in 1 .. inputblock - 1 : Described[k] \in Words
        /\ (deferhashcomputation => blockoffset = 0)
        /\ inputblock \in 1 .. Len(SourceBlocks) + 1
    BY <1>1, <2>3 DEF Passing
  <2>9. PICK start : /\ StartsAt(start, sourcefiles, BlocksOf)
                     /\ CursorAt(start, inputblock, sourcefile, sourceindex)
    BY <1>1, <2>3 DEF CursorsAgree
  <2>10. inputblock = Len(SourceBlocks) + 1 /\ Len(SourceBlocks) \in Nat
    <3>1. Listed(start)
      BY <2>2, <2>3, <2>9, Listing
    <3>2. Len(SourceBlocks) \in Nat
      BY <3>1 DEF Listed
    <3> QED BY <1>1, <2>8, <3>2
  <2>11. /\ new = [p \in 1 .. blocksize |-> new[p]]
         /\ \A p \in 1 .. blocksize : new[p] = IF p <= blockoffset THEN data[p]
                ELSE IF p <= blockoffset + ChunkLength THEN piece[p - blockoffset] ELSE data[p]
    <3> DEFINE offset == blockoffset
               length == ChunkLength
               size == blocksize
    <3>1. /\ size \in Nat /\ offset \in Nat /\ length \in Nat /\ offset + length <= size
          /\ IsTable(data, size) /\ IsTable(piece, length)
          /\ new = SubSeq(data, 1, offset) \o piece \o SubSeq(data, offset + length + 1, size)
      BY <2>2, <2>6, <2>7, <2>8 DEF IsTable
    <3> HIDE DEF new, data, piece, offset, length, size
    <3>2. IsTable(new, size) /\ Overlaid(new, data, piece, offset, length, size)
      BY <3>1, WrittenFacts
    <3> QED BY <3>2 DEF offset, length, size, IsTable, Overlaid
  <2>12. context = [p \in 1 .. blockoffset + ChunkLength |->
                         IF p <= blockoffset THEN data[p] ELSE piece[p - blockoffset]]
    <3> DEFINE offset == blockoffset
               length == ChunkLength
               before == packetcontext[ob]
    <3>1. /\ offset \in Nat /\ length \in Nat
          /\ before = [p \in 1 .. offset |-> data[p]] /\ piece = [p \in 1 .. length |-> piece[p]]
      BY <2>2, <2>6, <2>8
    <3>2. context = before \o piece
      OBVIOUS
    <3> HIDE DEF context, data, piece, offset, length, before
    <3>3. before = [p \in 1 .. offset |-> before[p]] /\ \A p \in 1 .. offset : before[p] = data[p]
      BY <3>1
    <3>4. before \o piece = [p \in 1 .. offset + length |-> IF p <= offset THEN before[p] ELSE piece[p - offset]]
      BY <3>1, <3>3, PutTogether
    <3>5. \A p \in 1 .. offset + length : p <= offset => p \in 1 .. offset
      BY <3>1
    <3>6. \A p \in 1 .. offset + length : (IF p <= offset THEN before[p] ELSE piece[p - offset])
                                          = IF p <= offset THEN data[p] ELSE piece[p - offset]
      BY <3>3, <3>5
    <3> QED BY <3>2, <3>4, <3>6 DEF offset, length
  <2> HIDE DEF new, context
  <2>13. /\ recoverydata'[ob] = new /\ packetcontext'[ob] = context
         /\ \A i \in 1 .. recoveryblockcount : i # ob => recoverydata'[i] = recoverydata[i]
              /\ packetcontext'[i] = packetcontext[i]
         /\ DOMAIN recoverydata' = 1 .. recoveryblockcount /\ DOMAIN packetcontext' = 1 .. recoveryblockcount
    BY <2>1, <2>6, <2>7
  <2>14. \A p \in 1 .. blockoffset + ChunkLength :
           /\ p \in 1 .. blocksize
           /\ new[p] = IF p <= blockoffset THEN data[p] ELSE piece[p - blockoffset]
    BY <2>2, <2>11
  <2>15. context = [p \in 1 .. blockoffset + ChunkLength |-> new[p]]
    BY <2>12, <2>14
  <2> HIDE DEF data, piece, ob
  <2>16. Shape'
    BY <2>3, <2>4 DEF Shape
  <2>17. Hashed'
    BY <1>1, <2>3, HashedStays
  <2>18. Staged'
    <3>1. \A i \in 1 .. recoveryblockcount : recoverydata'[i] = [p \in 1 .. blocksize |-> recoverydata'[i][p]]
      BY <2>7, <2>11, <2>13
    <3>2. headers = {} /\ pc = "ProcessData"
      BY <1>1, <2>2
    <3> QED BY <2>2, <2>4, <2>5, <2>13, <3>1, <3>2 DEF Staged, Reading, Sizing
  <2>19. CursorsAgree'
    <3>1. CursorAt(start, inputblock, sourcefile, sourceindex)'
      BY <2>4, <2>9 DEF CursorAt, BlockCount
    <3>2. StartsAt(start, sourcefiles, BlocksOf)'
      BY <2>4, <2>5, <2>9 DEF StartsAt
    <3> QED BY <3>1, <3>2 DEF CursorsAgree
  <2>20. Passing'
    <3>1. \A i \in 1 .. recoveryblockcount : packetcontext'[i] = [p \in 1 .. Stored(i)' |-> recoverydata'[i][p]]
      <4> TAKE i \in 1 .. recoveryblockcount
      <4>1. CASE i = ob
        BY <2>6, <2>13, <2>15, <4>1
      <4>2. CASE i # ob
        BY <2>6, <2>8, <2>13, <4>2
      <4> QED BY <4>1, <4>2
    <3>2. outputblock' \in 1 .. recoveryblockcount + 1
      BY <2>1, <2>2, <2>6 DEF ob
    <3> QED BY <2>2, <2>4, <2>5, <2>8, <2>10, <3>1, <3>2 DEF Passing
  <2>21. SumsTrue'
    <3> SUFFICES ASSUME ReadAsHashed PROVE \A i \in 1 .. recoveryblockcount : \E h : SummedUp(i, h)'
      <4>1. ReadAsHashed' <=> ReadAsHashed
        BY <2>4 DEF ReadAsHashed
      <4> QED BY <2>4, <4>1 DEF SumsTrue
    <3> TAKE i \in 1 .. recoveryblockcount
    <3>1. PICK h : SummedUp(i, h)
      BY <1>1, <2>3 DEF SumsTrue
    <3>2. /\ Summing(h, Row(i), Described, blocksize,
                     IF deferhashcomputation THEN inputblock - 1 ELSE Len(SourceBlocks))
          /\ \A p \in 1 .. ChunkLength : outputbuffer[i][p] = h[inputblock - 1][blockoffset + p]
          /\ \A p \in 1 .. Stored(i) : recoverydata[i][p] = h[Len(SourceBlocks)][p]
      BY <3>1 DEF SummedUp
    <3>3. inputblock - 1 = Len(SourceBlocks)
      BY <2>10
    <3>4. \A p \in 1 .. Stored(i)' : recoverydata'[i][p] = h[Len(SourceBlocks)][p]
      <4>1. CASE i = ob
        <5> TAKE p \in 1 .. Stored(i)'
        <5>1. p \in 1 .. blockoffset + ChunkLength
          BY <2>6, <4>1
        <5>2. CASE p <= blockoffset
          <6>1. p \in 1 .. Stored(i)
            BY <2>2, <2>6, <4>1, <5>1, <5>2
          <6> QED BY <2>13, <2>14, <3>2, <4>1, <5>1, <5>2, <6>1 DEF data
        <5>3. CASE ~(p <= blockoffset)
          <6>1. p - blockoffset \in 1 .. ChunkLength /\ blockoffset + (p - blockoffset) = p
            BY <2>2, <5>1, <5>3
          <6>2. piece[p - blockoffset] = h[Len(SourceBlocks)][p]
            BY <3>2, <3>3, <4>1, <6>1 DEF piece
          <6> QED BY <2>13, <2>14, <4>1, <5>1, <5>3, <6>2
        <5> QED BY <5>2, <5>3
      <4>2. CASE i # ob
        BY <2>6, <2>13, <3>2, <4>2
      <4> QED BY <4>1, <4>2
    <3>5. SummedUp(i, h)'
      <4>1. Summing(h, Row(i)', Described', blocksize',
                    IF deferhashcomputation' THEN inputblock' - 1 ELSE Len(SourceBlocks'))
        BY <2>4, <2>5, <3>2
      <4>2. \A p \in 1 .. ChunkLength' : outputbuffer'[i][p] = h[inputblock' - 1][blockoffset' + p]
        BY <2>4, <2>5, <3>2
      <4>3. \A p \in 1 .. Stored(i)' : recoverydata'[i][p] = h[Len(SourceBlocks')][p]
        BY <2>5, <3>4
      <4> QED BY <4>1, <4>2, <4>3 DEF SummedUp, Summing, Zeros
    <3> QED BY <3>5
  <2>22. HashesDone' /\ DataWritten'
    BY <1>1, <2>2, <2>4 DEF HashesDone, DataWritten
  <2> QED BY <2>16, <2>17, <2>18, <2>19, <2>20, <2>21, <2>22 DEF IInv
<1> QED BY <1>2, <1>3

(* When the chunk of every recovery block is written.                      *)
LEMMA PassIsDone ==
  ASSUME IInv, pc = "ProcessData", inputblock > Len(SourceBlocks), outputblock > recoveryblockcount,
         NEW start, StartsAt(start, sourcefiles, BlocksOf)
  PROVE  /\ Listed(start) /\ Len(SourceBlocks) \in Nat \ {0}
         /\ inputblock = Len(SourceBlocks) + 1
         /\ \A i \in 1 .. recoveryblockcount :
              /\ Stored(i) = blockoffset + ChunkLength
              /\ recoverydata[i] = [p \in 1 .. blocksize |-> recoverydata[i][p]]
              /\ packetcontext[i] = [p \in 1 .. blockoffset + ChunkLength |-> recoverydata[i][p]]
         /\ \A k \in 1 .. Len(SourceBlocks) : Described[k] \in Words
<1>1. Shape /\ Hashed /\ Staged /\ Passing /\ Ordered /\ blocksize \in Nat \ {0} /\ recoveryblockcount \in Nat
      /\ outputblock \in 1 .. recoveryblockcount + 1
  BY ProcessingFacts DEF IInv
<1>2. Listed(start)
  BY <1>1, Listing
<1>3. Len(SourceBlocks) \in Nat \ {0}
  BY <1>2 DEF Listed
<1>4. inputblock \in 1 .. Len(SourceBlocks) + 1
  BY <1>1 DEF Passing
<1>5. inputblock = Len(SourceBlocks) + 1 /\ inputblock - 1 = Len(SourceBlocks)
  BY <1>3, <1>4
<1>6. \A i \in 1 .. recoveryblockcount : i < outputblock
  BY <1>1
<1>7. \A i \in 1 .. recoveryblockcount : Stored(i) = blockoffset + ChunkLength
  BY <1>6 DEF Stored
<1>8. \A i \in 1 .. recoveryblockcount : packetcontext[i] = [p \in 1 .. Stored(i) |-> recoverydata[i][p]]
  BY <1>1 DEF Passing
<1>9. \A i \in 1 .. recoveryblockcount : recoverydata[i] = [p \in 1 .. blocksize |-> recoverydata[i][p]]
  BY <1>1 DEF Staged
<1>10. \A k \in 1 .. Len(SourceBlocks) : Described[k] \in Words
  BY <1>1, <1>5 DEF Passing
<1> QED BY <1>2, <1>3, <1>5, <1>7, <1>8, <1>9, <1>10

(* When the last chunk is.                                                 *)
LEMMA LastPassIsDone ==
  ASSUME IInv, pc = "ProcessData", inputblock > Len(SourceBlocks), outputblock > recoveryblockcount,
         ~MorePasses
  PROVE  /\ AllRead
         /\ \A i \in 1 .. recoveryblockcount :
              /\ packetcontext[i] = recoverydata[i]
              /\ ReadAsHashed => recoverydata[i] = Output(matrix, i, Described)
<1> DEFINE K == Len(SourceBlocks)
<1>1. PICK start : StartsAt(start, sourcefiles, BlocksOf)
  BY DEF IInv, CursorsAgree
<1>2. /\ Listed(start) /\ K \in Nat \ {0} /\ inputblock = K + 1
      /\ \A i \in 1 .. recoveryblockcount :
           /\ Stored(i) = blockoffset + ChunkLength
           /\ recoverydata[i] = [p \in 1 .. blocksize |-> recoverydata[i][p]]
           /\ packetcontext[i] = [p \in 1 .. blockoffset + ChunkLength |-> recoverydata[i][p]]
      /\ \A k \in 1 .. K : Described[k] \in Words
  BY <1>1, PassIsDone
<1>3. blockoffset + ChunkLength = blocksize /\ blocksize \in Nat /\ deferhashcomputation \in BOOLEAN
  <2>1. /\ blocksize \in Nat /\ blockoffset \in Nat /\ ChunkLength \in Nat /\ deferhashcomputation \in BOOLEAN
        /\ blockoffset + ChunkLength <= blocksize
    BY ProcessingFacts
  <2>2. ~(blockoffset + ChunkLength < blocksize)
    BY DEF MorePasses
  <2> QED BY <2>1, <2>2
<1>4. AllRead
  <2>1. ASSUME NEW f \in DOMAIN disk PROVE verifications[f] \in [1 .. BlockCount(f) -> Words]
    <3>1. f \in ToSet(sourcefiles) /\ Hashed
      BY <1>2 DEF Listed, IInv
    <3>2. PICK i \in 1 .. Len(sourcefiles) : sourcefiles[i] = f
      <4>1. sourcefiles \in Seq(DOMAIN disk)
        BY DEF IInv, Shape
      <4>2. DOMAIN sourcefiles = 1 .. Len(sourcefiles)
        BY <4>1
      <4> QED BY <3>1, <4>2 DEF ToSet
    <3>3. verifications[f] \in [1 .. BlockCount(f) -> Words \union {None}]
      BY <3>1 DEF Hashed, HashesOf
    <3>4. ASSUME NEW n \in 1 .. BlockCount(f) PROVE verifications[f][n] \in Words
      <4>1. /\ start[i - 1] + n \in 1 .. K
            /\ Described[start[i - 1] + n] = verifications[f][n]
        BY <1>2, <3>2 DEF Listed
      <4> QED BY <1>2, <4>1
    <3> QED BY <3>3, <3>4
  <2> QED BY <2>1 DEF AllRead
<1>5. ASSUME NEW i \in 1 .. recoveryblockcount PROVE packetcontext[i] = recoverydata[i]
  BY <1>2, <1>3
<1>6. ASSUME NEW i \in 1 .. recoveryblockcount, ReadAsHashed
      PROVE  recoverydata[i] = Output(matrix, i, Described)
  <2>1. PICK h : SummedUp(i, h)
    BY <1>6 DEF IInv, SumsTrue
  <2>2. inputblock - 1 = K
    BY <1>2
  <2>3. /\ Summing(h, Row(i), Described, blocksize, K)
        /\ \A p \in 1 .. blocksize : recoverydata[i][p] = h[K][p]
    BY <1>2, <1>3, <2>1, <2>2 DEF SummedUp
  <2> DEFINE row == Row(i)
             size == blocksize
             described == Described
             m == matrix
  <2>4. Len(described) = K /\ K \in Nat /\ K \in 1 .. K /\ 1 \in 1 .. K
    BY <1>2 DEF Listed
  <2>5. DOMAIN described[1] = 1 .. size
    BY <1>2, <2>4 DEF Words
  <2>6. IsRow(row, m, i, Len(described))
    BY <2>4 DEF Row, IsRow
  <2>7. Summing(h, row, described, size, Len(described))
    BY <2>3, <2>4
  <2>8. h[K] = [p \in 1 .. size |-> h[K][p]]
    <3>1. h[K] = [p \in 1 .. size |-> AddTo(row[K], described[K][p], h[K - 1][p])]
      BY <2>3, <2>4 DEF Summing
    <3> HIDE DEF K, size, row, described
    <3> QED BY <3>1
  <2> HIDE DEF row, described, size, K, m
  <2>9. Output(m, i, described) = h[Len(described)]
    BY <2>4, <2>5, <2>6, <2>7, OutputIsSum
  <2>10. recoverydata[i] = [p \in 1 .. size |-> h[K][p]]
    BY <1>2, <2>3 DEF size
  <2> QED BY <2>4, <2>8, <2>9, <2>10 DEF described, m
<1> QED BY <1>4, <1>5, <1>6

LEMMA EndPassKeeps == (IInv /\ EndPass) => IInv'
<1> SUFFICES ASSUME IInv, EndPass PROVE IInv'
  OBVIOUS
<1>1. /\ pc = "ProcessData" /\ inputblock > Len(SourceBlocks) /\ outputblock > recoveryblockcount
      /\ blockoffset' = blockoffset + ChunkLength
      /\ UNCHANGED <<input, sizes, sourcefiles, hashes, files, matrix, packets>>
  BY DEF EndPass
<1>2. /\ blocksize \in Nat \ {0} /\ recoveryblockcount \in Nat /\ chunksize \in Nat
      /\ deferhashcomputation \in BOOLEAN
      /\ Ordered /\ headers = {} /\ written = 0 /\ changes \in Nat
      /\ blockoffset \in 0 .. blocksize - 1
      /\ ChunkLength \in Nat /\ blockoffset + ChunkLength <= blocksize
      /\ deferhashcomputation => blockoffset = 0 /\ ChunkLength = blocksize
  BY <1>1, ProcessingFacts
<1>3. Shape /\ Hashed /\ Staged /\ Passing /\ CursorsAgree /\ SumsTrue
  BY DEF IInv
<1>4. UNCHANGED <<blocksize, recoveryblockcount, chunksize, deferhashcomputation, sourcefiles, matrix,
                  recoverydata, packetcontext, headers, written, ask, disk, changes,
                  descriptions, verifications, contextfull>>
  BY <1>1 DEF input, sizes, hashes, packets
<1>5. /\ Words' = Words /\ BlocksOf' = BlocksOf /\ SourceBlocks' = SourceBlocks /\ Described' = Described
      /\ (Ordered <=> Ordered') /\ \A i : Row(i)' = Row(i)
  <2>1. Words' = Words /\ BlocksOf' = BlocksOf /\ (Ordered <=> Ordered')
    BY <1>4 DEF Words, BlocksOf, BlockCount, Ordered
  <2>2. SourceBlocks' = SourceBlocks /\ Described' = Described
    BY <1>4 DEF SourceBlocks, BlockCount, Described
  <2> QED BY <1>4, <2>1, <2>2 DEF Row
<1>6. PICK start : StartsAt(start, sourcefiles, BlocksOf)
  BY <1>1, <1>3 DEF CursorsAgree
<1>7. /\ Listed(start) /\ Len(SourceBlocks) \in Nat \ {0} /\ inputblock = Len(SourceBlocks) + 1
      /\ \A i \in 1 .. recoveryblockcount :
           /\ Stored(i) = blockoffset + ChunkLength
           /\ recoverydata[i] = [p \in 1 .. blocksize |-> recoverydata[i][p]]
           /\ packetcontext[i] = [p \in 1 .. blockoffset + ChunkLength |-> recoverydata[i][p]]
      /\ \A k \in 1 .. Len(SourceBlocks) : Described[k] \in Words
  BY <1>1, <1>6, PassIsDone
<1>8. Hashed'
  BY <1>1, <1>3, HashedStays
<1>9. CASE MorePasses
  <2> DEFINE size == Least(chunksize, blocksize - blockoffset')
  <2>1. /\ inputblock' = 1 /\ sourcefile' = 1 /\ sourceindex' = 0 /\ outputblock' = 1 /\ pc' = pc
        /\ outputbuffer' = [i \in DOMAIN outputbuffer |-> Zeros(size)]
    BY <1>1, <1>9 DEF EndPass, NextPass
  <2>2. ChunkLength' = size
    BY <1>4 DEF ChunkLength
  <2>3. ~deferhashcomputation
    BY <1>2, <1>9 DEF MorePasses
  <2>13. blockoffset' \in 0 .. blocksize - 1 /\ size \in Nat /\ blockoffset' + size <= blocksize
    <3>1. blockoffset + ChunkLength < blocksize
      BY <1>9 DEF MorePasses
    <3> DEFINE c == chunksize
               l == ChunkLength
               o == blockoffset
               n == blocksize
               next == blockoffset'
    <3>2. c \in Nat /\ l \in Nat /\ n \in Nat /\ o \in 0 .. n - 1 /\ o + l < n /\ next = o + l
      BY <1>1, <1>2, <3>1
    <3>3. size = Least(c, n - next)
      OBVIOUS
    <3> HIDE DEF c, l, o, n, next, size
    <3>4. next \in 0 .. n - 1
      BY <3>2
    <3>5. size \in Nat /\ next + size <= n
      BY <3>2, <3>3, <3>4 DEF Least
    <3> QED BY <3>4, <3>5 DEF n, next
  <2> HIDE DEF size
  <2>4. \A i \in 1 .. recoveryblockcount : Stored(i)' = blockoffset + ChunkLength
    BY <1>1, <1>2, <2>1, <2>13 DEF Stored
  <2>5. DOMAIN outputbuffer = 1 .. recoveryblockcount
    BY <1>1, <1>3 DEF Passing
  <2>6. \A i \in 1 .. recoveryblockcount :
          outputbuffer'[i] = [p \in 1 .. size |-> 0] /\ outputbuffer'[i] = [p \in 1 .. size |-> outputbuffer'[i][p]]
    BY <2>1, <2>5 DEF Zeros
  <2>7. Shape'
    BY <1>3, <1>4, <2>1 DEF Shape
  <2>8. Staged'
    BY <1>1, <1>2, <1>3, <1>4, <1>5, <2>1 DEF Staged, Reading, Sizing
  <2>9. CursorsAgree'
    <3>1. CursorAt(start, 1, 1, 0)
      <4>1. /\ Len(sourcefiles) \in Nat \ {0}
            /\ \A i \in 1 .. Len(sourcefiles) : start[0] = 0 /\ BlockCount(sourcefiles[i]) \in Nat \ {0}
        BY <1>7 DEF Listed
      <4>2. 1 \in 1 .. Len(sourcefiles)
        BY <4>1
      <4>3. start[0] = 0 /\ BlockCount(sourcefiles[1]) \in Nat \ {0}
        BY <4>1, <4>2
      <4> QED BY <4>1, <4>3 DEF CursorAt
    <3>2. CursorAt(start, inputblock, sourcefile, sourceindex)'
      BY <1>4, <2>1, <3>1 DEF CursorAt, BlockCount
    <3>3. StartsAt(start, sourcefiles, BlocksOf)'
      BY <1>4, <1>5, <1>6 DEF StartsAt
    <3> QED BY <3>2, <3>3 DEF CursorsAgree
  <2>10. Passing'
    <3>1. 1 \in 1 .. Len(SourceBlocks) + 1 /\ 1 \in 1 .. recoveryblockcount + 1
      BY <1>2, <1>7
    <3>2. \A k \in 1 .. 1 - 1 : FALSE
      OBVIOUS
    <3>3. \A i \in 1 .. recoveryblockcount : packetcontext'[i] = [p \in 1 .. Stored(i)' |-> recoverydata'[i][p]]
      BY <1>4, <1>7, <2>4
    <3>4. DOMAIN outputbuffer' = 1 .. recoveryblockcount
      BY <2>1, <2>5
    <3> QED BY <1>4, <1>5, <2>1, <2>2, <2>3, <2>13, <2>6, <3>1, <3>2, <3>3, <3>4 DEF Passing
  <2>11. SumsTrue'
    <3> SUFFICES ASSUME ReadAsHashed PROVE \A i \in 1 .. recoveryblockcount : \E h : SummedUp(i, h)'
      <4>1. ReadAsHashed' <=> ReadAsHashed
        BY <1>4 DEF ReadAsHashed
      <4> QED BY <1>1, <1>4, <2>1, <4>1 DEF SumsTrue
    <3> TAKE i \in 1 .. recoveryblockcount
    <3>1. PICK h : SummedUp(i, h)
      BY <1>1, <1>3 DEF SumsTrue
    <3>2. /\ Summing(h, Row(i), Described, blocksize, Len(SourceBlocks))
          /\ \A p \in 1 .. Stored(i) : recoverydata[i][p] = h[Len(SourceBlocks)][p]
      BY <2>3, <3>1 DEF SummedUp
    <3>3. h[0] = [p \in 1 .. blocksize |-> 0]
      BY <3>2 DEF Summing, Zeros
    <3>4. \A p \in 1 .. size : outputbuffer'[i][p] = h[1 - 1][blockoffset' + p]
      <4> TAKE p \in 1 .. size
      <4> DEFINE next == blockoffset'
                 n == blocksize
                 q == next + p
      <4>1. next \in 0 .. n - 1 /\ n \in Nat /\ size \in Nat /\ next + size <= n
        BY <1>2, <2>13
      <4> HIDE DEF next, n
      <4>2. q \in 1 .. n
        BY <4>1
      <4>3. outputbuffer'[i][p] = 0
        BY <2>6
      <4>4. h[1 - 1] = h[0]
        OBVIOUS
      <4> HIDE DEF q
      <4>5. h[0][q] = 0
        BY <3>3, <4>2 DEF n
      <4> QED BY <4>3, <4>4, <4>5 DEF q, next
    <3>5. SummedUp(i, h)'
      <4>1. Summing(h, Row(i)', Described', blocksize',
                    IF deferhashcomputation' THEN inputblock' - 1 ELSE Len(SourceBlocks'))
        BY <1>4, <1>5, <2>3, <3>2
      <4>2. \A p \in 1 .. ChunkLength' : outputbuffer'[i][p] = h[inputblock' - 1][blockoffset' + p]
        BY <2>1, <2>2, <3>4
      <4>3. \A p \in 1 .. Stored(i)' : recoverydata'[i][p] = h[Len(SourceBlocks')][p]
        BY <1>4, <1>5, <1>7, <2>4, <3>2
      <4> QED BY <4>1, <4>2, <4>3 DEF SummedUp, Summing, Zeros
    <3> QED BY <3>5
  <2>12. HashesDone' /\ DataWritten'
    BY <1>1, <1>2, <1>4, <2>1 DEF HashesDone, DataWritten
  <2> QED BY <1>8, <2>7, <2>8, <2>9, <2>10, <2>11, <2>12 DEF IInv
<1>10. CASE ~MorePasses
  <2>1. pc' = "WriteHeaders"
    BY <1>10 DEF EndPass, Goto
  <2>2. /\ AllRead
        /\ \A i \in 1 .. recoveryblockcount :
              /\ packetcontext[i] = recoverydata[i]
              /\ ReadAsHashed => recoverydata[i] = Output(matrix, i, Described)
    BY <1>1, <1>10, LastPassIsDone
  <2>3. Shape'
    BY <1>2, <1>3, <1>4, <2>1 DEF Shape, Sizing
  <2>4. Staged'
    BY <1>2, <1>3, <1>4, <1>5, <2>1 DEF Staged, Reading, Sizing
  <2>5. CursorsAgree' /\ Passing' /\ SumsTrue'
    BY <2>1 DEF CursorsAgree, Passing, SumsTrue
  <2>6. DataWritten'
    BY <1>4, <1>5, <2>2 DEF DataWritten, ReadAsHashed
  <2>7. HashesDone'
    BY <1>2, <1>4, <1>5, <2>1, <2>2 DEF HashesDone, AllRead, BlockCount
  <2> QED BY <1>8, <2>3, <2>4, <2>5, <2>6, <2>7 DEF IInv
<1> QED BY <1>9, <1>10

-----------------------------------------------------------------------------
(* Every step.                                                             *)

LEMMA NothingHappens == (IInv /\ UNCHANGED vars) => IInv'
<1> SUFFICES ASSUME IInv, UNCHANGED vars PROVE IInv'
  OBVIOUS
<1> USE DEF IInv
<1>1. /\ UNCHANGED <<input, sizes, sourcefiles, hashes, files, cursor, matrix, outputbuffer, packets, pc>>
  BY DEF vars
<1>2. Shape'
  BY <1>1 DEF Shape, input, sizes
<1>3. Hashed'
  BY <1>1, HashedStays
<1>4. Staged'
  BY <1>1 DEF Staged, Ordered, input, sizes, cursor, packets
<1>5. BlocksOf' = BlocksOf /\ SourceBlocks' = SourceBlocks /\ Described' = Described /\ Words' = Words
      /\ ChunkLength' = ChunkLength /\ \A i : Row(i)' = Row(i) /\ Stored(i)' = Stored(i)
  <2>1. BlocksOf' = BlocksOf /\ SourceBlocks' = SourceBlocks /\ Words' = Words /\ ChunkLength' = ChunkLength
    BY <1>1 DEF BlocksOf, SourceBlocks, Words, ChunkLength, BlockCount, input, sizes, cursor
  <2>2. Described' = Described
    BY <1>1 DEF Described, hashes
  <2> QED BY <1>1, <2>1, <2>2 DEF Row, Stored, cursor
<1>6. CursorsAgree'
  <2>1. \A start : StartsAt(start, sourcefiles, BlocksOf)' <=> StartsAt(start, sourcefiles, BlocksOf)
    BY <1>1, <1>5 DEF StartsAt
  <2>2. \A start : CursorAt(start, inputblock, sourcefile, sourceindex)'
                     <=> CursorAt(start, inputblock, sourcefile, sourceindex)
    BY <1>1 DEF CursorAt, BlockCount, input, sizes, cursor
  <2> QED BY <1>1, <2>1, <2>2 DEF CursorsAgree
<1>7. Passing'
  <2>1. Passing
    OBVIOUS
  <2> HIDE DEF IInv
  <2>2. UNCHANGED <<pc, blockoffset, blocksize, deferhashcomputation, inputblock, outputblock,
                    recoveryblockcount, outputbuffer, packetcontext, recoverydata>>
    BY <1>1 DEF sizes, cursor, packets
  <2> QED BY <1>5, <2>1, <2>2 DEF Passing
<1>8. SumsTrue'
  <2>1. \A i, h : SummedUp(i, h)' <=> SummedUp(i, h)
    BY <1>1, <1>5 DEF SummedUp, Summing, Zeros, sizes, cursor, packets
  <2> QED BY <1>1, <2>1 DEF SumsTrue, ReadAsHashed, input, sizes
<1>9. DataWritten'
  BY <1>1, <1>5 DEF DataWritten, ReadAsHashed, input, sizes, packets
<1>10. HashesDone'
  BY <1>1, <1>5 DEF HashesDone, AllRead, BlockCount, Ordered, input, sizes, hashes, packets
<1> QED BY <1>2, <1>3, <1>4, <1>6, <1>7, <1>8, <1>9, <1>10

LEMMA NextKeeps == (IInv /\ [Next]_vars) => IInv'
<1> SUFFICES ASSUME IInv, [Next]_vars PROVE IInv'
  OBVIOUS
<1>1. CASE \E f \in DOMAIN disk : OpenSourceFile(f)
  BY <1>1, OpenSourceFileKeeps
<1>2. CASE Parse \/ CheckBasepath \/ ComputeSizes \/ CreateMainPacket \/ CreateFile \/ ComputeRSMatrix
  BY <1>2, ParseKeeps, CheckBasepathKeeps, ComputeSizesKeeps, CreateMainPacketKeeps, CreateFileKeeps,
     ComputeRSMatrixKeeps
<1>3. CASE ReadBlock \/ WriteData \/ EndPass
  BY <1>3, ReadBlockKeeps, WriteDataKeeps, EndPassKeeps
<1>4. CASE WriteHeader \/ FinishFileHashComputation \/ WriteCriticalPacket \/ CloseFiles
  BY <1>4, WriteHeaderKeeps, FinishFileHashComputationKeeps, WriteCriticalPacketKeeps, CloseFilesKeeps
<1>5. CASE SourceChanges
  BY <1>5, SourceChangesKeeps
<1>6. CASE UNCHANGED vars
  BY <1>6, NothingHappens
<1> QED BY <1>1, <1>2, <1>3, <1>4, <1>5, <1>6 DEF Next, Create

LEMMA InductiveInvariant == Spec => []IInv
BY InitHolds, NextKeeps, PTL DEF Spec

LEMMA WhatIsTrue == IInv => PacketsOnDiskTrue
<1> SUFFICES ASSUME IInv PROVE PacketsOnDiskTrue
  OBVIOUS
<1>1. ASSUME NEW i \in headers
      PROVE  /\ packetcontext[i] = recoverydata[i]
             /\ ReadAsHashed => recoverydata[i] = Output(matrix, i, Described)
  BY <1>1 DEF IInv, Staged, DataWritten
<1>2. ASSUME written > 0, NEW f \in DOMAIN disk
      PROVE  descriptions[f].hashfull # None /\ None \notin ToSet(verifications[f])
  <2>1. AllRead /\ descriptions[f].hashfull \in Seq(Field)
    BY <1>2 DEF IInv, HashesDone
  <2>2. verifications[f] \in [1 .. BlockCount(f) -> Words]
    BY <2>1 DEF AllRead
  <2>3. Words \subseteq Seq(Field)
    <3>1. blocksize \in Nat
      BY DEF IInv, Shape
    <3> HIDE DEF Field
    <3> QED BY <3>1 DEF Words
  <2>4. None \notin Seq(Field)
    BY NoneAssumption
  <2>5. ToSet(verifications[f]) \subseteq Words
    BY <2>2 DEF ToSet
  <2> QED BY <2>1, <2>3, <2>4, <2>5
<1> QED BY <1>1, <1>2 DEF PacketsOnDiskTrue, ReadAsHashed, Described

(* A creation that is killed or that fails leaves no packet that is valid  *)
(* and wrong: what has its header is the sum of the blocks that the hashes *)
(* are of, and no critical packet is there before its hashes are computed. *)
THEOREM PacketsAreTrue == Spec => []PacketsOnDiskTrue
BY InductiveInvariant, WhatIsTrue, PTL

-----------------------------------------------------------------------------
(* The hash of a file and those of its blocks.                             *)

(* s has the bytes of the first n words, but no more than length of them.  *)
Spells(s, words, size, n, length) ==
  /\ Len(s) = Least(length, n * size)
  /\ \A m \in 1 .. n : \A p \in 1 .. size :
       (m - 1) * size + p <= Len(s) => s[(m - 1) * size + p] = words[m][p]

(* The place of a byte of a word.                                          *)
LEMMA PlaceOf ==
  ASSUME NEW size \in Nat, NEW k \in Nat, NEW m \in 1 .. k, NEW p \in 1 .. size
  PROVE  (m - 1) * size + p \in 1 .. k * size
<1>1. m - 1 \in Nat /\ m \in Nat /\ m <= k
  OBVIOUS
<1>2. m * size <= k * size /\ k * size \in Nat
  BY <1>1, Monotone
<1>3. m * size = (m - 1) * size + size /\ (m - 1) * size \in Nat
  BY <1>1
<1> QED BY <1>2, <1>3

LEMMA SpellsNext ==
  ASSUME NEW size \in Nat \ {0}, NEW k \in Nat, NEW length \in Nat, k * size < length,
         NEW S, NEW s \in Seq(S), NEW words, Spells(s, words, size, k, length),
         NEW new, \A m \in 1 .. k : new[m] = words[m],
         NEW part \in Seq(S), Len(part) = Least(size, length - k * size),
         \A p \in 1 .. Len(part) : part[p] = new[k + 1][p]
  PROVE  Spells(s \o part, new, size, k + 1, length)
<1> DEFINE done == k * size
           whole == s \o part
<1>1. done \in Nat /\ done < length /\ (k + 1) * size = done + size
  OBVIOUS
<1>2. Len(s) = done
  BY <1>1 DEF Spells, Least
<1>3. /\ Len(whole) = done + Len(part)
      /\ \A q \in 1 .. done + Len(part) : whole[q] = IF q <= done THEN s[q] ELSE part[q - done]
  <2>1. /\ Len(whole) = Len(s) + Len(part)
        /\ \A q \in 1 .. Len(s) + Len(part) : whole[q] = IF q <= Len(s) THEN s[q] ELSE part[q - Len(s)]
    BY WholeFacts
  <2> QED BY <1>2, <2>1
<1> HIDE DEF whole, done
<1>4. Len(part) = Least(size, length - done) /\ Len(part) \in Nat
  BY DEF done
<1>5. Len(whole) = Least(length, (k + 1) * size)
  BY <1>1, <1>3, <1>4 DEF Least
<1>6. ASSUME NEW m \in 1 .. k + 1, NEW p \in 1 .. size, (m - 1) * size + p <= Len(whole)
      PROVE  whole[(m - 1) * size + p] = new[m][p]
  <2> DEFINE q == (m - 1) * size + p
  <2>1. CASE m \in 1 .. k
    <3>1. q \in 1 .. done
      BY <2>1, PlaceOf DEF done
    <3>2. s[q] = words[m][p]
      BY <1>1, <1>2, <2>1, <3>1 DEF Spells
    <3> HIDE DEF q
    <3>3. q \in 1 .. done + Len(part) /\ q <= done
      BY <1>1, <1>4, <3>1
    <3>4. whole[q] = new[m][p]
      BY <1>3, <2>1, <3>2, <3>3
    <3> QED BY <3>4 DEF q
  <2>2. CASE m = k + 1
    <3>1. q = done + p
      BY <2>2 DEF done
    <3>2. done + p <= done + Len(part)
      BY <1>3, <1>6, <3>1
    <3> HIDE DEF q
    <3>3. q \in 1 .. done + Len(part) /\ ~(q <= done) /\ q - done = p /\ p \in 1 .. Len(part)
      BY <1>1, <1>4, <3>1, <3>2
    <3>4. whole[q] = new[m][p]
      BY <1>3, <2>2, <3>3
    <3> QED BY <3>4 DEF q
  <2>3. m \in 1 .. k \/ m = k + 1
    OBVIOUS
  <2> QED BY <2>1, <2>2, <2>3
<1> QED BY <1>5, <1>6 DEF Spells, whole

(* All of the words, one after the other.                                  *)
EvenlyLong(seqs, n, size) == Len(seqs) = n /\ \A i \in 1 .. n : Len(seqs[i]) = size
InPlace(whole, seqs, n, size) ==
  /\ Len(whole) = n * size
  /\ \A i \in 1 .. n : \A j \in 1 .. size : whole[(i - 1) * size + j] = seqs[i][j]
IsPlaced(q, n, size) == \E i \in 1 .. n : \E j \in 1 .. size : q = (i - 1) * size + j

AtPart(k, start, seqs) == \E i \in 1 .. Len(seqs) : \E j \in 1 .. Len(seqs[i]) : k = start[i - 1] + j

LEMMA PartsCover ==
  ASSUME NEW S, NEW seqs \in Seq(Seq(S)), NEW start, Beginning(start, seqs)
  PROVE  \A k \in 1 .. start[Len(seqs)] : AtPart(k, start, seqs)
<1>1. \A k \in 1 .. start[Len(seqs)] :
        \E i \in 1 .. Len(seqs) : \E j \in 1 .. Len(seqs[i]) : k = start[i - 1] + j
  BY EveryPlace
<1> QED BY <1>1 DEF AtPart

LEMMA EvenWhole ==
  ASSUME NEW S, NEW size \in Nat \ {0}, NEW n \in Nat \ {0},
         NEW seqs \in Seq(Seq(S)), EvenlyLong(seqs, n, size)
  PROVE  /\ FlattenSeq(seqs) \in Seq(S) /\ InPlace(FlattenSeq(seqs), seqs, n, size)
         /\ \A q \in 1 .. n * size : IsPlaced(q, n, size)
<1>p. PICK start : start = [i \in 0 .. n |-> i * size]
  OBVIOUS
<1>1. \A i \in 0 .. n : i * size \in Nat
  OBVIOUS
<1>2. \A i \in 1 .. n : i \in 0 .. n /\ i - 1 \in 0 .. n /\ i * size = (i - 1) * size + size
  OBVIOUS
<1>3. start \in [0 .. n -> Nat] /\ start[0] = 0 /\ start[n] = n * size
  <2>1. 0 \in 0 .. n /\ n \in 0 .. n /\ 0 * size = 0
    OBVIOUS
  <2> QED BY <1>1, <1>p, <2>1
<1>4. Len(seqs) = n /\ \A i \in 1 .. n : Len(seqs[i]) = size
  BY DEF EvenlyLong
<1>5. \A i \in 1 .. n : start[i] = start[i - 1] + Len(seqs[i]) /\ start[i - 1] = (i - 1) * size
  BY <1>2, <1>4, <1>p
<1>6. Beginning(start, seqs)
  BY <1>3, <1>4, <1>5 DEF Beginning
<1>0. Len(seqs) > 0
  BY <1>4
<1>7. /\ FlattenSeq(seqs) \in Seq(S) /\ Len(FlattenSeq(seqs)) = start[Len(seqs)]
      /\ \A i \in 1 .. Len(seqs) : \A j \in 1 .. Len(seqs[i]) :
            /\ start[i - 1] + j \in 1 .. start[Len(seqs)]
            /\ FlattenSeq(seqs)[start[i - 1] + j] = seqs[i][j]
  BY <1>0, <1>6, FlattenFacts
<1>8. \A q \in 1 .. start[Len(seqs)] : AtPart(q, start, seqs)
  BY <1>6, PartsCover
<1>9. InPlace(FlattenSeq(seqs), seqs, n, size)
  <2> DEFINE whole == FlattenSeq(seqs)
  <2>1. Len(whole) = n * size
    BY <1>3, <1>4, <1>7
  <2>2. ASSUME NEW i \in 1 .. n, NEW j \in 1 .. size PROVE whole[(i - 1) * size + j] = seqs[i][j]
    <3>1. i \in 1 .. Len(seqs) /\ j \in 1 .. Len(seqs[i]) /\ start[i - 1] = (i - 1) * size
      BY <1>4, <1>5
    <3>2. whole[start[i - 1] + j] = seqs[i][j]
      BY <1>7, <3>1
    <3> QED BY <3>1, <3>2
  <2> HIDE DEF whole
  <2>3. InPlace(whole, seqs, n, size)
    BY <2>1, <2>2 DEF InPlace
  <2> QED BY <2>3 DEF whole
<1>10. ASSUME NEW q \in 1 .. n * size PROVE IsPlaced(q, n, size)
  <2>1. q \in 1 .. start[Len(seqs)]
    BY <1>3, <1>4
  <2>2. PICK i \in 1 .. Len(seqs) : \E j \in 1 .. Len(seqs[i]) : q = start[i - 1] + j
    BY <1>8, <2>1 DEF AtPart
  <2>3. i \in 1 .. n /\ Len(seqs[i]) = size /\ start[i - 1] = (i - 1) * size
    BY <1>4, <1>5
  <2> QED BY <2>2, <2>3 DEF IsPlaced
<1> QED BY <1>7, <1>9, <1>10

LEMMA SpellsAll ==
  ASSUME NEW S, NEW size \in Nat \ {0}, NEW n \in Nat \ {0}, NEW length \in Nat, length <= n * size,
         NEW words \in Seq(Seq(S)), EvenlyLong(words, n, size),
         NEW s \in Seq(S), Spells(s, words, size, n, length)
  PROVE  s = SubSeq(FlattenSeq(words), 1, length)
<1> DEFINE whole == FlattenSeq(words)
           all == n * size
<1>1. /\ whole \in Seq(S) /\ InPlace(whole, words, n, size)
      /\ \A q \in 1 .. all : IsPlaced(q, n, size)
  BY EvenWhole
<1>2. all \in Nat /\ length <= all
  OBVIOUS
<1> HIDE DEF whole
<1>3. Len(whole) = all
  BY <1>1 DEF InPlace
<1>4. Len(s) = length
  BY <1>2 DEF Spells, Least
<1>5. ASSUME NEW q \in 1 .. length PROVE s[q] = whole[q]
  <2>1. q \in 1 .. all
    <3> HIDE DEF all
    <3> QED BY <1>2
  <2>2. PICK i \in 1 .. n : \E j \in 1 .. size : q = (i - 1) * size + j
    BY <1>1, <2>1 DEF IsPlaced
  <2>3. PICK j \in 1 .. size : q = (i - 1) * size + j
    BY <2>2
  <2>4. (i - 1) * size + j <= Len(s)
    BY <1>4, <2>3
  <2>5. s[(i - 1) * size + j] = words[i][j]
    BY <2>4 DEF Spells
  <2>6. whole[(i - 1) * size + j] = words[i][j]
    BY <1>1 DEF InPlace
  <2> QED BY <2>3, <2>5, <2>6
<1> HIDE DEF all
<1> DEFINE one == 1
           t == SubSeq(whole, one, length)
<1>6. one = 1 /\ one \in 1 .. Len(whole) + 1 /\ length \in one - 1 .. Len(whole)
  BY <1>2, <1>3
<1> HIDE DEF one
<1>7. /\ t \in Seq(S) /\ Len(t) = length - one + 1
      /\ \A p \in 1 .. length - one + 1 : t[p] = whole[one + p - 1]
  BY <1>1, <1>6, PartFacts
<1> HIDE DEF t
<1>8. t \in Seq(S) /\ Len(t) = length /\ \A p \in 1 .. length : s[p] = t[p]
  <2>1. t \in Seq(S) /\ Len(t) = length
    BY <1>6, <1>7
  <2>2. ASSUME NEW p \in 1 .. length PROVE s[p] = t[p]
    <3>1. p \in 1 .. length - one + 1 /\ one + p - 1 = p
      BY <1>6
    <3>2. t[p] = whole[p]
      BY <1>7, <3>1
    <3> QED BY <1>5, <3>2
  <2> QED BY <2>1, <2>2
<1>9. s = t
  BY <1>4, <1>8
<1> QED BY <1>6, <1>9 DEF t, whole

(* How much of the file at a place of the order a pass has read.           *)
Read(i) == IF i < sourcefile THEN BlockCount(sourcefiles[i]) ELSE IF i = sourcefile THEN sourceindex ELSE 0

(* The hash of a file is of the bytes of its first n blocks.               *)
HashIsOf(s, f, n) == Spells(s, verifications[f], blocksize, n, Len(disk[f]))
Complete(f) == HashIsOf(descriptions[f].hashfull, f, BlockCount(f))

(* The hashes are computed first, or block by block.                       *)
ContextsFollow ==
  /\ ~deferhashcomputation => \A f \in ToSet(sourcefiles) : Complete(f)
  /\ pc \in {"OpenSourceFiles", "CreateFiles"} => \A f \in ToSet(sourcefiles) : contextfull[f] = <<>>
  /\ (deferhashcomputation /\ pc = "ProcessData") =>
       \A i \in 1 .. Len(sourcefiles) : HashIsOf(contextfull[sourcefiles[i]], sourcefiles[i], Read(i))
  /\ (deferhashcomputation /\ pc = "WriteHeaders") =>
       \A f \in DOMAIN disk : HashIsOf(contextfull[f], f, BlockCount(f))
Finished ==
  /\ result = "Success" => pc = "Done"
  /\ (pc = "WriteCriticalPackets" \/ result = "Success") =>
       AllRead /\ Ordered /\ \A f \in DOMAIN disk : descriptions[f].hashfull \in Seq(Field) /\ Complete(f)

(* While nobody changes a file, its hashes are of what it has.             *)
Begins(s, t) == s \in Seq(Field) /\ Len(s) <= Len(t) /\ \A p \in 1 .. Len(s) : s[p] = t[p]
AsOnDisk ==
  changes = 0 => \A f \in ToSet(sourcefiles) :
    /\ Begins(descriptions[f].hash16k, disk[f]) /\ Begins(contextfull[f], disk[f])
    /\ descriptions[f].hashfull # None => Begins(descriptions[f].hashfull, disk[f])

HInv == IInv /\ ContextsFollow /\ Finished /\ AsOnDisk

-----------------------------------------------------------------------------
LEMMA SpellsNothing ==
  ASSUME NEW words, NEW size \in Nat, NEW length \in Nat
  PROVE  Spells(<<>>, words, size, 0, length)
<1>1. 0 * size = 0 /\ Least(length, 0) = 0
  BY DEF Least
<1> QED BY <1>1 DEF Spells

(* Before a file is opened.                                                *)
LEMMA NothingOpened ==
  ASSUME sourcefiles' = <<>>, pc' \in Sizing \union {"OpenSourceFiles", "Done"}, result' # "Success"
  PROVE  (ContextsFollow /\ Finished /\ AsOnDisk)'
<1>1. ToSet(<<>>) = {}
  BY DEF ToSet
<1> QED BY <1>1 DEF ContextsFollow, Finished, AsOnDisk, Sizing

(* Steps that change no hash.                                              *)
SameFiles == DOMAIN disk' = DOMAIN disk /\ \A f \in DOMAIN disk : Len(disk'[f]) = Len(disk[f])

LEMMA SameCounts ==
  ASSUME Shape, SameFiles, UNCHANGED <<blocksize, hashes>>
  PROVE  /\ \A f \in DOMAIN disk : (BlockCount(f))' = BlockCount(f)
         /\ AllRead => AllRead'
         /\ \A f \in DOMAIN disk : Complete(f) => Complete(f)'
         /\ \A f \in DOMAIN disk : \A s, n : HashIsOf(s, f, n) => HashIsOf(s, f, n)'
<1>1. \A f \in DOMAIN disk : (BlockCount(f))' = BlockCount(f)
  BY DEF BlockCount, SameFiles
<1>2. AllRead => AllRead'
  BY <1>1 DEF AllRead, Words, SameFiles, hashes
<1>3. ASSUME NEW f \in DOMAIN disk, Complete(f) PROVE Complete(f)'
  BY <1>1, <1>3 DEF Complete, HashIsOf, Spells, SameFiles, hashes
<1>4. ASSUME NEW f \in DOMAIN disk, NEW s, NEW n, HashIsOf(s, f, n) PROVE HashIsOf(s, f, n)'
  BY <1>4 DEF HashIsOf, Spells, SameFiles, hashes
<1> QED BY <1>1, <1>2, <1>3, <1>4

LEMMA NoHashChanges ==
  ASSUME Shape, ContextsFollow, Finished, SameFiles, pc' \in {pc, "Done"},
         result' = "Success" => result = "Success",
         UNCHANGED <<blocksize, deferhashcomputation, sourcefiles, hashes, sourcefile, sourceindex>>
  PROVE  ContextsFollow' /\ Finished'
<1>1. /\ \A f \in DOMAIN disk : (BlockCount(f))' = BlockCount(f)
      /\ AllRead => AllRead'
      /\ \A f \in DOMAIN disk : Complete(f) => Complete(f)'
      /\ \A f \in DOMAIN disk : \A s, n : HashIsOf(s, f, n) => HashIsOf(s, f, n)'
  BY SameCounts
<1>2. ToSet(sourcefiles) \subseteq DOMAIN disk /\ \A i \in 1 .. Len(sourcefiles) : sourcefiles[i] \in DOMAIN disk
  BY DEF Shape, ToSet
<1>3. UNCHANGED <<descriptions, contextfull>> /\ DOMAIN disk' = DOMAIN disk
  BY DEF hashes, SameFiles
<1>4. \A i \in 1 .. Len(sourcefiles) : Read(i)' = Read(i)
  BY <1>1, <1>2 DEF Read
<1>5. Finished'
  <2>1. (pc' = "WriteCriticalPackets" \/ result' = "Success") => (pc = "WriteCriticalPackets" \/ result = "Success")
    OBVIOUS
  <2>2. result' = "Success" => pc' = "Done"
    BY DEF Finished
  <2>3. Ordered => Ordered'
    BY <1>3 DEF Ordered
  <2> QED BY <1>1, <1>3, <2>1, <2>2, <2>3 DEF Finished
<1>6. ContextsFollow'
  <2>1. ~deferhashcomputation' => \A f \in ToSet(sourcefiles') : Complete(f)'
    BY <1>1, <1>2 DEF ContextsFollow
  <2>2. pc' \in {"OpenSourceFiles", "CreateFiles"} => \A f \in ToSet(sourcefiles') : contextfull'[f] = <<>>
    BY <1>3 DEF ContextsFollow
  <2>3. ASSUME deferhashcomputation', pc' = "ProcessData", NEW i \in 1 .. Len(sourcefiles')
        PROVE  HashIsOf(contextfull[sourcefiles[i]], sourcefiles[i], Read(i))'
    <3>1. HashIsOf(contextfull[sourcefiles[i]], sourcefiles[i], Read(i))
      BY <2>3 DEF ContextsFollow
    <3> QED BY <1>2, <1>3, <1>4, <3>1, SameCounts DEF HashIsOf, Spells, SameFiles, hashes
  <2>4. ASSUME deferhashcomputation', pc' = "WriteHeaders", NEW f \in DOMAIN disk'
        PROVE  HashIsOf(contextfull[f], f, BlockCount(f))'
    <3>1. HashIsOf(contextfull[f], f, BlockCount(f))
      BY <1>3, <2>4 DEF ContextsFollow
    <3> QED BY <1>1, <1>3, <3>1 DEF HashIsOf, Spells, SameFiles, hashes
  <2> QED BY <2>1, <2>2, <2>3, <2>4 DEF ContextsFollow
<1> QED BY <1>5, <1>6

LEMMA SameOnDisk ==
  ASSUME AsOnDisk, UNCHANGED <<disk, changes, hashes>>, ToSet(sourcefiles') = ToSet(sourcefiles)
  PROVE  AsOnDisk'
BY DEF AsOnDisk, Begins, hashes

LEMMA Undisturbed ==
  ASSUME HInv, pc' \in {pc, "Done"}, result' = "Success" => result = "Success",
         UNCHANGED <<input, sizes, sourcefiles, hashes, sourcefile, sourceindex>>
  PROVE  (ContextsFollow /\ Finished /\ AsOnDisk)'
<1>1. Shape /\ ContextsFollow /\ Finished /\ AsOnDisk
  BY DEF HInv, IInv
<1>2. SameFiles
  BY DEF SameFiles, input
<1>3. UNCHANGED <<blocksize, deferhashcomputation, disk, changes>>
  BY DEF sizes, input
<1>4. ContextsFollow' /\ Finished'
  BY <1>1, <1>2, <1>3, NoHashChanges
<1>5. AsOnDisk'
  BY <1>1, <1>3, SameOnDisk
<1> QED BY <1>4, <1>5

LEMMA HashesStart == Init => HInv
<1> SUFFICES ASSUME Init PROVE HInv
  OBVIOUS
<1>1. IInv
  BY InitHolds
<1>2. sourcefiles = <<>> /\ pc = "Parse" /\ result = None /\ deferhashcomputation = FALSE
  BY DEF Init
<1>3. ToSet(<<>>) = {} /\ None # "Success"
  BY NoneAssumption DEF ToSet
<1>4. ContextsFollow /\ Finished /\ AsOnDisk
  BY <1>2, <1>3 DEF ContextsFollow, Finished, AsOnDisk
<1> QED BY <1>1, <1>4 DEF HInv

LEMMA SizingHashes == (HInv /\ (Parse \/ CheckBasepath \/ ComputeSizes)) => (ContextsFollow /\ Finished /\ AsOnDisk)'
<1> SUFFICES ASSUME HInv, Parse \/ CheckBasepath \/ ComputeSizes
             PROVE  (ContextsFollow /\ Finished /\ AsOnDisk)'
  OBVIOUS
<1>1. pc \in Sizing /\ sourcefiles' = sourcefiles
  BY DEF Parse, CheckBasepath, ComputeSizes, Sizing
<1>2. sourcefiles = <<>> /\ result # "Success"
  BY <1>1 DEF HInv, IInv, Shape, Finished, Sizing
<1>3. /\ pc' \in Sizing \union {"OpenSourceFiles", "Done"}
      /\ result' \in {result, "InvalidCommandLineArguments", "FileIOError"}
  <2>1. CASE Parse
    BY <2>1 DEF Parse, Stop, Goto, Sizing
  <2>2. CASE CheckBasepath
    BY <2>2 DEF CheckBasepath, Stop, Goto, Sizing
  <2>3. CASE ComputeSizes
    BY <2>3 DEF ComputeSizes, Stop, Goto, Sizing
  <2> QED BY <2>1, <2>2, <2>3
<1> QED BY <1>1, <1>2, <1>3, NothingOpened

(* A file of its blocks.                                                   *)
LEMMA FileSpells ==
  ASSUME NEW f \in DOMAIN disk, disk[f] \in Seq(Field), blocksize \in Nat \ {0},
         NEW words, \A n \in 1 .. BlockCount(f) : words[n] = ReadData(<<f, n>>, 0, blocksize)
  PROVE  Spells(disk[f], words, blocksize, BlockCount(f), Len(disk[f]))
<1> DEFINE s == disk[f]
           length == Len(s)
           all == BlockCount(f) * blocksize
<1>1. length \in Nat /\ BlockCount(f) = Ceil(length, blocksize)
  BY DEF BlockCount
<1>2. BlockCount(f) \in Nat /\ length <= all
  <2> HIDE DEF length, all
  <2> QED BY <1>1, CeilFacts, BlocksCover DEF all
<1>3. all \in Nat
  BY <1>2
<1>4. Len(s) = Least(length, all)
  <2> HIDE DEF all
  <2> QED BY <1>1, <1>2, <1>3 DEF Least
<1>5. ASSUME NEW m \in 1 .. BlockCount(f), NEW p \in 1 .. blocksize, (m - 1) * blocksize + p <= Len(s)
      PROVE  s[(m - 1) * blocksize + p] = words[m][p]
  <2>1. words[m] = [q \in 1 .. blocksize |->
                      IF (m - 1) * blocksize + 0 + q <= Len(s) THEN s[(m - 1) * blocksize + 0 + q] ELSE 0]
    BY DEF ReadData
  <2>2. (m - 1) * blocksize + 0 = (m - 1) * blocksize
    <3>1. (m - 1) * blocksize \in Nat
      BY <1>2
    <3> QED BY <3>1
  <2> QED BY <1>5, <2>1, <2>2
<1> QED BY <1>4, <1>5 DEF Spells

LEMMA OneMore ==
  ASSUME NEW F, NEW s \in Seq(F), NEW f \in F
  PROVE  ToSet(Append(s, f)) = ToSet(s) \union {f}
<1>1. /\ Append(s, f) \in Seq(F) /\ Len(Append(s, f)) = Len(s) + 1 /\ Append(s, f)[Len(s) + 1] = f
      /\ \A i \in 1 .. Len(s) : Append(s, f)[i] = s[i]
  OBVIOUS
<1>2. Len(s) \in Nat /\ DOMAIN s = 1 .. Len(s) /\ DOMAIN Append(s, f) = 1 .. Len(s) + 1
  BY <1>1
<1>3. \A i \in 1 .. Len(s) + 1 : i \in 1 .. Len(s) \/ i = Len(s) + 1
  BY <1>2
<1>4. Len(s) + 1 \in 1 .. Len(s) + 1 /\ \A i \in 1 .. Len(s) : i \in 1 .. Len(s) + 1
  BY <1>2
<1> QED BY <1>1, <1>2, <1>3, <1>4 DEF ToSet

LEMMA OpenSourceFileHashes ==
  ASSUME HInv, NEW f \in DOMAIN disk, OpenSourceFile(f)
  PROVE  (ContextsFollow /\ Finished /\ AsOnDisk)'
<1> USE DEF HInv, IInv
<1>1. /\ pc = "OpenSourceFiles" /\ f \notin ToSet(sourcefiles)
      /\ UNCHANGED <<input, sizes, files, cursor, matrix, outputbuffer, packets>>
  BY DEF OpenSourceFile
<1>2. CASE pc' = "Done"
  <2>1. UNCHANGED <<sourcefiles, hashes, sourcefile, sourceindex>> /\ result' = "FileIOError"
    BY <1>1, <1>2 DEF OpenSourceFile, Stop, cursor
  <2> QED BY <1>1, <1>2, <2>1, Undisturbed
<1>3. CASE pc' # "Done"
  <2> DEFINE described == [hash16k |-> SubSeq(disk[f], 1, Least(ShortFile, Len(disk[f]))),
                           hashfull |-> IF deferhashcomputation THEN None ELSE disk[f]]
             verified == [n \in 1 .. BlockCount(f) |->
                           IF deferhashcomputation THEN None ELSE ReadData(<<f, n>>, 0, blocksize)]
  <2>1. /\ sourcefiles' = Append(sourcefiles, f) /\ pc' = pc /\ result' = result
        /\ descriptions' = [g \in DOMAIN descriptions \union {f} |-> IF g = f THEN described ELSE descriptions[g]]
        /\ verifications' = [g \in DOMAIN verifications \union {f} |-> IF g = f THEN verified ELSE verifications[g]]
        /\ contextfull' = [g \in DOMAIN contextfull \union {f} |-> IF g = f THEN <<>> ELSE contextfull[g]]
    BY <1>3 DEF OpenSourceFile, Stop
  <2> HIDE DEF described, verified
  <2>2. sourcefiles \in Seq(DOMAIN disk)
    BY DEF Shape
  <2>3. ToSet(sourcefiles') = ToSet(sourcefiles) \union {f}
    BY <2>1, <2>2, OneMore
  <2>4. /\ blocksize \in Nat \ {0} /\ disk[f] \in Seq(Field) /\ Len(disk[f]) \in Nat \ {0}
        /\ BlockCount(f) \in Nat \ {0}
    <3>1. blocksize \in Nat \ {0}
      BY <1>1 DEF Shape, Sizing
    <3> QED BY <3>1, BlockCounts DEF Shape
  <2>5. ASSUME NEW g \in ToSet(sourcefiles)
        PROVE  /\ g # f /\ descriptions'[g] = descriptions[g]
               /\ verifications'[g] = verifications[g] /\ contextfull'[g] = contextfull[g]
    <3>1. g # f /\ g \in DOMAIN descriptions /\ g \in DOMAIN verifications /\ g \in DOMAIN contextfull
      BY <1>1 DEF Hashed
    <3> QED BY <2>1, <3>1
  <2>6. descriptions'[f] = described /\ verifications'[f] = verified /\ contextfull'[f] = <<>>
    BY <2>1
  <2>7. (\A g : BlockCount(g)' = BlockCount(g)) /\ UNCHANGED <<blocksize, disk, deferhashcomputation, changes>>
    BY <1>1 DEF BlockCount, input, sizes
  <2>8. ~deferhashcomputation => \A g \in ToSet(sourcefiles') : Complete(g)'
    <3> SUFFICES ASSUME ~deferhashcomputation, NEW g \in ToSet(sourcefiles') PROVE Complete(g)'
      OBVIOUS
    <3>1. CASE g = f
      <4>1. Spells(disk[f], verified, blocksize, BlockCount(f), Len(disk[f]))
        BY <2>4, FileSpells DEF verified
      <4>2. described.hashfull = disk[f]
        BY DEF described
      <4> QED BY <2>6, <2>7, <3>1, <4>1, <4>2 DEF Complete, HashIsOf
    <3>2. CASE g \in ToSet(sourcefiles)
      <4>1. Complete(g)
        BY <3>2 DEF ContextsFollow
      <4> QED BY <2>5, <2>7, <3>2, <4>1 DEF Complete, HashIsOf
    <3> QED BY <2>3, <3>1, <3>2
  <2>9. \A g \in ToSet(sourcefiles') : contextfull'[g] = <<>>
    <3>1. \A g \in ToSet(sourcefiles) : contextfull[g] = <<>>
      BY <1>1 DEF ContextsFollow
    <3> QED BY <2>3, <2>5, <2>6, <3>1
  <2>10. ContextsFollow'
    BY <1>1, <2>1, <2>7, <2>8, <2>9 DEF ContextsFollow
  <2>11. Finished'
    BY <1>1, <2>1 DEF Finished
  <2>12. AsOnDisk'
    <3> SUFFICES ASSUME changes = 0, NEW g \in ToSet(sourcefiles')
                 PROVE  /\ Begins(descriptions'[g].hash16k, disk[g]) /\ Begins(contextfull'[g], disk[g])
                        /\ descriptions'[g].hashfull # None => Begins(descriptions'[g].hashfull, disk[g])
      BY <2>7 DEF AsOnDisk, Begins
    <3>1. CASE g \in ToSet(sourcefiles)
      BY <2>5, <2>7, <3>1 DEF AsOnDisk
    <3>2. CASE g = f
      <4>1. Begins(<<>>, disk[f]) /\ Begins(disk[f], disk[f])
        <5>1. Len(disk[f]) \in Nat
          BY <2>4
        <5>2. <<>> \in Seq(Field) /\ Len(<<>>) = 0
          OBVIOUS
        <5> QED BY <2>4, <5>1, <5>2 DEF Begins
      <4>2. Begins(described.hash16k, disk[f])
        <5> DEFINE n == Least(ShortFile, Len(disk[f]))
                   one == 1
        <5>1. ShortFile \in Nat
          BY CreatorAssumption
        <5>2. n \in one - 1 .. Len(disk[f]) /\ one \in 1 .. Len(disk[f]) + 1 /\ one = 1 /\ n - one + 1 = n
          BY <2>4, <5>1 DEF Least
        <5>3. described.hash16k = SubSeq(disk[f], one, n)
          BY DEF described
        <5> HIDE DEF one, n
        <5> DEFINE s == SubSeq(disk[f], one, n)
        <5>4. s \in Seq(Field) /\ Len(s) = n - one + 1 /\ \A p \in 1 .. n - one + 1 : s[p] = disk[f][one + p - 1]
          BY <2>4, <5>2, PartFacts
        <5> HIDE DEF s
        <5>5. Len(s) = n /\ n <= Len(disk[f])
          BY <5>2, <5>4
        <5>6. ASSUME NEW p \in 1 .. n PROVE s[p] = disk[f][p]
          <6>1. one + p - 1 = p
            BY <5>2
          <6> QED BY <5>2, <5>4, <6>1
        <5> QED BY <5>3, <5>4, <5>5, <5>6 DEF Begins, s
      <4>3. described.hashfull # None => described.hashfull = disk[f]
        BY DEF described
      <4> QED BY <2>6, <3>2, <4>1, <4>2, <4>3
    <3> QED BY <2>3, <3>1, <3>2
  <2> QED BY <2>10, <2>11, <2>12
<1> QED BY <1>2, <1>3

LEMMA CreateMainPacketHashes == (HInv /\ CreateMainPacket) => (ContextsFollow /\ Finished /\ AsOnDisk)'
<1> SUFFICES ASSUME HInv, CreateMainPacket PROVE (ContextsFollow /\ Finished /\ AsOnDisk)'
  OBVIOUS
<1> USE DEF HInv, IInv
<1>1. /\ pc = "OpenSourceFiles" /\ pc' = "CreateFiles" /\ result' = result
      /\ UNCHANGED <<disk, changes, blocksize, deferhashcomputation, hashes>>
  BY DEF CreateMainPacket, Goto, input, sizes
<1>2. ToSet(sourcefiles) = DOMAIN disk /\ sourcefiles' \in SetToSeqs(DOMAIN disk)
  BY DEF CreateMainPacket
<1>3. blocksize # 0 /\ IsFiniteSet(DOMAIN disk)
  BY <1>1, BlockCounts DEF Shape, Sizing
<1>4. ToSet(sourcefiles') = ToSet(sourcefiles)
  BY <1>2, <1>3, OrderFacts
<1>5. \A f \in DOMAIN disk : Complete(f) => Complete(f)'
  BY <1>1, SameCounts DEF SameFiles
<1>6. ContextsFollow'
  BY <1>1, <1>2, <1>4, <1>5 DEF ContextsFollow, hashes
<1>7. Finished'
  BY <1>1 DEF Finished
<1>8. AsOnDisk'
  BY <1>1, <1>4, SameOnDisk
<1> QED BY <1>6, <1>7, <1>8

LEMMA ComputeRSMatrixHashes == (HInv /\ ComputeRSMatrix) => (ContextsFollow /\ Finished /\ AsOnDisk)'
<1> SUFFICES ASSUME HInv, ComputeRSMatrix PROVE (ContextsFollow /\ Finished /\ AsOnDisk)'
  OBVIOUS
<1>1. /\ pc = "CreateFiles"
      /\ UNCHANGED <<input, sizes, sourcefiles, hashes, files, cursor, packets>>
  BY DEF ComputeRSMatrix
<1>2. UNCHANGED <<disk, changes, blocksize, recoveryblockcount, deferhashcomputation, sourcefiles, hashes,
                  descriptions, contextfull, sourcefile, sourceindex>>
  BY <1>1 DEF input, sizes, hashes, cursor
<1>3. Shape /\ Staged /\ ContextsFollow /\ Finished /\ AsOnDisk
  BY DEF HInv, IInv
<1>4. Ordered /\ sourcefile = 1 /\ sourceindex = 0 /\ blocksize \in Nat \ {0}
  BY <1>1, <1>3 DEF Shape, Staged, Sizing, Reading
<1>5. ToSet(sourcefiles) = DOMAIN disk
  BY <1>3, <1>4, BlockCounts, OrderFacts DEF Ordered
<1>6. \A f \in DOMAIN disk : /\ BlockCount(f)' = BlockCount(f)
                             /\ Complete(f) => Complete(f)'
                             /\ BlockCount(f) \in Nat /\ Len(disk[f]) \in Nat
  BY <1>2, <1>3, <1>4, SameCounts, BlockCounts DEF SameFiles
<1>7. AsOnDisk'
  BY <1>2, <1>3, SameOnDisk
<1>8. CASE pc' = "Done"
  <2>1. result' = "LogicError"
    BY <1>8 DEF ComputeRSMatrix, Stop, Goto
  <2> QED BY <1>1, <1>2, <1>8, <2>1, Undisturbed DEF HInv
<1>9. CASE pc' = "WriteCriticalPackets"
  <2>1. recoveryblockcount = 0 /\ result' = result
    BY <1>9 DEF ComputeRSMatrix, Stop, Goto
  <2>2. ~deferhashcomputation
    BY <1>3, <2>1 DEF Shape
  <2>3. \A f \in DOMAIN disk : Complete(f)'
    BY <1>3, <1>5, <1>6, <2>2 DEF ContextsFollow
  <2>4. ContextsFollow'
    BY <1>2, <1>5, <1>9, <2>2, <2>3 DEF ContextsFollow
  <2>5. HashesDone'
    BY ComputeRSMatrixKeeps DEF HInv, IInv
  <2>6. result # "Success"
    BY <1>1, <1>3 DEF Finished
  <2>7. Finished'
    BY <1>9, <1>2, <2>1, <2>3, <2>5, <2>6 DEF Finished, HashesDone
  <2> QED BY <1>7, <2>4, <2>7
<1>10. CASE pc' = "ProcessData"
  <2>1. result' = result
    BY <1>10 DEF ComputeRSMatrix, Stop, Goto
  <2>2. ASSUME NEW i \in 1 .. Len(sourcefiles)
        PROVE  HashIsOf(contextfull[sourcefiles[i]], sourcefiles[i], Read(i))'
    <3> DEFINE f == sourcefiles[i]
    <3>1. f \in ToSet(sourcefiles) /\ f \in DOMAIN disk
      BY <1>3, <1>5 DEF Shape, ToSet
    <3>2. contextfull[f] = <<>>
      BY <1>1, <1>3, <3>1 DEF ContextsFollow
    <3>3. Read(i)' = 0
      BY <1>2, <1>4 DEF Read
    <3>4. Spells(<<>>, verifications'[f], blocksize, 0, Len(disk[f]))
      BY <1>4, <1>6, <3>1, SpellsNothing
    <3> QED BY <1>2, <3>2, <3>3, <3>4 DEF HashIsOf
  <2>3. ContextsFollow'
    BY <1>2, <1>3, <1>5, <1>6, <1>10, <2>2 DEF ContextsFollow
  <2>4. Finished'
    BY <1>1, <1>3, <1>10, <2>1 DEF Finished
  <2> QED BY <1>7, <2>3, <2>4
<1> QED BY <1>8, <1>9, <1>10 DEF ComputeRSMatrix, Stop, Goto

LEMMA EndPassHashes == (HInv /\ EndPass) => (ContextsFollow /\ Finished /\ AsOnDisk)'
<1> SUFFICES ASSUME HInv, EndPass PROVE (ContextsFollow /\ Finished /\ AsOnDisk)'
  OBVIOUS
<1>1. /\ pc = "ProcessData" /\ inputblock > Len(SourceBlocks) /\ outputblock > recoveryblockcount
      /\ result' = result
      /\ UNCHANGED <<input, sizes, sourcefiles, hashes, files, matrix, packets>>
  BY DEF EndPass, Goto
<1>2. UNCHANGED <<disk, changes, blocksize, deferhashcomputation, sourcefiles, descriptions, verifications,
                  contextfull, hashes>>
  BY <1>1 DEF input, sizes, hashes
<1>3. Shape /\ ContextsFollow /\ Finished /\ AsOnDisk /\ IInv
  BY DEF HInv, IInv
<1>4. Ordered /\ deferhashcomputation \in BOOLEAN /\ blocksize \in Nat \ {0} /\ blockoffset \in 0 .. blocksize - 1
      /\ (deferhashcomputation => blockoffset = 0 /\ ChunkLength = blocksize)
  BY <1>1, <1>3, ProcessingFacts
<1>5. PICK start : StartsAt(start, sourcefiles, BlocksOf) /\ CursorAt(start, inputblock, sourcefile, sourceindex)
  BY <1>1, <1>3 DEF IInv, CursorsAgree
<1>6. Listed(start) /\ Len(SourceBlocks) \in Nat \ {0}
  BY <1>1, <1>3, <1>5, PassIsDone
<1>7. ToSet(sourcefiles) = DOMAIN disk /\ \A i \in 1 .. Len(sourcefiles) : sourcefiles[i] \in DOMAIN disk
  BY <1>6 DEF Listed
<1>8. \A f \in DOMAIN disk : /\ BlockCount(f)' = BlockCount(f)
                             /\ Complete(f) => Complete(f)'
                             /\ \A s, n : HashIsOf(s, f, n) => HashIsOf(s, f, n)'
  BY <1>2, <1>3, SameCounts DEF SameFiles
<1>9. AsOnDisk'
  BY <1>2, <1>3, SameOnDisk
<1>10. ~deferhashcomputation => \A f \in ToSet(sourcefiles) : Complete(f)'
  BY <1>3, <1>7, <1>8 DEF ContextsFollow
<1>11. result # "Success"
  BY <1>1, <1>3 DEF Finished
<1>12. CASE MorePasses
  <2>1. pc' = "ProcessData"
    BY <1>1, <1>12 DEF EndPass
  <2>2. ~deferhashcomputation
    BY <1>4, <1>12 DEF MorePasses
  <2>3. ContextsFollow' /\ Finished'
    BY <1>1, <1>2, <1>10, <1>11, <2>1, <2>2 DEF ContextsFollow, Finished
  <2> QED BY <1>9, <2>3
<1>13. CASE ~MorePasses
  <2>1. pc' = "WriteHeaders"
    BY <1>13 DEF EndPass, Goto
  <2>2. sourcefile > Len(sourcefiles)
    <3>1. SUFFICES ASSUME sourcefile \in 1 .. Len(sourcefiles) PROVE FALSE
      BY <1>5, <1>6 DEF CursorAt, Listed
    <3> DEFINE n == sourceindex + 1
               before == start[sourcefile - 1]
               count == BlockCount(sourcefiles[sourcefile])
    <3>2. sourceindex \in Nat /\ sourceindex < count /\ inputblock = before + sourceindex + 1
      BY <1>5, <3>1 DEF CursorAt
    <3>3. count \in Nat /\ before \in Nat /\ \A m \in 1 .. count : before + m \in 1 .. Len(SourceBlocks)
      BY <1>6, <3>1 DEF Listed
    <3> HIDE DEF before, count
    <3>4. n \in 1 .. count /\ inputblock = before + n
      BY <3>2, <3>3
    <3> QED BY <1>1, <1>6, <3>3, <3>4
  <2>3. ASSUME deferhashcomputation, NEW f \in DOMAIN disk PROVE HashIsOf(contextfull[f], f, BlockCount(f))'
    <3>1. PICK i \in 1 .. Len(sourcefiles) : f = sourcefiles[i]
      <4>1. sourcefiles \in Seq(DOMAIN disk)
        BY <1>3 DEF Shape
      <4>2. DOMAIN sourcefiles = 1 .. Len(sourcefiles)
        BY <4>1
      <4>3. f \in ToSet(sourcefiles)
        BY <1>7
      <4> QED BY <4>2, <4>3 DEF ToSet
    <3>2. i < sourcefile
      BY <1>5, <1>6, <2>2 DEF CursorAt, Listed
    <3>3. Read(i) = BlockCount(f)
      BY <3>1, <3>2 DEF Read
    <3>4. HashIsOf(contextfull[f], f, BlockCount(f))
      BY <1>1, <1>3, <2>3, <3>1, <3>3 DEF ContextsFollow
    <3> QED BY <1>2, <1>8, <3>4 DEF HashIsOf
  <2>4. ContextsFollow'
    BY <1>2, <1>10, <2>1, <2>3 DEF ContextsFollow
  <2>5. Finished'
    BY <1>1, <1>11, <2>1 DEF Finished
  <2> QED BY <1>9, <2>4, <2>5
<1> QED BY <1>12, <1>13

LEMMA FinishHashes == (HInv /\ FinishFileHashComputation) => (ContextsFollow /\ Finished /\ AsOnDisk)'
<1> SUFFICES ASSUME HInv, FinishFileHashComputation PROVE (ContextsFollow /\ Finished /\ AsOnDisk)'
  OBVIOUS
<1>1. /\ pc = "WriteHeaders" /\ pc' = "WriteCriticalPackets" /\ result' = result
      /\ UNCHANGED <<disk, changes, blocksize, deferhashcomputation, sourcefiles, verifications, contextfull>>
      /\ descriptions' = IF deferhashcomputation
                         THEN [f \in DOMAIN descriptions |-> [descriptions[f] EXCEPT !.hashfull = contextfull[f]]]
                         ELSE descriptions
  BY DEF FinishFileHashComputation, Goto, input, sizes
<1>2. Shape /\ Hashed /\ Staged /\ ContextsFollow /\ Finished /\ AsOnDisk /\ HashesDone'
  BY FinishFileHashComputationKeeps DEF HInv, IInv
<1>3. blocksize # 0 /\ Ordered
  BY <1>1, <1>2 DEF Shape, Staged, Sizing
<1>4. ToSet(sourcefiles) = DOMAIN disk /\ DOMAIN descriptions = DOMAIN disk
  BY <1>2, <1>3, BlockCounts, OrderFacts DEF Ordered, Hashed
<1>5. \A f \in DOMAIN disk : (BlockCount(f))' = BlockCount(f)
  BY <1>1 DEF BlockCount
<1>6. ASSUME NEW f \in DOMAIN disk
      PROVE  /\ descriptions'[f].hash16k = descriptions[f].hash16k
             /\ descriptions'[f].hashfull = IF deferhashcomputation THEN contextfull[f] ELSE descriptions[f].hashfull
  <2>1. HashesOf(f)
    BY <1>2, <1>4 DEF Hashed
  <2>2. descriptions[f] = [hash16k |-> descriptions[f].hash16k, hashfull |-> descriptions[f].hashfull]
    BY <2>1 DEF HashesOf
  <2>3. CASE deferhashcomputation
    <3>1. descriptions'[f] = [descriptions[f] EXCEPT !.hashfull = contextfull[f]]
      BY <1>1, <1>4, <2>3
    <3> QED BY <2>2, <2>3, <3>1
  <2>4. CASE ~deferhashcomputation
    BY <1>1, <2>4
  <2> QED BY <2>3, <2>4
<1>7. ASSUME NEW f \in DOMAIN disk PROVE Complete(f)'
  <2>1. CASE deferhashcomputation
    <3>1. HashIsOf(contextfull[f], f, BlockCount(f))
      BY <1>1, <1>2, <2>1 DEF ContextsFollow
    <3> QED BY <1>1, <1>5, <1>6, <2>1, <3>1 DEF Complete, HashIsOf
  <2>2. CASE ~deferhashcomputation
    <3>1. Complete(f)
      BY <1>2, <1>4, <2>2 DEF ContextsFollow
    <3> QED BY <1>1, <1>5, <1>6, <2>2, <3>1 DEF Complete, HashIsOf
  <2> QED BY <2>1, <2>2
<1>8. ContextsFollow'
  BY <1>1, <1>4, <1>7 DEF ContextsFollow
<1>9. Finished'
  <2>1. result' # "Success"
    BY <1>1, <1>2 DEF Finished
  <2> QED BY <1>1, <1>2, <1>7, <2>1 DEF Finished, HashesDone
<1>10. AsOnDisk'
  <2> SUFFICES ASSUME changes = 0, NEW f \in DOMAIN disk
               PROVE  /\ Begins(descriptions'[f].hash16k, disk[f]) /\ Begins(contextfull[f], disk[f])
                      /\ descriptions'[f].hashfull # None => Begins(descriptions'[f].hashfull, disk[f])
    BY <1>1, <1>4 DEF AsOnDisk, Begins
  <2>1. /\ Begins(descriptions[f].hash16k, disk[f]) /\ Begins(contextfull[f], disk[f])
        /\ descriptions[f].hashfull # None => Begins(descriptions[f].hashfull, disk[f])
    BY <1>2, <1>4 DEF AsOnDisk
  <2> QED BY <1>6, <2>1
<1> QED BY <1>8, <1>9, <1>10

LEMMA CloseFilesHashes == (HInv /\ CloseFiles) => (ContextsFollow /\ Finished /\ AsOnDisk)'
<1> SUFFICES ASSUME HInv, CloseFiles PROVE (ContextsFollow /\ Finished /\ AsOnDisk)'
  OBVIOUS
<1>1. /\ pc = "WriteCriticalPackets" /\ pc' = "Done" /\ result' = "Success"
      /\ UNCHANGED <<disk, changes, blocksize, deferhashcomputation, sourcefiles, hashes>>
  BY DEF CloseFiles, Stop, input, sizes
<1>2. Shape /\ ContextsFollow /\ Finished /\ AsOnDisk
  BY DEF HInv, IInv
<1>3. /\ AllRead => AllRead'
      /\ \A f \in DOMAIN disk : Complete(f) => Complete(f)'
  BY <1>1, <1>2, SameCounts DEF SameFiles
<1>4. ToSet(sourcefiles) \subseteq DOMAIN disk /\ UNCHANGED descriptions
  BY <1>1, <1>2 DEF Shape, ToSet, hashes
<1>5. ContextsFollow'
  BY <1>1, <1>2, <1>3, <1>4 DEF ContextsFollow
<1>6. Finished'
  BY <1>1, <1>2, <1>3, <1>4 DEF Finished, Ordered
<1>7. AsOnDisk'
  BY <1>1, <1>2, SameOnDisk
<1> QED BY <1>5, <1>6, <1>7

LEMMA SourceChangesHashes == (HInv /\ SourceChanges) => (ContextsFollow /\ Finished /\ AsOnDisk)'
<1> SUFFICES ASSUME HInv, SourceChanges PROVE (ContextsFollow /\ Finished /\ AsOnDisk)'
  OBVIOUS
<1>1. /\ changes' = changes + 1
      /\ UNCHANGED <<pc, result, blocksize, deferhashcomputation, sourcefiles, hashes, sourcefile, sourceindex>>
  BY DEF SourceChanges, sizes, cursor
<1>2. Shape /\ ContextsFollow /\ Finished /\ changes \in Nat
  BY DEF HInv, IInv, Staged
<1>3. SameFiles
  <2>1. PICK f \in DOMAIN disk : \E p \in DOMAIN disk[f] : disk' = [disk EXCEPT ![f][p] = (@ + 1) % Count]
    BY DEF SourceChanges
  <2>2. PICK p \in DOMAIN disk[f] : disk' = [disk EXCEPT ![f][p] = (@ + 1) % Count]
    BY <2>1
  <2> DEFINE new == [disk[f] EXCEPT ![p] = (@ + 1) % Count]
  <2>3. disk' = [disk EXCEPT ![f] = new]
    BY <2>2
  <2>4. Len(new) = Len(disk[f])
    BY <1>2 DEF Shape
  <2> HIDE DEF new
  <2> QED BY <2>3, <2>4 DEF SameFiles
<1>4. ContextsFollow' /\ Finished'
  BY <1>1, <1>2, <1>3, NoHashChanges
<1>5. AsOnDisk'
  BY <1>1, <1>2 DEF AsOnDisk
<1> QED BY <1>4, <1>5

(* Steps that change no hash and no cursor.                                *)
LEMMA OtherHashes ==
  (HInv /\ (CreateFile \/ WriteData \/ WriteHeader \/ WriteCriticalPacket \/ UNCHANGED vars))
    => (ContextsFollow /\ Finished /\ AsOnDisk)'
<1> SUFFICES ASSUME HInv, CreateFile \/ WriteData \/ WriteHeader \/ WriteCriticalPacket \/ UNCHANGED vars
             PROVE  (ContextsFollow /\ Finished /\ AsOnDisk)'
  OBVIOUS
<1>1. /\ pc' \in {pc, "Done"} /\ result' \in {result, "FileIOError"}
      /\ UNCHANGED <<input, sizes, sourcefiles, hashes, sourcefile, sourceindex>>
  <2>1. CASE CreateFile
    BY <2>1 DEF CreateFile, Stop, cursor
  <2>2. CASE WriteData
    BY <2>2 DEF WriteData, Stop
  <2>3. CASE WriteHeader
    BY <2>3 DEF WriteHeader, Stop, cursor
  <2>4. CASE WriteCriticalPacket
    BY <2>4 DEF WriteCriticalPacket, Stop, cursor
  <2>5. CASE UNCHANGED vars
    BY <2>5 DEF vars, cursor
  <2> QED BY <2>1, <2>2, <2>3, <2>4, <2>5
<1> QED BY <1>1, Undisturbed

(* A longer beginning.                                                     *)
LEMMA BeginsNext ==
  ASSUME NEW t \in Seq(Field), NEW s, Begins(s, t), NEW part \in Seq(Field), Len(s) + Len(part) <= Len(t),
         \A p \in 1 .. Len(part) : part[p] = t[Len(s) + p]
  PROVE  Begins(s \o part, t)
<1> DEFINE whole == s \o part
           d == Len(s)
<1>1. s \in Seq(Field) /\ \A p \in 1 .. d : s[p] = t[p]
  BY DEF Begins
<1>2. /\ whole \in Seq(Field) /\ Len(whole) = d + Len(part)
      /\ \A p \in 1 .. d + Len(part) : whole[p] = IF p <= d THEN s[p] ELSE part[p - d]
  <2> HIDE DEF Field
  <2> QED BY <1>1, WholeFacts
<1>3. d \in Nat /\ Len(part) \in Nat
  BY <1>1
<1> HIDE DEF whole, d
<1>4. ASSUME NEW p \in 1 .. d + Len(part) PROVE whole[p] = t[p]
  <2>1. CASE p <= d
    <3>1. p \in 1 .. d
      BY <1>3, <2>1
    <3> QED BY <1>1, <1>2, <2>1, <3>1
  <2>2. CASE ~(p <= d)
    <3>1. p - d \in 1 .. Len(part) /\ d + (p - d) = p
      BY <1>3, <2>2
    <3>2. part[p - d] = t[d + (p - d)]
      BY <3>1 DEF d
    <3> QED BY <1>2, <2>2, <3>1, <3>2
  <2> QED BY <2>1, <2>2
<1>5. d + Len(part) <= Len(t)
  BY DEF d
<1>6. Begins(whole, t)
  BY <1>2, <1>4, <1>5 DEF Begins
<1> QED BY <1>6 DEF whole

(* The bytes of a block that its file has.                                 *)
Piece(data, f, k) == SubSeq(data, 1, Least(Len(data), Len(disk[f]) - k * blocksize))

IsPiece(part, data, f, k) ==
  /\ k * blocksize \in Nat /\ k * blocksize < Len(disk[f]) /\ disk[f] \in Seq(Field)
  /\ part \in Seq(Field)
  /\ Len(part) = Least(blocksize, Len(disk[f]) - k * blocksize)
  /\ \A p \in 1 .. Len(part) : part[p] = data[p] /\ part[p] = disk[f][k * blocksize + p]

LEMMA PieceFacts ==
  ASSUME Shape, blocksize \in Nat \ {0}, NEW f \in DOMAIN disk, NEW k \in Nat, k < BlockCount(f),
         NEW data, data = ReadData(<<f, k + 1>>, 0, blocksize), data \in Words
  PROVE  IsPiece(Piece(data, f, k), data, f, k)
<1> DEFINE done == k * blocksize
           length == Len(disk[f])
           last == Least(Len(data), length - done)
           one == 1
           s == SubSeq(data, one, last)
<1>1. disk[f] \in Seq(Field) /\ length \in Nat /\ done \in Nat
  BY DEF Shape
<1>2. done < length
  <2>1. BlockCount(f) = Ceil(length, blocksize)
    BY DEF BlockCount
  <2> HIDE DEF length
  <2> QED BY <1>1, <2>1, BlocksCover
<1>3. data \in Seq(Field) /\ Len(data) = blocksize
  <2> HIDE DEF Field
  <2> QED BY DEF Words
<1>4. data = [p \in 1 .. blocksize |-> IF done + p <= length THEN disk[f][done + p] ELSE 0]
  <2>1. k + 1 - 1 = k /\ done + 0 = done
    BY <1>1
  <2>2. data = [p \in 1 .. blocksize |->
                 IF (k + 1 - 1) * blocksize + 0 + p <= length THEN disk[f][(k + 1 - 1) * blocksize + 0 + p] ELSE 0]
    BY DEF ReadData
  <2> QED BY <2>1, <2>2
<1>5. Piece(data, f, k) = s /\ one = 1
  BY DEF Piece
<1>6. last = Least(blocksize, length - done)
  BY <1>3
<1> HIDE DEF done, length, one, last
<1>7. last \in Nat /\ last <= blocksize /\ last <= length - done
  BY <1>1, <1>2, <1>6 DEF Least
<1>8. one \in 1 .. Len(data) + 1 /\ last \in one - 1 .. Len(data) /\ last - one + 1 = last
  BY <1>3, <1>5, <1>7
<1>9. s \in Seq(Field) /\ Len(s) = last - one + 1 /\ \A p \in 1 .. last - one + 1 : s[p] = data[one + p - 1]
  <2> HIDE DEF s
  <2>1. ASSUME NEW S, data \in Seq(S)
        PROVE  SubSeq(data, one, last) \in Seq(S) /\ Len(SubSeq(data, one, last)) = last - one + 1
               /\ \A p \in 1 .. last - one + 1 : SubSeq(data, one, last)[p] = data[one + p - 1]
    BY <1>8, <2>1, PartFacts
  <2> HIDE DEF Field
  <2> QED BY <1>3, <2>1 DEF s
<1> HIDE DEF s
<1>10. ASSUME NEW p \in 1 .. Len(s) PROVE s[p] = data[p] /\ s[p] = disk[f][done + p]
  <2>1. p \in 1 .. last - one + 1 /\ one + p - 1 = p /\ p \in 1 .. blocksize /\ done + p <= length
    BY <1>1, <1>5, <1>7, <1>8, <1>9
  <2>2. s[p] = data[p]
    BY <1>9, <2>1
  <2> QED BY <1>4, <2>1, <2>2
<1> QED BY <1>1, <1>2, <1>5, <1>6, <1>8, <1>9, <1>10 DEF IsPiece, done, length

(* What a block that is read adds to the hash of its file.                 *)
LEMMA ReadAdvances ==
  ASSUME \A i \in 1 .. Len(sourcefiles) : BlockCount(sourcefiles[i])' = BlockCount(sourcefiles[i])
                                          /\ BlockCount(sourcefiles[i]) \in Nat \ {0},
         UNCHANGED sourcefiles, Len(sourcefiles) \in Nat, sourcefile \in 1 .. Len(sourcefiles), sourceindex \in Nat,
         sourceindex + 1 \in 1 .. BlockCount(sourcefiles[sourcefile]), NextSource
  PROVE  /\ \A i \in 1 .. Len(sourcefiles) :
              Read(i)' = IF i = sourcefile THEN sourceindex + 1 ELSE Read(i)
         /\ Read(sourcefile) = sourceindex
<1>1. CASE sourceindex + 1 >= BlockCount(sourcefiles[sourcefile])
  <2>1. sourcefile' = sourcefile + 1 /\ sourceindex' = 0 /\ sourceindex + 1 = BlockCount(sourcefiles[sourcefile])
    BY <1>1 DEF NextSource
  <2>2. ASSUME NEW i \in 1 .. Len(sourcefiles)
        PROVE  Read(i)' = IF i = sourcefile THEN sourceindex + 1 ELSE Read(i)
    <3>1. Read(i)' = IF i < sourcefile + 1 THEN BlockCount(sourcefiles[i]) ELSE IF i = sourcefile + 1 THEN 0 ELSE 0
      BY <2>1 DEF Read
    <3>2. i < sourcefile + 1 <=> (i < sourcefile \/ i = sourcefile)
      OBVIOUS
    <3> QED BY <2>1, <3>1, <3>2 DEF Read
  <2> QED BY <2>2 DEF Read
<1>2. CASE ~(sourceindex + 1 >= BlockCount(sourcefiles[sourcefile]))
  <2>1. sourcefile' = sourcefile /\ sourceindex' = sourceindex + 1
    BY <1>2 DEF NextSource
  <2>2. ASSUME NEW i \in 1 .. Len(sourcefiles)
        PROVE  Read(i)' = IF i = sourcefile THEN sourceindex + 1 ELSE Read(i)
    BY <2>1 DEF Read
  <2> QED BY <2>2 DEF Read
<1> QED BY <1>1, <1>2

LEMMA ReadBlockHashes == (HInv /\ ReadBlock) => (ContextsFollow /\ Finished /\ AsOnDisk)'
<1> SUFFICES ASSUME HInv, ReadBlock PROVE (ContextsFollow /\ Finished /\ AsOnDisk)'
  OBVIOUS
<1>1. /\ pc = "ProcessData" /\ inputblock <= Len(SourceBlocks)
      /\ UNCHANGED <<input, sizes, sourcefiles, descriptions, files, blockoffset, outputblock, matrix, packets>>
  BY DEF ReadBlock
<1>2. CASE pc' = "Done"
  <2>1. UNCHANGED <<verifications, contextfull, sourcefile, sourceindex>> /\ result' = "FileIOError"
    BY <1>1, <1>2 DEF ReadBlock, Stop
  <2> QED BY <1>1, <1>2, <2>1, Undisturbed DEF hashes
<1>3. CASE pc' # "Done"
  <2> DEFINE data == ReadData(SourceBlocks[inputblock], blockoffset, ChunkLength)
  <2>1. /\ pc' = pc /\ result' = result /\ NextSource
        /\ (IF deferhashcomputation THEN UpdateHashes(data) ELSE UNCHANGED <<verifications, contextfull>>)
    BY <1>3 DEF ReadBlock, Stop
  <2>2. data = ReadData(SourceBlocks[inputblock], blockoffset, ChunkLength)
    OBVIOUS
  <2> HIDE DEF data
  <2>3. IInv /\ Shape /\ Hashed /\ ContextsFollow /\ Finished /\ AsOnDisk
    BY DEF HInv, IInv
  <2>4. /\ blocksize \in Nat \ {0} /\ blockoffset \in 0 .. blocksize - 1
        /\ deferhashcomputation \in BOOLEAN /\ Ordered
        /\ deferhashcomputation => blockoffset = 0 /\ ChunkLength = blocksize
    BY <1>1, <2>3, ProcessingFacts
  <2>5. PICK start : StartsAt(start, sourcefiles, BlocksOf) /\ CursorAt(start, inputblock, sourcefile, sourceindex)
    BY <1>1, <2>3 DEF IInv, CursorsAgree
  <2>6. Listed(start)
    BY <2>3, <2>4, <2>5, Listing
  <2> DEFINE f == sourcefiles[sourcefile]
             k == sourceindex
  <2>7. /\ sourcefile \in 1 .. Len(sourcefiles) /\ f \in DOMAIN disk /\ k \in Nat /\ k + 1 \in 1 .. BlockCount(f)
        /\ SourceBlocks[inputblock] = <<f, k + 1>>
    BY <1>1, <2>3, <2>4, <2>5, CursorFacts
  <2>8. UNCHANGED <<disk, changes, blocksize, deferhashcomputation, sourcefiles, descriptions>>
    BY <1>1 DEF input, sizes
  <2>9. result' # "Success" /\ pc' = "ProcessData"
    BY <1>1, <2>1, <2>3 DEF Finished
  <2>10. Finished'
    BY <2>9 DEF Finished
  <2>11. CASE ~deferhashcomputation
    <3>1. UNCHANGED hashes /\ SameFiles
      BY <2>1, <2>8, <2>11 DEF hashes, SameFiles
    <3>2. ASSUME NEW g \in ToSet(sourcefiles) PROVE Complete(g)'
      <4>1. g \in DOMAIN disk
        BY <2>6, <3>2 DEF Listed
      <4> QED BY <2>3, <2>8, <2>11, <3>1, <3>2, <4>1, SameCounts DEF ContextsFollow
    <3>3. ContextsFollow'
      BY <2>8, <2>9, <2>11, <3>2 DEF ContextsFollow
    <3>4. AsOnDisk'
      BY <2>3, <2>8, <3>1, SameOnDisk
    <3> QED BY <2>10, <3>3, <3>4
  <2>12. CASE deferhashcomputation
    <3> DEFINE part == Piece(data, f, k)
               s == contextfull[f]
    <3>1. UpdateHashes(data)
      BY <2>1, <2>12
    <3>2. /\ verifications' = [verifications EXCEPT ![f][k + 1] = data]
          /\ contextfull' = [contextfull EXCEPT ![f] = @ \o part]
      BY <3>1 DEF UpdateHashes, Piece
    <3>3. data = ReadData(<<f, k + 1>>, 0, blocksize)
      BY <2>2, <2>4, <2>7, <2>12
    <3>4. data \in Words
      <4> DEFINE zero == 0
      <4>1. k + 1 \in Nat \ {0} /\ zero \in Nat /\ blocksize \in Nat
        BY <2>4, <2>7
      <4> HIDE DEF zero
      <4>2. ReadData(<<f, k + 1>>, zero, blocksize) \in [1 .. blocksize -> Field]
        BY <2>3, <2>7, <4>1, ReadDataFacts
      <4> QED BY <3>3, <4>2 DEF zero, Words
    <3>5. BlockCount(f) \in Nat \ {0} /\ k < BlockCount(f)
      BY <2>3, <2>4, <2>7, BlockCounts
    <3>6. /\ k * blocksize \in Nat /\ k * blocksize < Len(disk[f]) /\ disk[f] \in Seq(Field)
          /\ part \in Seq(Field)
          /\ Len(part) = Least(blocksize, Len(disk[f]) - k * blocksize)
          /\ \A p \in 1 .. Len(part) : part[p] = data[p] /\ part[p] = disk[f][k * blocksize + p]
      <4>1. part = Piece(data, f, k)
        OBVIOUS
      <4> HIDE DEF part, f, k
      <4>2. IsPiece(part, data, f, k)
        BY <2>3, <2>4, <2>7, <3>3, <3>4, <3>5, <4>1, PieceFacts
      <4> QED BY <4>2 DEF IsPiece
    <3> HIDE DEF part
    <3>7. ToSet(sourcefiles) = DOMAIN disk /\ DOMAIN verifications = DOMAIN disk /\ DOMAIN contextfull = DOMAIN disk
      BY <2>3, <2>6 DEF Listed, Hashed
    <3>8. /\ verifications[f] \in [1 .. BlockCount(f) -> Words \union {None}] /\ s \in Seq(Field)
      BY <2>3, <2>7, <3>7 DEF Hashed, HashesOf
    <3>9. /\ verifications'[f][k + 1] = data /\ \A m \in 1 .. k : verifications'[f][m] = verifications[f][m]
          /\ contextfull'[f] = s \o part
      <4>1. verifications'[f] = [verifications[f] EXCEPT ![k + 1] = data]
        BY <2>7, <3>2, <3>7
      <4>2. DOMAIN verifications[f] = 1 .. BlockCount(f)
        BY <3>8
      <4>3. \A m \in 1 .. k : m \in 1 .. BlockCount(f) /\ m # k + 1
        BY <2>7, <3>5
      <4>4. contextfull'[f] = s \o part
        BY <2>7, <3>2, <3>7
      <4> QED BY <2>7, <4>1, <4>2, <4>3, <4>4
    <3>10. ASSUME NEW g \in DOMAIN disk, g # f
           PROVE  verifications'[g] = verifications[g] /\ contextfull'[g] = contextfull[g]
      BY <3>2, <3>7, <3>10
    <3>11. /\ \A i \in 1 .. Len(sourcefiles) :
                Read(i)' = IF i = sourcefile THEN k + 1 ELSE Read(i)
           /\ Read(sourcefile) = k
      <4>1. \A i \in 1 .. Len(sourcefiles) : BlockCount(sourcefiles[i])' = BlockCount(sourcefiles[i])
                                          /\ BlockCount(sourcefiles[i]) \in Nat \ {0}
        BY <2>6, <2>8 DEF Listed, BlockCount
      <4>2. Len(sourcefiles) \in Nat
        BY <2>6 DEF Listed
      <4> QED BY <2>1, <2>7, <2>8, <4>1, <4>2, ReadAdvances
    <3>12. Spells(s, verifications[f], blocksize, k, Len(disk[f]))
      BY <1>1, <2>3, <2>7, <2>12, <3>11 DEF ContextsFollow, HashIsOf
    <3>13. Len(disk[f]) \in Nat
      BY <3>6
    <3>14. Spells(s \o part, verifications'[f], blocksize, k + 1, Len(disk[f]))
      <4> DEFINE words == verifications[f]
                 new == verifications'[f]
                 length == Len(disk[f])
                 c == s
      <4>1. /\ c \in Seq(Field) /\ Spells(c, words, blocksize, k, length) /\ length \in Nat
            /\ k * blocksize < length /\ part \in Seq(Field) /\ Len(part) = Least(blocksize, length - k * blocksize)
            /\ (\A m \in 1 .. k : new[m] = words[m]) /\ \A p \in 1 .. Len(part) : part[p] = new[k + 1][p]
        BY <3>6, <3>8, <3>9, <3>12, <3>13
      <4>2. k \in Nat
        BY <2>7
      <4> HIDE DEF words, new, length, c, k
      <4>3. ASSUME NEW S, c \in Seq(S), part \in Seq(S)
            PROVE  Spells(c \o part, new, blocksize, k + 1, length)
        BY <2>4, <4>1, <4>2, <4>3, SpellsNext
      <4> HIDE DEF Field
      <4> QED BY <4>1, <4>3 DEF c, new, length
    <3>15. ASSUME NEW i \in 1 .. Len(sourcefiles)
           PROVE  HashIsOf(contextfull[sourcefiles[i]], sourcefiles[i], Read(i))'
      <4>1. CASE i = sourcefile
        <5>1. Read(i)' = k + 1
          BY <3>11, <4>1
        <5> QED BY <2>8, <3>9, <3>14, <4>1, <5>1 DEF HashIsOf
      <4>2. CASE i # sourcefile
        <5>1. sourcefiles[i] \in DOMAIN disk /\ sourcefiles[i] # f
          BY <2>6, <2>7, <4>2 DEF Listed
        <5>2. HashIsOf(contextfull[sourcefiles[i]], sourcefiles[i], Read(i))
          BY <1>1, <2>3, <2>12 DEF ContextsFollow
        <5>3. Read(i)' = Read(i)
          BY <3>11, <4>2
        <5> QED BY <2>8, <3>10, <5>1, <5>2, <5>3 DEF HashIsOf
      <4> QED BY <4>1, <4>2
    <3>16. ContextsFollow'
      BY <2>8, <2>9, <2>12, <3>15 DEF ContextsFollow
    <3>17. AsOnDisk'
      <4> SUFFICES ASSUME changes = 0, NEW g \in ToSet(sourcefiles) PROVE Begins(contextfull'[g], disk[g])
        BY <2>3, <2>8 DEF AsOnDisk, Begins
      <4>1. Begins(contextfull[g], disk[g])
        BY <2>3 DEF AsOnDisk
      <4>2. CASE g # f
        BY <3>7, <3>10, <4>1, <4>2
      <4>3. CASE g = f
        <5> DEFINE done == k * blocksize
                   t == disk[f]
        <5>1. Len(s) = done
          BY <3>6, <3>12, <3>13 DEF Spells, Least
        <5>2. /\ t \in Seq(Field) /\ Begins(s, t) /\ part \in Seq(Field) /\ Len(t) \in Nat
              /\ \A p \in 1 .. Len(part) : part[p] = t[done + p]
          BY <3>6, <3>13, <4>1, <4>3
        <5>3. done \in Nat /\ done < Len(t) /\ Len(part) = Least(blocksize, Len(t) - done)
          BY <3>6
        <5> DEFINE c == s
        <5> HIDE DEF done, t, c
        <5>4. Len(c) + Len(part) <= Len(t)
          BY <2>4, <5>1, <5>2, <5>3 DEF Least, c
        <5>5. Begins(c \o part, t)
          BY <5>1, <5>2, <5>4, BeginsNext DEF c
        <5> QED BY <3>9, <4>3, <5>5 DEF c, t
      <4> QED BY <4>2, <4>3
    <3> QED BY <2>10, <3>16, <3>17
  <2> QED BY <2>4, <2>11, <2>12
<1> QED BY <1>2, <1>3

LEMMA NextKeepsHashes == (HInv /\ [Next]_vars) => HInv'
<1> SUFFICES ASSUME HInv, [Next]_vars PROVE HInv'
  OBVIOUS
<1>1. IInv'
  BY NextKeeps DEF HInv
<1>2. CASE \E f \in DOMAIN disk : OpenSourceFile(f)
  BY <1>1, <1>2, OpenSourceFileHashes DEF HInv
<1>3. CASE Parse \/ CheckBasepath \/ ComputeSizes
  BY <1>1, <1>3, SizingHashes DEF HInv
<1>4. CASE CreateMainPacket \/ ComputeRSMatrix \/ ReadBlock \/ EndPass
  BY <1>1, <1>4, CreateMainPacketHashes, ComputeRSMatrixHashes, ReadBlockHashes, EndPassHashes DEF HInv
<1>5. CASE FinishFileHashComputation \/ CloseFiles \/ SourceChanges
  BY <1>1, <1>5, FinishHashes, CloseFilesHashes, SourceChangesHashes DEF HInv
<1>6. CASE CreateFile \/ WriteData \/ WriteHeader \/ WriteCriticalPacket \/ UNCHANGED vars
  BY <1>1, <1>6, OtherHashes DEF HInv
<1> QED BY <1>2, <1>3, <1>4, <1>5, <1>6 DEF Next, Create

LEMMA PrefixByPlaces ==
  ASSUME NEW S, NEW s \in Seq(S), NEW t \in Seq(S), Len(s) <= Len(t), \A p \in 1 .. Len(s) : s[p] = t[p]
  PROVE  IsPrefix(s, t)
<1> DEFINE one == 1
           n == Len(s)
           a == SubSeq(s, one, n)
           b == SubSeq(t, one, n)
<1>1. /\ n \in Nat /\ one = 1 /\ n - one + 1 = n /\ one \in 1 .. Len(s) + 1 /\ one \in 1 .. Len(t) + 1
      /\ n \in one - 1 .. Len(s) /\ n \in one - 1 .. Len(t)
  OBVIOUS
<1> HIDE DEF one, n
<1>2. a \in Seq(S) /\ Len(a) = n - one + 1 /\ \A p \in 1 .. n - one + 1 : a[p] = s[one + p - 1]
  BY <1>1, PartFacts
<1>3. b \in Seq(S) /\ Len(b) = n - one + 1 /\ \A p \in 1 .. n - one + 1 : b[p] = t[one + p - 1]
  BY <1>1, PartFacts
<1> HIDE DEF a, b
<1>4. ASSUME NEW p \in 1 .. n PROVE a[p] = b[p]
  <2>1. one + p - 1 = p /\ p \in 1 .. n - one + 1
    BY <1>1
  <2>2. a[p] = s[p] /\ b[p] = t[p]
    BY <1>2, <1>3, <2>1
  <2> QED BY <2>2 DEF n
<1>5. a = b
  BY <1>1, <1>2, <1>3, <1>4
<1> QED BY <1>1, <1>5 DEF IsPrefix, a, b, n, one

LEMMA WhatHashesAre == HInv => HashesAgree
<1> SUFFICES ASSUME HInv, result = "Success", NEW f \in DOMAIN disk
             PROVE  /\ descriptions[f].hashfull = SubSeq(FlattenSeq(verifications[f]), 1, Len(disk[f]))
                    /\ changes = 0 => IsPrefix(descriptions[f].hash16k, descriptions[f].hashfull)
  BY DEF HashesAgree
<1>1. Shape /\ AllRead /\ Ordered /\ descriptions[f].hashfull \in Seq(Field) /\ Complete(f) /\ AsOnDisk
  BY DEF HInv, IInv, Finished
<1>2. ToSet(sourcefiles) = DOMAIN disk
  <2>1. IsFiniteSet(DOMAIN disk)
    BY <1>1, CreatorAssumption DEF Shape
  <2> QED BY <1>1, <2>1, OrderFacts DEF Ordered
<1>3. blocksize \in Nat \ {0}
  <2>1. sourcefiles # <<>>
    BY <1>2 DEF ToSet
  <2> QED BY <1>1, <2>1 DEF Shape
<1> DEFINE hash == descriptions[f].hashfull
           words == verifications[f]
           n == BlockCount(f)
           length == Len(disk[f])
<1>4. n \in Nat \ {0} /\ length \in Nat /\ disk[f] \in Seq(Field)
  BY <1>1, <1>3, BlockCounts DEF Shape
<1>5. length <= n * blocksize /\ n * blocksize \in Nat
  <2>1. n = Ceil(length, blocksize)
    BY DEF BlockCount
  <2> HIDE DEF n, length
  <2> QED BY <1>3, <1>4, <2>1, BlocksCover
<1>6. words \in Seq(Seq(Field)) /\ EvenlyLong(words, n, blocksize)
  <2> DEFINE W == Words
             U == Seq(Field)
  <2>1. words \in [1 .. n -> W]
    BY <1>1 DEF AllRead
  <2>2. \A w \in W : w \in U /\ Len(w) = blocksize
    <3> HIDE DEF Field
    <3> QED BY <1>3 DEF Words
  <2> HIDE DEF W, U, n, words
  <2>3. words \in Seq(U) /\ Len(words) = n /\ \A i \in 1 .. n : Len(words[i]) = blocksize
    <3>1. \A i \in 1 .. n : words[i] \in U /\ Len(words[i]) = blocksize
      BY <2>1, <2>2
    <3>2. words \in [1 .. n -> U]
      BY <2>1, <3>1
    <3> QED BY <1>4, <3>1, <3>2
  <2> QED BY <2>3 DEF EvenlyLong, U
<1>7. hash \in Seq(Field) /\ Spells(hash, words, blocksize, n, length)
  BY <1>1 DEF Complete, HashIsOf
<1> HIDE DEF hash, words, n, length
<1>8. hash = SubSeq(FlattenSeq(words), 1, length)
  <2>1. ASSUME NEW S, words \in Seq(Seq(S)), hash \in Seq(S)
        PROVE  hash = SubSeq(FlattenSeq(words), 1, length)
    BY <1>3, <1>4, <1>5, <1>6, <1>7, <2>1, SpellsAll
  <2> HIDE DEF Field
  <2> QED BY <1>6, <1>7, <2>1
<1>9. Len(hash) = length
  <2> DEFINE all == n * blocksize
  <2> HIDE DEF all
  <2>1. Len(hash) = Least(length, all) /\ length <= all /\ all \in Nat
    BY <1>5, <1>7 DEF Spells, all
  <2> QED BY <1>4, <2>1 DEF Least
<1>10. ASSUME changes = 0 PROVE IsPrefix(descriptions[f].hash16k, hash)
  <2> DEFINE s == descriptions[f].hash16k
             t == disk[f]
  <2>1. hash # None
    BY <1>7, NoneAssumption
  <2>2. Begins(s, t) /\ Begins(hash, t)
    BY <1>1, <1>2, <1>10, <2>1 DEF AsOnDisk, hash
  <2> HIDE DEF s
  <2>3. s \in Seq(Field) /\ Len(s) <= Len(hash) /\ Len(s) \in Nat /\ Len(hash) \in Nat
    BY <1>7, <1>9, <2>2 DEF Begins, length
  <2>4. \A p \in 1 .. Len(s) : s[p] = hash[p]
    <3> TAKE p \in 1 .. Len(s)
    <3>1. p \in 1 .. Len(hash)
      BY <2>3
    <3>2. s[p] = t[p] /\ hash[p] = t[p]
      BY <2>2, <3>1 DEF Begins
    <3> QED BY <3>2
  <2>5. IsPrefix(s, hash)
    BY <1>7, <2>3, <2>4, PrefixByPlaces
  <2> QED BY <2>5 DEF s
<1> QED BY <1>8, <1>10 DEF hash, words, length

(* The hash that is stored of a file is of the very bytes that the hashes  *)
(* of its blocks are of, in their order and without the padding of the     *)
(* last, whether they are computed when the file is opened or block by     *)
(* block as a pass over all the files reads them, and whatever other       *)
(* programs write meanwhile; and the first hash is of its first bytes if   *)
(* they write nothing.                                                     *)
THEOREM HashesAreRight == Spec => []HashesAgree
<1>1. Spec => []HInv
  BY HashesStart, NextKeepsHashes, PTL DEF Spec
<1> QED BY <1>1, WhatHashesAre, PTL

-----------------------------------------------------------------------------
(* BlockSizeFits, in every state.                                          *)
SizeFits ==
  (blocksize # 0 /\ ask.blocksize = None /\ ask.blockcount # None) =>
    FitsCount(FileSizes, ask.blockcount, blocksize)

LEMMA SizedFiles ==
  ASSUME Shape
  PROVE  /\ IsFiniteSet(DOMAIN disk) /\ DOMAIN disk # {} /\ FileSizes \in [DOMAIN disk -> Nat \ {0}]
         /\ ask.blockcount \in Nat \union {None}
<1>1. ask \in Asks /\ disk \in [DOMAIN disk -> Seq(Field) \ {<<>>}]
  BY DEF Shape
<1>2. IsFiniteSet(DOMAIN disk) /\ DOMAIN disk # {} /\ ask.blockcount \in Nat \union {None}
  BY <1>1, CreatorAssumption DEF Shape
<1>3. \A f \in DOMAIN disk : Len(disk[f]) \in Nat \ {0}
  <2> TAKE f \in DOMAIN disk
  <2>1. disk[f] \in Seq(Field) /\ disk[f] # <<>>
    BY <1>1
  <2> QED BY <2>1
<1> QED BY <1>2, <1>3 DEF FileSizes

LEMMA FilesKeepTheirSizes ==
  ASSUME Shape, [Next]_vars
  PROVE  ask' = ask /\ FileSizes' = FileSizes
<1>1. CASE SourceChanges
  <2>1. ask' = ask
    BY <1>1 DEF SourceChanges
  <2> QED BY <1>1, <2>1, ChangedDisk DEF FileSizes
<1>2. CASE ~SourceChanges
  <2>1. UNCHANGED input
    BY <1>2 DEF Next, Create, vars, Parse, CheckBasepath, ComputeSizes, CreateMainPacket, CreateFile, ComputeRSMatrix,
       ReadBlock, WriteData, EndPass, WriteHeader, FinishFileHashComputation, WriteCriticalPacket, CloseFiles,
       OpenSourceFile
  <2> QED BY <2>1 DEF input, FileSizes
<1> QED BY <1>1, <1>2

LEMMA ParseFits == (IInv /\ SizeFits /\ Parse) => SizeFits'
<1> SUFFICES ASSUME IInv, SizeFits, Parse PROVE SizeFits'
  OBVIOUS
<1>1. Shape
  BY DEF IInv
<1>2. ask' = ask /\ FileSizes' = FileSizes
  BY <1>1, FilesKeepTheirSizes DEF Next, Create
<1>3. CASE blocksize' = blocksize
  BY <1>2, <1>3 DEF SizeFits, FitsCount
<1>4. CASE blocksize' # blocksize
  <2> DEFINE size == IF ask.blocksize # None THEN ask.blocksize
                     ELSE IF ask.blockcount # None THEN ComputeBlockSize(FileSizes, ask.blockcount)
                     ELSE DefaultBlockSize(FileSizes)
  <2>1. blocksize' = size /\ size # None
    BY <1>4 DEF Parse, sizes
  <2>2. SUFFICES ASSUME ask.blocksize = None, ask.blockcount # None
                 PROVE  FitsCount(FileSizes, ask.blockcount, size)
    <3> HIDE DEF size
    <3> QED BY <1>2, <2>1, <2>2 DEF SizeFits, FitsCount
  <2>3. size = ComputeBlockSize(FileSizes, ask.blockcount)
    BY <2>2
  <2> DEFINE sized == FileSizes
             count == ask.blockcount
             F == DOMAIN disk
  <2>4. /\ IsFiniteSet(F) /\ F # {} /\ sized \in [F -> Nat \ {0}] /\ count \in Nat
        /\ size = ComputeBlockSize(sized, count)
    BY <1>1, <2>2, <2>3, SizedFiles
  <2> HIDE DEF size, sized, count, F
  <2>5. FitsCount(sized, count, size)
    BY <2>1, <2>4, ComputeBlockSizeFits
  <2> QED BY <2>5 DEF sized, count
<1> QED BY <1>3, <1>4

LEMMA SizeFitsKeeps == (IInv /\ SizeFits /\ [Next]_vars) => SizeFits'
<1> SUFFICES ASSUME IInv, SizeFits, [Next]_vars PROVE SizeFits'
  OBVIOUS
<1>1. CASE Parse
  BY <1>1, ParseFits
<1>2. CASE ~Parse
  <2>1. blocksize' = blocksize
    BY <1>2 DEF Next, Create, vars, sizes, CheckBasepath, ComputeSizes, CreateMainPacket, CreateFile, ComputeRSMatrix,
       ReadBlock, WriteData, EndPass, WriteHeader, FinishFileHashComputation, WriteCriticalPacket, CloseFiles,
       OpenSourceFile, SourceChanges
  <2>2. ask' = ask /\ FileSizes' = FileSizes
    BY FilesKeepTheirSizes DEF IInv
  <2> QED BY <2>1, <2>2 DEF SizeFits, FitsCount
<1> QED BY <1>1, <1>2

(* With a number of blocks asked for, whatever the files: the block size   *)
(* that the command line computes is the smallest multiple of Align with   *)
(* which there are no more, for one block for each file, for blocks of a   *)
(* word and for what the bisection finds between its two estimates,        *)
(* neither of which it tries.  The files keep their sizes, so it stays so. *)
THEOREM BlockSizeIsLeast == Spec => []BlockSizeFits
<1>1. Init => SizeFits
  BY DEF Init, SizeFits
<1>2. SizeFits => BlockSizeFits
  BY DEF SizeFits, BlockSizeFits, FitsCount
<1> QED BY <1>1, <1>2, InitHolds, NextKeeps, SizeFitsKeeps, PTL DEF Spec

=============================================================================
