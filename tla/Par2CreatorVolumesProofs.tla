---------------------- MODULE Par2CreatorVolumesProofs ----------------------
(***************************************************************************)
(* How the recovery blocks of a set come to be in its files, for any number *)
(* of blocks and files and each scheme: the counts of the volumes add up   *)
(* (RecoveryFiles), a volume has the packets its name says, and the plan is *)
(* kept from InitialiseOutputFiles to the end of a creation (Par2Creator). *)
(***************************************************************************)
EXTENDS Par2CreatorProofs

-----------------------------------------------------------------------------
(* Powers of two, and the bits of a number.                                *)

LEMMA BitFacts ==
  Bit[0] = 1 /\ \A n \in Nat : Bit[n] \in Nat \ {0} /\ Bit[n + 1] = 2 * Bit[n]
<1> DEFINE Funs == [Nat -> Nat]
           size == [n \in Nat |-> n]
           base == [n \in Nat |-> 0]
           step == [h \in Funs |-> [n \in Nat |-> IF n = 0 THEN 1 ELSE 2 * h[n - 1]]]
<1>1. base \in Funs /\ size \in [Nat -> Nat]
  OBVIOUS
<1>2. \A n \in Nat : n # 0 => n - 1 \in Nat /\ n - 1 < n
  OBVIOUS
<1>3. step \in [Funs -> Funs]
  <2>1. ASSUME NEW h \in Funs, NEW n \in Nat PROVE (IF n = 0 THEN 1 ELSE 2 * h[n - 1]) \in Nat
    <3>1. n # 0 => h[n - 1] \in Nat
      BY <1>2
    <3> QED BY <3>1
  <2> QED BY <2>1
<1>4. ASSUME NEW f \in Funs, NEW g \in Funs, NEW n \in Nat, Agree(f, g, Nat, size, size[n])
      PROVE  step[f][n] = step[g][n]
  <2>1. n # 0 => f[n - 1] = g[n - 1]
    BY <1>2, <1>4 DEF Agree
  <2> QED BY <2>1
<1>5. \A h \in Funs : step[h] = [n \in Nat |-> IF n = 0 THEN 1 ELSE 2 * h[n - 1]]
  OBVIOUS
<1> HIDE DEF size, base, step
<1>6. PICK h \in Funs : Solves(h, step)
  <2>1. Approximates(step, Nat, Nat, size)
    BY <1>4 DEF Approximates
  <2> QED BY <1>1, <1>3, <2>1, Recursion
<1>7. h = [n \in Nat |-> IF n = 0 THEN 1 ELSE 2 * h[n - 1]]
  BY <1>5, <1>6 DEF Solves
<1>8. Bit = [n \in Nat |-> IF n = 0 THEN 1 ELSE 2 * Bit[n - 1]]
  BY <1>7 DEF Bit
<1>9. Bit[0] = 1 /\ \A n \in Nat : Bit[n + 1] = 2 * Bit[n]
  BY <1>8
<1> DEFINE P == {n \in Nat : Bit[n] \in Nat \ {0}}
<1>10. P = Nat
  <2>1. 0 \in P
    BY <1>9
  <2>2. ASSUME NEW n \in P PROVE n + 1 \in P
    BY <1>9
  <2> HIDE DEF P
  <2>3. P \in SUBSET Nat
    BY DEF P
  <2> QED BY <2>1, <2>2, <2>3, Induction
<1>11. \A n \in Nat : Bit[n] \in Nat \ {0}
  <2> SUFFICES ASSUME NEW n \in Nat PROVE Bit[n] \in Nat \ {0}
    OBVIOUS
  <2>1. n \in P
    BY <1>10
  <2> QED BY <2>1
<1> HIDE DEF P
<1> QED BY <1>9, <1>11

LEMMA BitsGrow ==
  ASSUME NEW m \in Nat, NEW n \in Nat, m <= n
  PROVE  Bit[m] <= Bit[n]
<1> DEFINE P == {k \in Nat : Bit[m] <= Bit[m + k]}
<1>1. 0 \in P
  BY BitFacts
<1>2. ASSUME NEW k \in P PROVE k + 1 \in P
  <2>1. m + k \in Nat /\ m + (k + 1) = (m + k) + 1
    OBVIOUS
  <2>2. Bit[m] \in Nat /\ Bit[m + k] \in Nat /\ Bit[(m + k) + 1] = 2 * Bit[m + k]
    BY <2>1, BitFacts
  <2> QED BY <2>1, <2>2
<1>3. P = Nat
  <2> HIDE DEF P
  <2>1. P \in SUBSET Nat
    BY DEF P
  <2> QED BY <1>1, <1>2, <2>1, Induction
<1>4. n - m \in Nat /\ m + (n - m) = n
  OBVIOUS
<1>5. n - m \in P
  BY <1>3, <1>4
<1> QED BY <1>4, <1>5

(* A number has as many bits as the powers of two it lies between say.     *)
LEMMA BitCountBounds ==
  ASSUME NEW n \in Nat \ {0}
  PROVE  /\ BitCount[n] \in Nat \ {0}
         /\ Bit[BitCount[n] - 1] <= n /\ n < Bit[BitCount[n]]
<1> DEFINE Right(m) == BitCount[m] \in Nat \ {0} /\ Bit[BitCount[m] - 1] <= m /\ m < Bit[BitCount[m]]
           Q == {m \in Nat \ {0} : ~Right(m)}
<1>1. SUFFICES ASSUME Q # {} PROVE FALSE
  OBVIOUS
<1> HIDE DEF Q
<1>2. PICK m \in Q : \A k \in Q : m <= k
  <2>1. Q \in SUBSET Nat
    BY DEF Q
  <2> QED BY <1>1, <2>1, LeastNumber
<1>3. m \in Nat \ {0} /\ ~Right(m)
  BY DEF Q
<1>4. BitCount[m] = 1 + BitCount[m \div 2]
  BY <1>3, BitCountFacts
<1>5. CASE m = 1
  <2>1. m \div 2 = 0
    BY <1>5
  <2>2. BitCount[m] = 1
    BY <1>4, <2>1, BitCountFacts
  <2>3. Bit[0] = 1 /\ Bit[1] = 2
    <3>1. Bit[0 + 1] = 2 * Bit[0] /\ Bit[0] = 1
      BY BitFacts
    <3> QED BY <3>1
  <2> QED BY <1>3, <1>5, <2>2, <2>3
<1>6. CASE m # 1
  <2> DEFINE h == m \div 2
             k == BitCount[h]
  <2>1. h \in Nat \ {0} /\ h < m /\ 2 * h <= m /\ m < 2 * h + 2
    BY <1>3, <1>6
  <2> HIDE DEF h
  <2>2. Right(h)
    BY <1>2, <1>3, <2>1 DEF Q
  <2>3. k \in Nat \ {0} /\ Bit[k - 1] <= h /\ h < Bit[k]
    BY <2>2
  <2>4. BitCount[m] = k + 1
    BY <1>4, <2>3 DEF h
  <2> HIDE DEF k
  <2>5. k - 1 \in Nat /\ k + 1 \in Nat \ {0} /\ (k - 1) + 1 = k /\ (k + 1) - 1 = k
    BY <2>3
  <2>6. Bit[k] = 2 * Bit[k - 1] /\ Bit[k + 1] = 2 * Bit[k] /\ Bit[k] \in Nat /\ Bit[k - 1] \in Nat
    BY <2>3, <2>5, BitFacts
  <2>7. Bit[k] <= m /\ m < Bit[k + 1]
    BY <1>3, <2>1, <2>3, <2>6
  <2> QED BY <1>3, <2>4, <2>5, <2>7
<1> QED BY <1>5, <1>6

-----------------------------------------------------------------------------
(* The running total of a sequence of numbers.                             *)
Totals(t, c, n) == t[0] = 0 /\ \A i \in 1 .. n : t[i] = t[i - 1] + c[i]

LEMMA RunningFacts ==
  ASSUME NEW c \in Seq(Nat)
  PROVE  /\ Totals(Running(c), c, Len(c))
         /\ \A i \in 0 .. Len(c) : Running(c)[i] \in Nat
<1> DEFINE N == Len(c)
           step == [n \in Nat |-> [x \in Nat |-> IF n + 1 \in 1 .. N THEN x + c[n + 1] ELSE x]]
           Defined(f) == f = [n \in 0 .. N |-> IF n = 0 THEN 0 ELSE f[n - 1] + c[n]]
<1>1. N \in Nat /\ \A i \in 1 .. N : c[i] \in Nat
  OBVIOUS
<1>2. step \in [Nat -> [Nat -> Nat]]
  BY <1>1
<1>3. PICK h \in [Nat -> Nat] : Iterates(h, 0, step)
  <2> HIDE DEF step
  <2> QED BY <1>2, Iteration
<1> DEFINE total == [i \in 0 .. N |-> h[i]]
<1>4. total[0] = 0 /\ \A i \in 0 .. N : total[i] \in Nat
  BY <1>1, <1>3 DEF Iterates
<1>5. ASSUME NEW i \in 1 .. N PROVE total[i] = total[i - 1] + c[i]
  <2>1. i - 1 \in Nat /\ (i - 1) + 1 = i /\ i \in 0 .. N /\ i - 1 \in 0 .. N
    BY <1>1
  <2>2. h[i] = step[i - 1][h[i - 1]] /\ h[i - 1] \in Nat
    BY <1>3, <2>1 DEF Iterates
  <2>3. step[i - 1][h[i - 1]] = h[i - 1] + c[i]
    BY <2>1, <2>2
  <2> HIDE DEF step
  <2> QED BY <2>1, <2>2, <2>3
<1>6. Defined(total)
  <2>1. \A i \in 0 .. N : i # 0 => i \in 1 .. N
    BY <1>1
  <2>2. total = [i \in 0 .. N |-> total[i]]
    OBVIOUS
  <2> HIDE DEF total, N
  <2> QED BY <1>4, <1>5, <2>1, <2>2
<1>7. Defined(Running(c))
  <2> HIDE DEF total
  <2> QED BY <1>6 DEF Running
<1> DEFINE r == Running(c)
           P == {i \in 0 .. N : r[i] \in Nat}
<1> HIDE DEF N, r
<1>8. r[0] = 0 /\ \A i \in 1 .. N : r[i] = r[i - 1] + c[i]
  <2>1. \A i \in 1 .. N : i \in 0 .. N /\ i # 0
    BY <1>1
  <2>2. 0 \in 0 .. N
    BY <1>1
  <2> QED BY <1>7, <2>1, <2>2 DEF r
<1>9. \A i \in 0 .. N : r[i] \in Nat
  <2>1. 0 \in P
    BY <1>1, <1>8
  <2>2. ASSUME NEW i \in P, i < N PROVE i + 1 \in P
    <3>1. i + 1 \in 1 .. N /\ i + 1 \in 0 .. N /\ (i + 1) - 1 = i /\ r[i] \in Nat
      BY <1>1, <2>2
    <3>2. r[i + 1] = r[i] + c[i + 1] /\ c[i + 1] \in Nat
      BY <1>1, <1>8, <3>1
    <3>3. \A x, y \in Nat : x + y \in Nat
      OBVIOUS
    <3>4. r[i + 1] \in Nat
      BY <3>1, <3>2, <3>3, Zenon
    <3> QED BY <3>1, <3>4
  <2>3. P \in SUBSET (0 .. N)
    OBVIOUS
  <2> HIDE DEF P
  <2>4. P = 0 .. N
    BY <1>1, <2>1, <2>2, <2>3, InductionUpTo
  <2> QED BY <2>4 DEF P
<1> QED BY <1>8, <1>9 DEF r, N, Totals

(* Running totals of the same numbers are the same.                        *)
LEMMA TotalsAgree ==
  ASSUME NEW n \in Nat, NEW c, NEW d, NEW t, NEW u, Totals(t, c, n), Totals(u, d, n),
         \A i \in 1 .. n : c[i] = d[i]
  PROVE  \A i \in 0 .. n : t[i] = u[i]
<1> DEFINE P == {i \in 0 .. n : t[i] = u[i]}
<1>1. 0 \in P
  BY DEF Totals
<1>2. ASSUME NEW i \in P, i < n PROVE i + 1 \in P
  <2>1. i + 1 \in 1 .. n /\ i + 1 \in 0 .. n /\ (i + 1) - 1 = i /\ t[i] = u[i]
    BY <1>2
  <2> QED BY <2>1 DEF Totals
<1>3. P \in SUBSET (0 .. n)
  OBVIOUS
<1> HIDE DEF P
<1>4. P = 0 .. n
  BY <1>1, <1>2, <1>3, InductionUpTo
<1> QED BY <1>4 DEF P

-----------------------------------------------------------------------------
(* The counts of the volumes, by the scheme.                               *)

(* The counts of so many volumes, none empty, for so many blocks.          *)
Fills(t, counts, number, blocks) ==
  /\ counts \in Seq(Nat \ {0}) /\ Len(counts) = number
  /\ Totals(t, counts, number) /\ t[number] = blocks
Filled(counts, number, blocks) == \E t : Fills(t, counts, number, blocks)

(* Volumes that are as even as they can be.                                *)
LEMMA UniformFills ==
  ASSUME NEW blocks \in Nat, NEW number \in Nat \ {0}, number <= blocks
  PROVE  /\ Filled(Uniform(blocks, number), number, blocks)
         /\ \A m, n \in 1 .. number : Uniform(blocks, number)[m] <= Uniform(blocks, number)[n] + 1
<1> DEFINE q == blocks \div number
           r == blocks % number
           c == [n \in 1 .. number |-> IF n <= r THEN q + 1 ELSE q]
           t == [n \in 0 .. number |-> n * q + Least(n, r)]
<1>1. q \in Nat /\ r \in 0 .. number - 1 /\ blocks = number * q + r
  OBVIOUS
<1>2. q # 0
  <2>1. SUFFICES ASSUME q = 0 PROVE FALSE
    OBVIOUS
  <2>2. number * q = 0
    BY <2>1
  <2> HIDE DEF q, r
  <2> QED BY <1>1, <2>2
<1>3. Uniform(blocks, number) = c
  BY DEF Uniform
<1> HIDE DEF q, r
<1>4. \A n \in 1 .. number : c[n] \in Nat \ {0} /\ c[n] >= q /\ c[n] <= q + 1
  BY <1>1, <1>2
<1>5. c \in Seq(Nat \ {0}) /\ Len(c) = number
  BY <1>4
<1>6. ASSUME NEW i \in 1 .. number PROVE t[i] = t[i - 1] + c[i]
  <2>1. i \in 0 .. number /\ i - 1 \in 0 .. number /\ (i - 1) * q = i * q - q /\ i * q \in Nat
    BY <1>1
  <2>2. Least(i, r) = Least(i - 1, r) + IF i <= r THEN 1 ELSE 0
    BY <1>1 DEF Least
  <2>3. Least(i - 1, r) \in Nat
    BY <1>1 DEF Least
  <2>4. t[i] = i * q + Least(i, r) /\ t[i - 1] = (i - 1) * q + Least(i - 1, r)
    BY <2>1
  <2>5. c[i] = q + IF i <= r THEN 1 ELSE 0
    BY <1>1
  <2> DEFINE iq == i * q
             before == Least(i - 1, r)
  <2> HIDE DEF t, c, iq, before
  <2> QED BY <1>1, <2>1, <2>2, <2>3, <2>4, <2>5 DEF iq, before
<1>7. t[0] = 0
  <2>1. 0 \in 0 .. number /\ 0 * q = 0 /\ Least(0, r) = 0
    BY <1>1 DEF Least
  <2> QED BY <2>1
<1>8. t[number] = blocks
  <2>1. Least(number, r) = r /\ number \in 0 .. number
    BY <1>1 DEF Least
  <2> QED BY <1>1, <2>1
<1> HIDE DEF t, c
<1>9. Fills(t, c, number, blocks)
  BY <1>5, <1>6, <1>7, <1>8 DEF Fills, Totals
<1>10. \A m, n \in 1 .. number : c[m] <= c[n] + 1
  BY <1>1, <1>4
<1> QED BY <1>3, <1>9, <1>10 DEF Filled

(* With as many files as the number of blocks has bits, the last takes     *)
(* what is left, and that is something.                                    *)
LEMMA DoublingFills ==
  ASSUME NEW blocks \in Nat, NEW number \in Nat \ {0}, Bit[number - 1] <= blocks, blocks < Bit[number]
  PROVE  /\ Filled(Doubling(1, blocks, number), number, blocks)
         /\ \A n \in 1 .. number :
              /\ Doubling(1, blocks, number)[n] <= Bit[n - 1]
              /\ Doubling(1, blocks, number)[n] <= blocks - (Bit[n - 1] - 1)
<1> DEFINE c == Doubling(1, blocks, number)
           t == [n \in 0 .. number |-> Least(blocks, Bit[n] - 1)]
<1>1. ASSUME NEW n \in 1 .. number
      PROVE  /\ c[n] = Least(Bit[n - 1], blocks - (Bit[n - 1] - 1)) /\ c[n] \in Nat \ {0}
             /\ Bit[n - 1] \in Nat \ {0} /\ Bit[n] = 2 * Bit[n - 1]
  <2> DEFINE b == Bit[n - 1]
             least == Least(b, blocks - (b - 1))
             zero == 0
  <2>1. n - 1 \in Nat /\ number - 1 \in Nat /\ n - 1 <= number - 1 /\ (n - 1) + 1 = n
    OBVIOUS
  <2>2. b \in Nat \ {0} /\ b <= Bit[number - 1] /\ Bit[number - 1] \in Nat /\ Bit[n] = 2 * b
    BY <2>1, BitFacts, BitsGrow
  <2>3. c[n] = Max({0, Least(1 * b, blocks - 1 * (b - 1))})
    BY DEF Doubling
  <2> HIDE DEF b, c
  <2>4. 1 * b = b /\ 1 * (b - 1) = b - 1
    BY <2>2
  <2>5. least \in Nat \ {0}
    BY <2>2 DEF Least
  <2>6. c[n] = Max({zero, least})
    BY <2>3, <2>4
  <2>7. Max({zero, least}) \in {zero, least} /\ least <= Max({zero, least})
    <3>1. zero \in Int /\ least \in Int
      BY <2>5
    <3> HIDE DEF zero, least
    <3> QED BY <3>1, MaxOfTwo
  <2>8. c[n] = least
    <3> HIDE DEF least
    <3> QED BY <2>5, <2>6, <2>7
  <2> QED BY <2>2, <2>5, <2>8 DEF b
<1>2. c = [n \in 1 .. number |-> c[n]]
  BY DEF Doubling
<1> HIDE DEF c
<1>3. c \in Seq(Nat \ {0}) /\ Len(c) = number
  <2>1. c \in [1 .. number -> Nat \ {0}]
    BY <1>1, <1>2
  <2> QED BY <2>1
<1>4. ASSUME NEW i \in 1 .. number PROVE t[i] = t[i - 1] + c[i]
  <2>1. i \in 0 .. number /\ i - 1 \in 0 .. number
    OBVIOUS
  <2>2. t[i] = Least(blocks, Bit[i] - 1) /\ t[i - 1] = Least(blocks, Bit[i - 1] - 1)
    BY <2>1
  <2> HIDE DEF t
  <2> QED BY <1>1, <2>2 DEF Least
<1>5. t[0] = 0
  BY BitFacts DEF Least
<1>6. t[number] = blocks
  <2>1. Bit[number] \in Nat
    BY BitFacts
  <2> QED BY <2>1 DEF Least
<1> HIDE DEF t
<1>7. Fills(t, c, number, blocks)
  BY <1>3, <1>4, <1>5, <1>6 DEF Fills, Totals
<1>8. ASSUME NEW n \in 1 .. number PROVE c[n] <= Bit[n - 1] /\ c[n] <= blocks - (Bit[n - 1] - 1)
  BY <1>1 DEF Least
<1> QED BY <1>7, <1>8 DEF Filled, c

(* Then the first file has one block.                                      *)
LEMMA VariableIsDoubling ==
  ASSUME NEW blocks \in Nat, NEW number \in Nat \ {0}, blocks < Bit[number]
  PROVE  Variable(blocks, number) = Doubling(1, blocks, number)
<1> DEFINE enough == {i \in 0 .. 16 : (Bit[number] - 1) * Bit[i] >= blocks}
           S == {Bit[i] : i \in enough}
<1>1. 1 \in S
  <2>1. Bit[0] = 1 /\ Bit[number] \in Nat
    BY BitFacts
  <2>2. (Bit[number] - 1) * 1 = Bit[number] - 1
    BY <2>1
  <2>3. 0 \in enough
    BY <2>1, <2>2
  <2> QED BY <2>1, <2>3
<1>2. \A y \in S : y \in Nat /\ 1 <= y
  <2> SUFFICES ASSUME NEW i \in enough PROVE Bit[i] \in Nat /\ 1 <= Bit[i]
    OBVIOUS
  <2>1. i \in Nat
    OBVIOUS
  <2> QED BY <2>1, BitFacts
<1> HIDE DEF S
<1>3. Min(S) \in S /\ \A y \in S : Min(S) <= y
  <2>1. \E x \in S : \A y \in S : x <= y
    BY <1>1, <1>2
  <2> QED BY <2>1 DEF Min
<1>4. Min(S) = 1
  BY <1>1, <1>2, <1>3
<1> QED BY <1>4 DEF Variable, S

AndLargest(c, top, largest) == c \o [n \in 1 .. top |-> largest]

(* Volumes of the largest size after others.                               *)
LEMMA LargestAppended ==
  ASSUME NEW c, NEW k \in Nat, NEW rest \in Nat, Filled(c, k, rest), NEW top \in Nat, NEW largest \in Nat \ {0}
  PROVE  /\ Filled(AndLargest(c, top, largest), k + top, rest + top * largest)
         /\ \A n \in 1 .. k + top : AndLargest(c, top, largest)[n] = IF n <= k THEN c[n] ELSE largest
<1> DEFINE d == [n \in 1 .. top |-> largest]
           both == c \o d
           N == k + top
<1>1. PICK t : Fills(t, c, k, rest)
  BY DEF Filled
<1>2. /\ c \in Seq(Nat \ {0}) /\ Len(c) = k /\ t[0] = 0 /\ t[k] = rest
      /\ \A i \in 1 .. k : t[i] = t[i - 1] + c[i]
  BY <1>1 DEF Fills, Totals
<1>3. d \in Seq(Nat \ {0}) /\ Len(d) = top /\ \A n \in 1 .. top : d[n] = largest
  OBVIOUS
<1> HIDE DEF d
<1>4. both \in Seq(Nat \ {0}) /\ Len(both) = N
  BY <1>2, <1>3, ConcatProperties
<1>5. \A n \in 1 .. N : both[n] = IF n <= k THEN c[n] ELSE largest
  <2> TAKE n \in 1 .. N
  <2>1. n <= k => n \in 1 .. k
    OBVIOUS
  <2>2. n > k => n - k \in 1 .. top
    OBVIOUS
  <2> QED BY <1>2, <1>3, <2>1, <2>2
<1> DEFINE u == [n \in 0 .. N |-> IF n <= k THEN t[n] ELSE rest + (n - k) * largest]
<1> HIDE DEF both
<1>6. ASSUME NEW i \in 1 .. N PROVE u[i] = u[i - 1] + both[i]
  <2>1. i \in 0 .. N /\ i - 1 \in 0 .. N
    OBVIOUS
  <2>2. u[i] = (IF i <= k THEN t[i] ELSE rest + (i - k) * largest)
        /\ u[i - 1] = (IF i - 1 <= k THEN t[i - 1] ELSE rest + (i - 1 - k) * largest)
    BY <2>1
  <2> HIDE DEF u
  <2>3. CASE i <= k
    <3>1. i \in 1 .. k
      BY <2>3
    <3> QED BY <1>2, <1>5, <2>2, <2>3, <3>1
  <2>4. CASE i = k + 1
    <3>1. u[i] = rest + 1 * largest /\ u[i - 1] = rest /\ both[i] = largest
      BY <1>2, <1>5, <2>2, <2>4
    <3> QED BY <3>1
  <2>5. CASE i > k + 1
    <3> DEFINE x == i - 1 - k
    <3>1. x \in Nat /\ i - k = x + 1
      BY <2>5
    <3>2. (x + 1) * largest = x * largest + largest /\ x * largest \in Nat
      BY <3>1
    <3>3. u[i] = rest + (x + 1) * largest /\ u[i - 1] = rest + x * largest /\ both[i] = largest
      BY <1>5, <2>2, <2>5, <3>1
    <3> HIDE DEF x
    <3> QED BY <3>2, <3>3
  <2> QED BY <2>3, <2>4, <2>5
<1>7. u[0] = 0
  BY <1>2
<1>8. u[N] = rest + top * largest
  <2>1. CASE top = 0
    <3>1. N = k /\ N \in 0 .. N /\ top * largest = 0
      BY <2>1
    <3> QED BY <1>2, <3>1
  <2>2. CASE top # 0
    <3>1. ~(N <= k) /\ N \in 0 .. N /\ N - k = top
      BY <2>2
    <3> QED BY <3>1
  <2> QED BY <2>1, <2>2
<1> HIDE DEF u
<1>9. Fills(u, both, N, rest + top * largest)
  BY <1>4, <1>6, <1>7, <1>8 DEF Fills, Totals
<1> QED BY <1>5, <1>9 DEF Filled, both, d, AndLargest

(* Doubling volumes, then volumes of the largest size.                     *)
LEMMA LimitedFills ==
  ASSUME NEW blocks \in Nat \ {0}, NEW largest \in Nat \ {0}, NEW number,
         number = ComputeRecoveryFileCount("Limited", 0, blocks, largest)
  PROVE  /\ number \in Nat /\ Filled(Limited(blocks, number, largest), number, blocks)
         /\ \A n \in 1 .. number : Limited(blocks, number, largest)[n] <= largest
<1> DEFINE whole == Max({0, blocks \div largest - 1})
           taken == whole * largest
           rest == blocks - taken
           k == BitCount[rest]
           c == Doubling(1, rest, k)
           top == Least(number, whole)
<1>1. whole \in Nat /\ taken \in Nat /\ rest \in Nat \ {0} /\ rest < 2 * largest
  BY WholeFits
<1>2. number = whole + k
  BY DEF ComputeRecoveryFileCount
<1>3. Limited(blocks, number, largest) =
        Doubling(1, blocks - top * largest, number - top) \o [n \in 1 .. top |-> largest]
  BY DEF Limited
<1> HIDE DEF whole
<1>4. k \in Nat \ {0} /\ Bit[k - 1] <= rest /\ rest < Bit[k]
  <2> HIDE DEF rest
  <2> QED BY <1>1, BitCountBounds
<1>5. top = whole /\ number - top = k /\ number \in Nat
  <2> HIDE DEF k
  <2> QED BY <1>1, <1>2, <1>4 DEF Least
<1>6. Limited(blocks, number, largest) = AndLargest(c, whole, largest)
  BY <1>3, <1>5 DEF AndLargest
<1>7. blocks = rest + whole * largest
  <2> HIDE DEF taken
  <2>1. blocks = rest + taken
    BY <1>1
  <2> HIDE DEF rest
  <2> QED BY <2>1 DEF taken
<1> HIDE DEF k, rest, top, taken
<1>8. Filled(c, k, rest) /\ \A n \in 1 .. k : c[n] <= Bit[n - 1] /\ c[n] <= rest - (Bit[n - 1] - 1)
  BY <1>1, <1>4, DoublingFills
<1> HIDE DEF c
<1>9. \A n \in 1 .. k : c[n] <= largest
  <2> TAKE n \in 1 .. k
  <2>1. n - 1 \in Nat
    BY <1>4
  <2>2. Bit[n - 1] \in Nat
    BY <2>1, BitFacts
  <2>3. c[n] \in Nat
    BY <1>4, <1>8 DEF Filled, Fills
  <2> QED BY <1>1, <1>8, <2>2, <2>3
<1> DEFINE all == AndLargest(c, whole, largest)
<1>10. /\ Filled(all, k + whole, rest + whole * largest)
       /\ \A n \in 1 .. k + whole : all[n] = IF n <= k THEN c[n] ELSE largest
  <2>1. k \in Nat /\ rest \in Nat /\ Filled(c, k, rest) /\ whole \in Nat /\ largest \in Nat \ {0}
    BY <1>1, <1>4, <1>8
  <2> QED BY ONLY <2>1, LargestAppended
<1>11. number = k + whole
  BY <1>1, <1>2, <1>4
<1> HIDE DEF all
<1>12. \A n \in 1 .. k + whole : all[n] <= largest
  <2> TAKE n \in 1 .. k + whole
  <2>1. n <= k => n \in 1 .. k
    BY <1>1, <1>4
  <2> QED BY <1>9, <1>10, <2>1
<1> QED BY <1>5, <1>6, <1>7, <1>10, <1>11, <1>12 DEF all

-----------------------------------------------------------------------------
(* The packets of a volume.                                                *)

(* The share of the copies that come after so many recovery packets.       *)
DoneBy(count, copied) == [n \in 0 .. count |-> (n * copied) \div count]

LEMMA ByDivision ==
  ASSUME NEW x \in Nat, NEW y \in Nat, NEW d \in Nat \ {0}, d * x < d * y + d
  PROVE  x <= y
<1>1. SUFFICES ASSUME x >= y + 1 PROVE FALSE
  OBVIOUS
<1>2. (y + 1) * d <= x * d /\ (y + 1) * d \in Nat /\ x * d \in Nat
  BY <1>1, Monotone
<1>3. (y + 1) * d = d * y + d /\ x * d = d * x
  OBVIOUS
<1> QED BY <1>2, <1>3

(* The shares grow to all copies.                                          *)
LEMMA DoneFacts ==
  ASSUME NEW count \in Nat \ {0}, NEW copied \in Nat, NEW done, done = DoneBy(count, copied)
  PROVE  /\ done \in [0 .. count -> Nat] /\ done[0] = 0 /\ done[count] = copied
         /\ \A m, n \in 0 .. count : m <= n => done[m] <= done[n]
<1>1. ASSUME NEW n \in 0 .. count
      PROVE  /\ done[n] = (n * copied) \div count /\ done[n] \in Nat /\ n * copied \in Nat
             /\ count * done[n] <= n * copied /\ n * copied < count * done[n] + count
  <2> DEFINE x == n * copied
  <2>1. x \in Nat
    OBVIOUS
  <2>2. done[n] = x \div count
    BY DEF DoneBy
  <2> HIDE DEF x
  <2>3. x \div count \in Nat /\ count * (x \div count) <= x /\ x < count * (x \div count) + count
    BY <2>1, Division
  <2> QED BY <2>1, <2>2, <2>3 DEF x
<1>2. done \in [0 .. count -> Nat]
  <2>1. done = [n \in 0 .. count |-> done[n]]
    BY DEF DoneBy
  <2> QED BY <1>1, <2>1
<1>3. done[0] = 0
  <2>1. 0 * copied = 0 /\ 0 \in 0 .. count
    OBVIOUS
  <2>2. count * done[0] <= 0 /\ done[0] \in Nat
    BY <1>1, <2>1
  <2> DEFINE x == done[0]
  <2>3. x \in Nat /\ count * x <= 0
    BY <2>2
  <2> HIDE DEF x
  <2>4. x * 1 <= x * count
    <3>1. 1 * x <= count * x /\ 1 * x = x * 1 /\ count * x = x * count
      BY <2>3, Monotone
    <3> QED BY <3>1
  <2>5. x * 1 = x /\ x * count = count * x /\ count * x \in Nat
    BY <2>3
  <2>6. x = 0
    BY <2>3, <2>4, <2>5
  <2> QED BY <2>6 DEF x
<1>4. done[count] = copied
  <2> DEFINE x == done[count]
  <2>1. count \in 0 .. count
    OBVIOUS
  <2>2. x \in Nat /\ count * x <= count * copied /\ count * copied < count * x + count
    BY <1>1, <2>1
  <2> HIDE DEF x
  <2>3. copied <= x
    BY <2>2, ByDivision
  <2>4. count * x < count * copied + count
    <3>1. count * x \in Nat /\ count * copied \in Nat
      BY <2>2
    <3> QED BY <2>2, <3>1
  <2>5. x <= copied
    BY <2>2, <2>4, ByDivision
  <2>6. x = copied
    BY <2>2, <2>3, <2>5
  <2> QED BY <2>6 DEF x
<1>5. ASSUME NEW m \in 0 .. count, NEW n \in 0 .. count, m <= n PROVE done[m] <= done[n]
  <2> DEFINE x == done[m]
             y == done[n]
             mc == m * copied
             nc == n * copied
  <2>1. x \in Nat /\ y \in Nat /\ count * x <= mc /\ nc < count * y + count /\ mc \in Nat /\ nc \in Nat
    BY <1>1
  <2>2. mc <= nc
    BY <1>5, Monotone
  <2> HIDE DEF x, y, mc, nc
  <2>3. count * x \in Nat /\ count * y \in Nat
    BY <2>1
  <2>4. count * x < count * y + count
    BY <2>1, <2>2, <2>3
  <2>5. x <= y
    BY <2>1, <2>4, ByDivision
  <2> QED BY <2>5 DEF x, y
<1> QED BY <1>2, <1>3, <1>4, <1>5

(* The packets of a volume: its recovery packets, and between them the     *)
(* critical ones in turn.                                                  *)
Numbered(f, e, n) == [type |-> "Recovery", of |-> f + n - 1, exponent |-> e + n - 1]
TurnOf(crit, j) == crit[((j - 1) % Len(crit)) + 1]
After(done, n, j) == done[n - 1] < j /\ j <= done[n]
Woven(v, f, e, count, crit, copied, done) ==
  /\ Len(v) = count + copied
  /\ \A n \in 1 .. count : n + done[n - 1] \in 1 .. Len(v) /\ v[n + done[n - 1]] = Numbered(f, e, n)
  /\ \A n \in 1 .. count : \A j \in 1 .. copied :
       After(done, n, j) => n + j \in 1 .. Len(v) /\ v[n + j] = TurnOf(crit, j)
  /\ \A k \in 1 .. Len(v) : \E n \in 1 .. count :
       k = n + done[n - 1] \/ \E j \in 1 .. copied : After(done, n, j) /\ k = n + j

FlatAs(whole, seqs, start, S) ==
  /\ whole \in Seq(S) /\ Len(whole) = start[Len(seqs)]
  /\ \A i \in 1 .. Len(seqs) : \A j \in 1 .. Len(seqs[i]) :
       start[i - 1] + j \in 1 .. start[Len(seqs)] /\ whole[start[i - 1] + j] = seqs[i][j]

LEMMA FlatWhole ==
  ASSUME NEW S, NEW seqs \in Seq(Seq(S)), Len(seqs) > 0, NEW start, Beginning(start, seqs)
  PROVE  FlatAs(FlattenSeq(seqs), seqs, start, S)
BY FlattenFacts DEF FlatAs

LEMMA TurnFacts ==
  ASSUME NEW S, NEW crit \in Seq(S), Len(crit) > 0, NEW j \in Nat \ {0}
  PROVE  TurnOf(crit, j) \in S
<1>1. Len(crit) \in Nat \ {0} /\ j - 1 \in Nat
  OBVIOUS
<1>2. (j - 1) % Len(crit) \in 0 .. Len(crit) - 1
  BY <1>1
<1>3. ((j - 1) % Len(crit)) + 1 \in 1 .. Len(crit)
  BY <1>1, <1>2
<1> QED BY <1>3 DEF TurnOf

PartIs(part, f, e, crit, done, n) ==
  /\ Len(part) = 1 + (done[n] - done[n - 1]) /\ part[1] = Numbered(f, e, n)
  /\ \A i \in 1 .. done[n] - done[n - 1] : part[1 + i] = TurnOf(crit, done[n - 1] + i)

(* Every packet of a volume is one or the other, each at its place.        *)
LEMMA VolumeIsWoven ==
  ASSUME NEW S, NEW crit \in Seq(S), Len(crit) > 0, NEW e \in Nat, NEW f \in Nat \ {0},
         NEW count \in Nat \ {0}, \A n \in 1 .. count : Numbered(f, e, n) \in S
  PROVE  LET copied == BitCount[count] * Len(crit)
             v == Volume([exponent |-> e, count |-> count], f, crit)
         IN /\ copied \in Nat /\ v \in Seq(S)
            /\ Woven(v, f, e, count, crit, copied, DoneBy(count, copied))
<1> DEFINE copied == BitCount[count] * Len(crit)
           done == DoneBy(count, copied)
           v == Volume([exponent |-> e, count |-> count], f, crit)
           turns == [n \in 1 .. count |-> [i \in 1 .. done[n] - done[n - 1] |-> TurnOf(crit, done[n - 1] + i)]]
           seqs == [n \in 1 .. count |-> <<Numbered(f, e, n)>> \o turns[n]]
<1>1. copied \in Nat
  BY BitCountFacts
<1>2. v = FlattenSeq(seqs)
  <2>1. \A n \in 1 .. count : n \in 0 .. count /\ n - 1 \in 0 .. count
    OBVIOUS
  <2>2. \A n \in 1 .. count : done[n] = (n * copied) \div count /\ done[n - 1] = ((n - 1) * copied) \div count
    BY <2>1 DEF DoneBy
  <2> DEFINE D(n) == (n * copied) \div count
  <2>3. v = FlattenSeq([n \in 1 .. count |-> <<Numbered(f, e, n)>>
              \o [i \in 1 .. D(n) - D(n - 1) |-> TurnOf(crit, D(n - 1) + i)]])
    BY DEF Volume, Numbered, TurnOf
  <2>4. \A n \in 1 .. count : done[n] = D(n) /\ done[n - 1] = D(n - 1)
    BY <2>2
  <2> HIDE DEF D, done, v
  <2>5. seqs = [n \in 1 .. count |-> <<Numbered(f, e, n)>>
              \o [i \in 1 .. D(n) - D(n - 1) |-> TurnOf(crit, D(n - 1) + i)]]
    BY <2>4
  <2> QED BY <2>3, <2>5
<1> HIDE DEF copied, v
<1>3. /\ done \in [0 .. count -> Nat] /\ done[0] = 0 /\ done[count] = copied
      /\ \A m, n \in 0 .. count : m <= n => done[m] <= done[n]
  BY <1>1, DoneFacts
<1> HIDE DEF done
<1>4. \A n \in 1 .. count : /\ n \in 0 .. count /\ n - 1 \in 0 .. count /\ done[n] \in Nat /\ done[n - 1] \in Nat
                            /\ done[n] - done[n - 1] \in Nat
  <2> TAKE n \in 1 .. count
  <2>1. n \in 0 .. count /\ n - 1 \in 0 .. count /\ n - 1 <= n
    OBVIOUS
  <2>2. done[n] \in Nat /\ done[n - 1] \in Nat /\ done[n - 1] <= done[n]
    BY <1>3, <2>1
  <2> QED BY <2>1, <2>2
<1>5. ASSUME NEW n \in 1 .. count
      PROVE  seqs[n] \in Seq(S) /\ PartIs(seqs[n], f, e, crit, done, n)
  <2> DEFINE more == done[n] - done[n - 1]
             head == <<Numbered(f, e, n)>>
             part == head \o turns[n]
  <2>1. more \in Nat /\ done[n - 1] \in Nat
    BY <1>4
  <2>2. turns[n] = [i \in 1 .. more |-> TurnOf(crit, done[n - 1] + i)]
    OBVIOUS
  <2> HIDE DEF turns, more
  <2>3. \A i \in 1 .. more : TurnOf(crit, done[n - 1] + i) \in S
    <3> TAKE i \in 1 .. more
    <3>1. done[n - 1] + i \in Nat \ {0}
      BY <2>1
    <3> QED BY <3>1, TurnFacts
  <2>4. turns[n] \in Seq(S) /\ Len(turns[n]) = more
    BY <2>1, <2>2, <2>3
  <2>5. head \in Seq(S) /\ Len(head) = 1 /\ head[1] = Numbered(f, e, n)
    OBVIOUS
  <2> HIDE DEF head
  <2>6. /\ part \in Seq(S) /\ Len(part) = 1 + more
        /\ \A i \in 1 .. 1 + more : part[i] = IF i <= 1 THEN head[i] ELSE turns[n][i - 1]
    <3> DEFINE tail == turns[n]
    <3>1. tail \in Seq(S) /\ Len(tail) = more /\ part = head \o tail
      BY <2>4
    <3> HIDE DEF tail, part
    <3>2. /\ part \in Seq(S) /\ Len(part) = Len(head) + Len(tail)
          /\ \A i \in 1 .. Len(head) + Len(tail) :
               part[i] = IF i <= Len(head) THEN head[i] ELSE tail[i - Len(head)]
      BY <2>5, <3>1, ConcatProperties
    <3> QED BY <2>5, <3>1, <3>2 DEF tail
  <2> HIDE DEF part
  <2>7. part[1] = Numbered(f, e, n)
    BY <2>1, <2>5, <2>6
  <2>8. \A i \in 1 .. more : part[1 + i] = TurnOf(crit, done[n - 1] + i)
    <3> TAKE i \in 1 .. more
    <3>1. 1 + i \in 1 .. 1 + more /\ ~(1 + i <= 1) /\ (1 + i) - 1 = i
      BY <2>1
    <3>2. part[1 + i] = turns[n][i]
      BY <2>6, <3>1
    <3> QED BY <2>2, <3>2
  <2>9. seqs[n] = part
    BY DEF part, head
  <2> HIDE DEF seqs
  <2> QED BY <2>6, <2>7, <2>8, <2>9 DEF PartIs, more
<1>6. seqs \in Seq(Seq(S)) /\ Len(seqs) = count
  <2>1. seqs \in [1 .. count -> Seq(S)]
    <3>1. seqs = [n \in 1 .. count |-> seqs[n]]
      OBVIOUS
    <3> HIDE DEF seqs
    <3> QED BY <1>5, <3>1
  <2> HIDE DEF seqs
  <2> QED BY <2>1
<1> DEFINE start == [n \in 0 .. count |-> n + done[n]]
<1> HIDE DEF seqs
<1>7. Beginning(start, seqs)
  <2>1. start \in [0 .. count -> Nat] /\ start[0] = 0
    BY <1>3
  <2>2. ASSUME NEW i \in 1 .. count PROVE start[i] = start[i - 1] + Len(seqs[i])
    <3>1. start[i] = i + done[i] /\ start[i - 1] = (i - 1) + done[i - 1] /\ done[i] \in Nat /\ done[i - 1] \in Nat
      BY <1>4
    <3>2. Len(seqs[i]) = 1 + (done[i] - done[i - 1])
      BY <1>5 DEF PartIs
    <3> HIDE DEF start
    <3> QED BY <3>1, <3>2
  <2> HIDE DEF start
  <2> QED BY <1>6, <2>1, <2>2 DEF Beginning
<1>8. /\ v \in Seq(S) /\ Len(v) = start[count]
      /\ \A i \in 1 .. count : \A j \in 1 .. Len(seqs[i]) :
           start[i - 1] + j \in 1 .. start[count] /\ v[start[i - 1] + j] = seqs[i][j]
  <2> HIDE DEF start
  <2>1. Len(seqs) > 0
    BY <1>6
  <2>2. FlatAs(FlattenSeq(seqs), seqs, start, S)
    BY <1>6, <1>7, <2>1, FlatWhole
  <2> QED BY <1>2, <1>6, <2>2 DEF FlatAs
<1>9. start[count] = count + copied /\ \A i \in 1 .. count : start[i - 1] = (i - 1) + done[i - 1]
  BY <1>3, <1>4
<1>10. \A k \in 1 .. start[count] : \E i \in 1 .. count : \E j \in 1 .. Len(seqs[i]) : k = start[i - 1] + j
  <2> HIDE DEF start
  <2> QED BY <1>6, <1>7, EveryPlace
<1> HIDE DEF start
<1>11. Len(v) = count + copied
  BY <1>8, <1>9
<1>12. ASSUME NEW n \in 1 .. count
       PROVE  n + done[n - 1] \in 1 .. Len(v) /\ v[n + done[n - 1]] = Numbered(f, e, n)
  <2>1. 1 \in 1 .. Len(seqs[n]) /\ seqs[n][1] = Numbered(f, e, n)
    BY <1>4, <1>5 DEF PartIs
  <2>2. start[n - 1] + 1 = n + done[n - 1]
    BY <1>4, <1>9
  <2> QED BY <1>8, <2>1, <2>2
<1>13. ASSUME NEW n \in 1 .. count, NEW j \in 1 .. copied, After(done, n, j)
       PROVE  n + j \in 1 .. Len(v) /\ v[n + j] = TurnOf(crit, j)
  <2> DEFINE i == j - done[n - 1]
  <2>1. i \in 1 .. done[n] - done[n - 1] /\ done[n - 1] + i = j
    BY <1>1, <1>4, <1>13 DEF After
  <2> HIDE DEF i
  <2> DEFINE x == done[n - 1]
             y == done[n] - done[n - 1]
  <2>2. 1 + i \in 1 .. Len(seqs[n]) /\ seqs[n][1 + i] = TurnOf(crit, j)
    <3>1. Len(seqs[n]) = 1 + y /\ \A k \in 1 .. y : seqs[n][1 + k] = TurnOf(crit, x + k)
      BY <1>5 DEF PartIs
    <3>2. y \in Nat /\ i \in 1 .. y /\ x + i = j
      BY <1>4, <2>1
    <3> HIDE DEF x, y
    <3>3. 1 + i \in 1 .. 1 + y
      BY <3>2
    <3> QED BY <3>1, <3>2, <3>3
  <2>3. start[n - 1] + (1 + i) = n + j
    <3>1. start[n - 1] = (n - 1) + x /\ x + i = j /\ x \in Nat /\ i \in Nat
      BY <1>4, <1>9, <2>1
    <3> HIDE DEF x
    <3> QED BY <3>1
  <2> QED BY <1>8, <2>2, <2>3
<1>14. ASSUME NEW k \in 1 .. Len(v)
       PROVE  \E n \in 1 .. count : k = n + done[n - 1] \/ \E j \in 1 .. copied : After(done, n, j) /\ k = n + j
  <2>1. PICK n \in 1 .. count : \E i \in 1 .. Len(seqs[n]) : k = start[n - 1] + i
    BY <1>8, <1>10
  <2>2. PICK i \in 1 .. Len(seqs[n]) : k = start[n - 1] + i
    BY <2>1
  <2>3. Len(seqs[n]) = 1 + (done[n] - done[n - 1]) /\ start[n - 1] = (n - 1) + done[n - 1]
    BY <1>5, <1>9 DEF PartIs
  <2>4. done[n] \in Nat /\ done[n - 1] \in Nat /\ done[n] <= copied
    <3>1. n \in 0 .. count /\ count \in 0 .. count /\ n <= count
      OBVIOUS
    <3> QED BY <1>3, <1>4, <3>1
  <2>5. CASE i = 1
    BY <2>2, <2>3, <2>4, <2>5
  <2>6. CASE i # 1
    <3> DEFINE j == done[n - 1] + (i - 1)
               x == done[n - 1]
               y == done[n]
    <3>1. x \in Nat /\ y \in Nat /\ y <= copied /\ i \in 1 .. 1 + (y - x) /\ i # 1 /\ k = (n - 1) + x + i
      BY <2>2, <2>3, <2>4, <2>6
    <3> HIDE DEF x, y
    <3>2. x + (i - 1) \in 1 .. copied /\ x < x + (i - 1) /\ x + (i - 1) <= y /\ k = n + (x + (i - 1))
      BY <1>1, <3>1
    <3>3. j \in 1 .. copied /\ After(done, n, j) /\ k = n + j
      BY <3>2 DEF After, x, y
    <3> QED BY <3>3
  <2> QED BY <2>5, <2>6
<1>15. Woven(v, f, e, count, crit, copied, done)
  BY <1>11, <1>12, <1>13, <1>14 DEF Woven
<1> QED BY <1>1, <1>8, <1>15 DEF v, copied, done

LEMMA OneToOne ==
  ASSUME NEW S, IsFiniteSet(S), NEW T, NEW F \in [S -> T],
         \A a, b \in S : F[a] = F[b] => a = b, \A y \in T : \E x \in S : F[x] = y
  PROVE  IsFiniteSet(T) /\ Cardinality(T) = Cardinality(S)
<1>1. F \in Injection(S, T) /\ F \in Surjection(S, T)
  BY DEF Injection, Surjection, IsInjective
<1>2. ExistsBijection(S, T)
  BY <1>1 DEF ExistsBijection, Bijection
<1> QED BY <1>2, FS_Bijection

LEMMA RemainderUnique ==
  ASSUME NEW d \in Nat \ {0}, NEW x \in Nat, NEW r \in 0 .. d - 1, NEW n \in Nat, n = x * d + r
  PROVE  n \div d = x /\ n % d = r
<1> DEFINE q == n \div d
           s == n % d
<1>1. q \in Nat /\ s \in 0 .. d - 1 /\ n = d * q + s
  OBVIOUS
<1> HIDE DEF q, s
<1>2. d * q \in Nat /\ d * x \in Nat /\ d * x = x * d
  BY <1>1
<1>3. d * q < d * x + d /\ d * x < d * q + d
  BY <1>1, <1>2
<1>4. q <= x /\ x <= q
  BY <1>1, <1>3, ByDivision
<1>5. q = x
  BY <1>1, <1>4
<1>6. s = r
  BY <1>1, <1>2, <1>5
<1> QED BY <1>5, <1>6 DEF q, s

(* A sequence of different things, repeated.                               *)
Different(crit) == \A i, j \in 1 .. Len(crit) : crit[i] = crit[j] => i = j
TurnsOf(crit, copied, p) == {j \in 1 .. copied : TurnOf(crit, j) = p}

(* In b turns over different things each comes b times.                    *)
LEMMA TurnsCount ==
  ASSUME NEW S, NEW crit \in Seq(S), Different(crit), NEW b \in Nat, NEW q \in 1 .. Len(crit)
  PROVE  /\ IsFiniteSet(TurnsOf(crit, b * Len(crit), crit[q]))
         /\ Cardinality(TurnsOf(crit, b * Len(crit), crit[q])) = b
<1> DEFINE L == Len(crit)
           J == TurnsOf(crit, b * L, crit[q])
           g == [i \in 1 .. b |-> (i - 1) * L + q]
<1>1. L \in Nat \ {0} /\ b * L \in Nat
  OBVIOUS
<1>2. \A j \in Nat \ {0} : (j - 1) % L \in 0 .. L - 1 /\ TurnOf(crit, j) = crit[((j - 1) % L) + 1]
  <2> TAKE j \in Nat \ {0}
  <2>1. j - 1 \in Nat
    OBVIOUS
  <2>2. (j - 1) % L \in 0 .. L - 1
    BY <1>1, <2>1
  <2> QED BY <2>2 DEF TurnOf
<1> HIDE DEF L
<1>3. ASSUME NEW i \in 1 .. b PROVE g[i] \in J /\ (g[i] - 1) \div L = i - 1
  <2> DEFINE x == i - 1
             j == x * L + q
  <2>1. x \in Nat /\ x + 1 <= b /\ x + 1 \in Nat
    OBVIOUS
  <2>2. x * L \in Nat /\ q \in 1 .. L
    BY <1>1, <2>1 DEF L
  <2>3. (x + 1) * L <= b * L /\ (x + 1) * L = x * L + L
    BY <1>1, <2>1, Monotone
  <2> DEFINE xL == x * L
             bL == b * L
  <2>4. xL \in Nat /\ xL + L <= bL /\ bL \in Nat /\ q \in 1 .. L
    BY <1>1, <2>2, <2>3
  <2>5. j = xL + q
    OBVIOUS
  <2> HIDE DEF j, xL, bL, x
  <2>6. j \in 1 .. bL /\ j - 1 = xL + (q - 1) /\ j - 1 \in Nat /\ q - 1 \in 0 .. L - 1
    BY <1>1, <2>4, <2>5
  <2>7. (j - 1) \div L = x /\ (j - 1) % L = q - 1
    <3> DEFINE n == j - 1
               r == q - 1
    <3>1. n \in Nat /\ r \in 0 .. L - 1 /\ n = x * L + r
      BY <2>6 DEF xL
    <3> HIDE DEF n, r
    <3>2. n \div L = x /\ n % L = r
      BY <1>1, <2>1, <3>1, RemainderUnique
    <3> QED BY <3>2 DEF n, r
  <2>8. TurnOf(crit, j) = crit[q]
    <3>1. j \in Nat \ {0} /\ (q - 1) + 1 = q
      BY <2>6, <2>4, <1>1
    <3> QED BY <1>2, <2>7, <3>1
  <2>9. g[i] = j
    BY DEF j, x
  <2> HIDE DEF g
  <2> QED BY <2>6, <2>7, <2>8, <2>9 DEF TurnsOf, bL, x
<1>4. ASSUME NEW j \in J PROVE \E i \in 1 .. b : g[i] = j
  <2> DEFINE x == (j - 1) \div L
             r == (j - 1) % L
  <2>1. j \in 1 .. b * L /\ TurnOf(crit, j) = crit[q] /\ j \in Nat \ {0} /\ j - 1 \in Nat
    BY <1>1 DEF TurnsOf
  <2>2. x \in Nat /\ r \in 0 .. L - 1 /\ j - 1 = L * x + r
    BY <1>1, <2>1
  <2>3. crit[r + 1] = crit[q]
    BY <1>2, <2>1
  <2> HIDE DEF x, r
  <2>4. r + 1 = q
    <3>1. r + 1 \in 1 .. Len(crit)
      BY <1>1, <2>2 DEF L
    <3> QED BY <2>3, <3>1 DEF Different
  <2>5. L * x \in Nat /\ L * b \in Nat /\ L * b = b * L /\ L * x = x * L
    BY <1>1, <2>2
  <2>6. x < b
    <3>1. SUFFICES ASSUME b <= x PROVE FALSE
      BY <2>2
    <3>2. b * L <= x * L
      BY <1>1, <2>2, <3>1, Monotone
    <3> DEFINE bL == b * L
               xL == x * L
    <3>3. bL \in Nat /\ xL \in Nat /\ bL <= xL /\ j - 1 = xL + r /\ j <= bL /\ j \in Nat
      BY <1>1, <2>1, <2>2, <2>5, <3>2
    <3> HIDE DEF bL, xL
    <3> QED BY <2>2, <3>3
  <2>7. x + 1 \in 1 .. b /\ (x + 1) - 1 = x
    BY <2>2, <2>6
  <2>8. g[x + 1] = x * L + q
    BY <2>7
  <2> HIDE DEF g
  <2>9. j = x * L + q
    <3> DEFINE xL == x * L
    <3>1. j - 1 = xL + r /\ xL \in Nat /\ j \in Nat
      BY <2>1, <2>2, <2>5
    <3> HIDE DEF xL
    <3>2. j = xL + q
      BY <2>2, <2>4, <3>1
    <3> QED BY <3>2 DEF xL
  <2> QED BY <2>7, <2>8, <2>9
<1>5. g = [i \in 1 .. b |-> g[i]]
  OBVIOUS
<1> HIDE DEF g
<1>6. g \in [1 .. b -> J]
  BY <1>3, <1>5
<1>7. \A i, k \in 1 .. b : g[i] = g[k] => i = k
  <2> TAKE i, k \in 1 .. b
  <2>1. g[i] = g[k] => i - 1 = k - 1
    BY <1>3
  <2> QED BY <2>1
<1>8. IsFiniteSet(1 .. b) /\ Cardinality(1 .. b) = b
  <2>1. 1 \in Int /\ b \in Int
    OBVIOUS
  <2> DEFINE one == 1
  <2> HIDE DEF one
  <2>2. IsFiniteSet(one .. b) /\ Cardinality(one .. b) = IF one > b THEN 0 ELSE b - one + 1
    BY <2>1, FS_Interval DEF one
  <2>3. (IF 1 > b THEN 0 ELSE b - 1 + 1) = b
    OBVIOUS
  <2> QED BY <2>2, <2>3 DEF one
<1> HIDE DEF J
<1>9. IsFiniteSet(J) /\ Cardinality(J) = Cardinality(1 .. b)
  BY <1>4, <1>6, <1>7, <1>8, OneToOne
<1> QED BY <1>8, <1>9 DEF J, L

Shares(done, count, copied) ==
  /\ done \in [0 .. count -> Nat] /\ done[0] = 0 /\ done[count] = copied
  /\ \A m, n \in 0 .. count : m <= n => done[m] <= done[n]
OnlyCritical(crit) == \A i \in 1 .. Len(crit) : crit[i].type # "Recovery"
CopiesAmong(s, p) == {k \in 1 .. Len(s) : s[k] = p}

LEMMA TurnIsCritical ==
  ASSUME NEW S, NEW crit \in Seq(S), Len(crit) > 0, OnlyCritical(crit), NEW j \in Nat \ {0}
  PROVE  TurnOf(crit, j).type # "Recovery"
<1>1. Len(crit) \in Nat \ {0} /\ j - 1 \in Nat
  OBVIOUS
<1>2. (j - 1) % Len(crit) \in 0 .. Len(crit) - 1
  BY <1>1
<1>3. ((j - 1) % Len(crit)) + 1 \in 1 .. Len(crit)
  BY <1>1, <1>2
<1> QED BY <1>3 DEF TurnOf, OnlyCritical

(* The recovery packets of a volume are in order, at these places only.    *)
LEMMA RecoveryInWoven ==
  ASSUME NEW S, NEW crit \in Seq(S), Len(crit) > 0, OnlyCritical(crit), NEW v, NEW f, NEW e,
         NEW count \in Nat \ {0}, NEW copied \in Nat, NEW done, Shares(done, count, copied),
         Woven(v, f, e, count, crit, copied, done)
  PROVE  /\ \A k \in 1 .. Len(v) : v[k].type = "Recovery" =>
              \E n \in 1 .. count : k = n + done[n - 1] /\ v[k] = Numbered(f, e, n)
         /\ \A m, n \in 1 .. count : m < n => m + done[m - 1] < n + done[n - 1]
<1>1. ASSUME NEW k \in 1 .. Len(v), v[k].type = "Recovery"
      PROVE  \E n \in 1 .. count : k = n + done[n - 1] /\ v[k] = Numbered(f, e, n)
  <2>1. PICK n \in 1 .. count : k = n + done[n - 1] \/ \E j \in 1 .. copied : After(done, n, j) /\ k = n + j
    BY DEF Woven
  <2>2. k = n + done[n - 1]
    <3>1. SUFFICES ASSUME NEW j \in 1 .. copied, After(done, n, j), k = n + j PROVE FALSE
      BY <2>1
    <3>2. v[k] = TurnOf(crit, j)
      BY <3>1 DEF Woven
    <3> QED BY <1>1, <3>2, TurnIsCritical
  <2> QED BY <2>2 DEF Woven
<1>2. ASSUME NEW m \in 1 .. count, NEW n \in 1 .. count, m < n
      PROVE  m + done[m - 1] < n + done[n - 1]
  <2>1. m - 1 \in 0 .. count /\ n - 1 \in 0 .. count /\ m - 1 <= n - 1
    BY <1>2
  <2>2. done[m - 1] <= done[n - 1] /\ done[m - 1] \in Nat /\ done[n - 1] \in Nat
    BY <2>1 DEF Shares
  <2> QED BY <1>2, <2>2
<1> QED BY <1>1, <1>2

(* Each copy comes after some recovery packet, and only one.               *)
LEMMA OneShare ==
  ASSUME NEW count \in Nat \ {0}, NEW copied \in Nat, NEW done, Shares(done, count, copied)
  PROVE  /\ \A j \in 1 .. copied : \E n \in 1 .. count : After(done, n, j)
         /\ \A i, j \in 1 .. copied : \A m, n \in 1 .. count :
              (After(done, m, i) /\ After(done, n, j) /\ i <= j) => m <= n
<1>1. \A n \in 0 .. count : done[n] \in Nat
  BY DEF Shares
<1>2. ASSUME NEW j \in 1 .. copied PROVE \E n \in 1 .. count : After(done, n, j)
  <2> DEFINE Q == {n \in 0 .. count : j <= done[n]}
  <2>1. count \in Q
    BY DEF Shares
  <2>2. PICK n \in Q : \A m \in Q : n <= m
    <3>1. Q \in SUBSET Nat /\ Q # {}
      BY <2>1
    <3> HIDE DEF Q
    <3> QED BY <3>1, LeastNumber
  <2>3. n # 0
    BY DEF Shares
  <2>4. n \in 1 .. count /\ n - 1 \in 0 .. count /\ ~(n <= n - 1)
    BY <2>3
  <2>5. ~(j <= done[n - 1]) /\ j <= done[n]
    BY <2>2, <2>4
  <2>6. After(done, n, j)
    BY <1>1, <2>4, <2>5 DEF After
  <2> QED BY <2>4, <2>6
<1>3. ASSUME NEW i \in 1 .. copied, NEW j \in 1 .. copied, NEW m \in 1 .. count, NEW n \in 1 .. count,
             After(done, m, i), After(done, n, j), i <= j
      PROVE  m <= n
  <2>1. SUFFICES ASSUME n < m PROVE FALSE
    OBVIOUS
  <2>2. n \in 0 .. count /\ m - 1 \in 0 .. count /\ n <= m - 1
    BY <2>1
  <2>3. done[n] <= done[m - 1] /\ done[n] \in Nat /\ done[m - 1] \in Nat
    BY <2>2 DEF Shares
  <2>4. done[m - 1] < i /\ j <= done[n]
    BY <1>3 DEF After
  <2> QED BY <1>3, <2>3, <2>4
<1> QED BY <1>2, <1>3

(* A critical packet is in a volume as often as it has its turn.           *)
LEMMA CopiesInWoven ==
  ASSUME NEW S, NEW crit \in Seq(S), Len(crit) > 0, OnlyCritical(crit), NEW v, NEW f, NEW e,
         NEW count \in Nat \ {0}, NEW copied \in Nat, NEW done, Shares(done, count, copied),
         Woven(v, f, e, count, crit, copied, done), NEW p, p.type # "Recovery",
         IsFiniteSet(TurnsOf(crit, copied, p))
  PROVE  Cardinality(CopiesAmong(v, p)) = Cardinality(TurnsOf(crit, copied, p))
<1> DEFINE J == TurnsOf(crit, copied, p)
           K == CopiesAmong(v, p)
           Which(j) == CHOOSE n \in 1 .. count : After(done, n, j)
           place == [j \in J |-> Which(j) + j]
<1>1. \A j \in J : j \in 1 .. copied /\ TurnOf(crit, j) = p
  BY DEF TurnsOf
<1>2. \A j \in 1 .. copied : Which(j) \in 1 .. count /\ After(done, Which(j), j)
  BY OneShare
<1> HIDE DEF Which
<1>3. ASSUME NEW j \in J PROVE place[j] \in K
  <2>1. Which(j) + j \in 1 .. Len(v) /\ v[Which(j) + j] = TurnOf(crit, j)
    BY <1>1, <1>2 DEF Woven
  <2> QED BY <1>1, <2>1 DEF CopiesAmong
<1>4. ASSUME NEW i \in J, NEW j \in J, i < j PROVE place[i] < place[j]
  <2>1. Which(i) <= Which(j)
    BY <1>1, <1>2, <1>4, OneShare
  <2>2. Which(i) \in Nat /\ Which(j) \in Nat /\ i \in Nat /\ j \in Nat
    BY <1>1, <1>2
  <2> QED BY <1>4, <2>1, <2>2
<1>5. ASSUME NEW k \in K PROVE \E j \in J : place[j] = k
  <2>1. k \in 1 .. Len(v) /\ v[k] = p
    BY DEF CopiesAmong
  <2>2. PICK n \in 1 .. count : k = n + done[n - 1] \/ \E j \in 1 .. copied : After(done, n, j) /\ k = n + j
    BY <2>1 DEF Woven
  <2>3. k # n + done[n - 1]
    <3>1. SUFFICES ASSUME k = n + done[n - 1] PROVE FALSE
      OBVIOUS
    <3>2. v[k] = Numbered(f, e, n)
      BY <3>1 DEF Woven
    <3>3. v[k].type = "Recovery"
      BY <3>2 DEF Numbered
    <3> QED BY <2>1, <3>3
  <2>4. PICK j \in 1 .. copied : After(done, n, j) /\ k = n + j
    BY <2>2, <2>3
  <2>5. j \in J
    <3>1. v[k] = TurnOf(crit, j)
      BY <2>4 DEF Woven
    <3> QED BY <2>1, <3>1 DEF TurnsOf
  <2>6. Which(j) = n
    <3>1. Which(j) <= n /\ n <= Which(j)
      <4>1. j <= j
        OBVIOUS
      <4> QED BY <1>2, <2>4, <4>1, OneShare
    <3> QED BY <1>2, <3>1
  <2> QED BY <2>4, <2>5, <2>6
<1>6. place = [j \in J |-> place[j]]
  OBVIOUS
<1>7. \A j \in J : j \in Nat /\ place[j] \in Nat
  BY <1>1, <1>2
<1> HIDE DEF J, K, place
<1>8. place \in [J -> K]
  BY <1>3, <1>6
<1>9. \A i, j \in J : place[i] = place[j] => i = j
  <2> TAKE i, j \in J
  <2>1. i \in Nat /\ j \in Nat /\ place[i] \in Nat /\ place[j] \in Nat
    BY <1>7
  <2>2. i < j => place[i] < place[j]
    BY <1>4
  <2>3. j < i => place[j] < place[i]
    BY <1>4
  <2> QED BY <2>1, <2>2, <2>3
<1>10. IsFiniteSet(J)
  BY DEF J
<1>11. Cardinality(K) = Cardinality(J)
  BY <1>5, <1>8, <1>9, <1>10, OneToOne
<1> QED BY <1>11 DEF J, K

LEMMA BitAbove ==
  ASSUME NEW n \in Nat
  PROVE  n + 1 <= Bit[n]
<1> DEFINE P == {k \in Nat : k + 1 <= Bit[k]}
<1>1. 0 \in P
  BY BitFacts
<1>2. ASSUME NEW k \in P PROVE k + 1 \in P
  <2>1. k \in Nat /\ k + 1 \in Nat /\ Bit[k] \in Nat /\ Bit[k + 1] = 2 * Bit[k] /\ k + 1 <= Bit[k]
    BY BitFacts
  <2> QED BY <2>1
<1>3. P = Nat
  <2> HIDE DEF P
  <2>1. P \in SUBSET Nat
    BY DEF P
  <2> QED BY <1>1, <1>2, <2>1, Induction
<1>4. n \in P
  BY <1>3
<1> QED BY <1>4

LEMMA NoneFilled == Filled(<<>>, 0, 0)
<1> DEFINE t == [n \in {0} |-> 0]
           zero == 0
<1>1. <<>> \in Seq(Nat \ {0}) /\ Len(<<>>) = 0 /\ t[0] = 0
  OBVIOUS
<1>2. \A i \in 1 .. 0 : FALSE
  OBVIOUS
<1> HIDE DEF t
<1>3. Fills(t, <<>>, 0, 0)
  BY <1>1, <1>2 DEF Fills, Totals
<1> QED BY <1>3 DEF Filled

(* However the volumes are to be sized, they have all the blocks, and none *)
(* of them is empty.                                                       *)
AsPromised(scheme, counts, number, largest) ==
  /\ scheme = "Uniform" => \A m, n \in 1 .. number : counts[m] <= counts[n] + 1
  /\ scheme = "Limited" => \A n \in 1 .. number : counts[n] <= largest

LEMMA CountsFill ==
  ASSUME NEW scheme \in Schemes, NEW wanted \in Nat, wanted # 0 => scheme = "Uniform",
         NEW blocks \in Nat, NEW largest \in Nat \ {0}, NEW number,
         number = ComputeRecoveryFileCount(scheme, wanted, blocks, largest), number # None
  PROVE  /\ number \in Nat /\ Filled(Counts(scheme, blocks, number, largest), number, blocks)
         /\ AsPromised(scheme, Counts(scheme, blocks, number, largest), number, largest)
<1>1. scheme \in {"Uniform", "Variable", "Limited"}
  BY DEF Schemes
<1>2. CASE blocks = 0
  <2>1. number = 0
    BY <1>2 DEF ComputeRecoveryFileCount
  <2>2. Uniform(0, 0) = <<>> /\ \A low, b : Doubling(low, b, 0) = <<>>
    BY DEF Uniform, Doubling
  <2>3. Variable(0, 0) = <<>>
    BY <2>2 DEF Variable
  <2>4. Limited(0, 0, largest) = <<>>
    <3> DEFINE whole == Max({0, 0 \div largest - 1})
    <3>1. whole \in Nat
      <4> DEFINE zero == 0
      <4>1. zero \in Nat
        OBVIOUS
      <4> HIDE DEF zero
      <4>2. Max({0, zero \div largest - 1}) \in Nat
        BY <4>1, WholeFits
      <4> QED BY <4>2 DEF zero
    <3>2. Least(0, whole) = 0
      BY <3>1 DEF Least
    <3> HIDE DEF whole
    <3>3. Limited(0, 0, largest) = Doubling(1, 0 - 0 * largest, 0 - 0) \o [n \in 1 .. 0 |-> largest]
      BY <3>2 DEF Limited, whole
    <3>4. 0 - 0 = 0 /\ [n \in 1 .. 0 |-> largest] = <<>>
      OBVIOUS
    <3>5. Doubling(1, 0 - 0 * largest, 0 - 0) = <<>>
      BY <2>2, <3>4
    <3>6. <<>> \o <<>> = <<>>
      OBVIOUS
    <3> QED BY <3>3, <3>4, <3>5, <3>6
  <2>5. Counts(scheme, 0, 0, largest) = <<>>
    BY <1>1, <2>2, <2>3, <2>4 DEF Counts
  <2>6. AsPromised(scheme, <<>>, 0, largest)
    BY DEF AsPromised
  <2> QED BY <1>2, <2>1, <2>5, <2>6, NoneFilled
<1>3. CASE blocks # 0 /\ scheme = "Limited"
  <2>1. number = ComputeRecoveryFileCount("Limited", 0, blocks, largest)
    BY <1>3 DEF ComputeRecoveryFileCount
  <2>2. blocks \in Nat \ {0}
    BY <1>3
  <2>3. /\ number \in Nat /\ Filled(Limited(blocks, number, largest), number, blocks)
        /\ \A n \in 1 .. number : Limited(blocks, number, largest)[n] <= largest
    BY <2>1, <2>2, LimitedFills
  <2>4. Counts(scheme, blocks, number, largest) = Limited(blocks, number, largest)
    BY <1>3 DEF Counts
  <2> QED BY <1>3, <2>3, <2>4 DEF AsPromised
<1>4. CASE blocks # 0 /\ scheme # "Limited"
  <2> DEFINE k == BitCount[blocks]
  <2>1. /\ k \in Nat \ {0} /\ Bit[k - 1] <= blocks /\ blocks < Bit[k]
    BY <1>4, BitCountBounds
  <2> HIDE DEF k
  <2>2. wanted = 0 => number = k
    BY <1>4 DEF ComputeRecoveryFileCount, k
  <2>3. wanted # 0 => number = wanted /\ number <= blocks
    BY <1>4 DEF ComputeRecoveryFileCount
  <2>4. k <= blocks
    <3>1. k - 1 \in Nat /\ Bit[k - 1] \in Nat
      BY <2>1, BitFacts
    <3>2. (k - 1) + 1 <= Bit[k - 1]
      BY <3>1, BitAbove
    <3> QED BY <2>1, <3>1, <3>2
  <2>5. CASE scheme = "Uniform"
    <3>1. number \in Nat \ {0} /\ number <= blocks
      BY <2>1, <2>2, <2>3, <2>4
    <3>2. /\ Filled(Uniform(blocks, number), number, blocks)
          /\ \A m, n \in 1 .. number : Uniform(blocks, number)[m] <= Uniform(blocks, number)[n] + 1
      BY <3>1, UniformFills
    <3>3. Counts(scheme, blocks, number, largest) = Uniform(blocks, number)
      BY <2>5 DEF Counts
    <3> QED BY <2>5, <3>1, <3>2, <3>3 DEF AsPromised
  <2>6. CASE scheme = "Variable"
    <3>1. number = k
      BY <2>2, <2>6
    <3>2. Variable(blocks, number) = Doubling(1, blocks, number)
      BY <2>1, <3>1, VariableIsDoubling
    <3>3. Filled(Doubling(1, blocks, number), number, blocks)
      BY <2>1, <3>1, DoublingFills
    <3>4. Counts(scheme, blocks, number, largest) = Variable(blocks, number)
      BY <2>6 DEF Counts
    <3> QED BY <2>1, <2>6, <3>1, <3>2, <3>3, <3>4 DEF AsPromised
  <2> QED BY <1>1, <1>4, <2>5, <2>6
<1> QED BY <1>2, <1>3, <1>4

-----------------------------------------------------------------------------
(* The files, as they are allocated.                                       *)

FilesHold(rf, t, counts, n, first, crit, creator) ==
  /\ DOMAIN rf = 1 .. n + 1 /\ Len(rf) = n + 1
  /\ \A i \in 1 .. n :
       /\ rf[i].name = <<first + t[i - 1], counts[i]>>
       /\ rf[i].packets = Append(Volume([exponent |-> first + t[i - 1], count |-> counts[i]],
                                        t[i - 1] + 1, crit), creator)
  /\ rf[n + 1].name = <<None, 0>> /\ rf[n + 1].packets = Append(crit, creator)

Allocated(alloc, t, counts, n, first) ==
  /\ alloc \in Seq([exponent : Nat \union {None}, count : Nat]) /\ Len(alloc) = n + 1
  /\ \A i \in 1 .. n : alloc[i] = [exponent |-> first + t[i - 1], count |-> counts[i]]
  /\ alloc[n + 1] = [exponent |-> None, count |-> 0]

LEMMA OneAfter ==
  ASSUME NEW A, NEW s \in Seq(A), NEW u \in Seq(A), NEW n \in Nat, Len(s) = n, Len(u) = 1
  PROVE  /\ s \o u \in Seq(A) /\ Len(s \o u) = n + 1
         /\ \A i \in 1 .. n : (s \o u)[i] = s[i]
         /\ (s \o u)[n + 1] = u[1]
<1>1. /\ s \o u \in Seq(A) /\ Len(s \o u) = Len(s) + Len(u)
      /\ \A i \in 1 .. Len(s) + Len(u) : (s \o u)[i] = IF i <= Len(s) THEN s[i] ELSE u[i - Len(s)]
  BY ConcatProperties
<1>2. /\ n + 1 \in 1 .. n + 1 /\ ~(n + 1 <= n) /\ (n + 1) - n = 1
      /\ \A i \in 1 .. n : i \in 1 .. n + 1 /\ i <= n
  OBVIOUS
<1> QED BY ONLY <1>1, <1>2, Len(s) = n, Len(u) = 1

LEMMA AllocationFacts ==
  ASSUME NEW scheme, NEW first \in Nat, NEW blocks, NEW n \in Nat, NEW largest, NEW counts \in Seq(Nat \ {0}),
         counts = Counts(scheme, blocks, n, largest), Len(counts) = n
  PROVE  Allocated(FileAllocations(scheme, first, blocks, n, largest), Running(counts), counts, n, first)
<1> DEFINE t == Running(counts)
           A == [exponent : Nat \union {None}, count : Nat]
           s == [i \in 1 .. n |-> [exponent |-> first + t[i - 1], count |-> counts[i]]]
           u == <<[exponent |-> None, count |-> 0]>>
<1>1. counts \in Seq(Nat)
  OBVIOUS
<1>2. \A i \in 1 .. n : t[i - 1] \in Nat /\ counts[i] \in Nat
  <2>1. \A i \in 0 .. n : t[i] \in Nat
    BY <1>1, RunningFacts
  <2>2. \A i \in 1 .. n : i - 1 \in 0 .. n
    OBVIOUS
  <2> HIDE DEF t
  <2> QED BY <2>1, <2>2, <1>1
<1>3. FileAllocations(scheme, first, blocks, n, largest) = s \o u
  BY DEF FileAllocations
<1> HIDE DEF t
<1>4. \A i \in 1 .. n : s[i] \in A
  <2>9. \A x, y \in Nat : x + y \in Nat
    OBVIOUS
  <2> TAKE i \in 1 .. n
  <2>1. first + t[i - 1] \in Nat /\ counts[i] \in Nat
    BY <1>2, <2>9, Zenon
  <2> QED BY <2>1
<1>5. s \in Seq(A) /\ Len(s) = n
  BY <1>4
<1>6. u \in Seq(A) /\ Len(u) = 1 /\ u[1] = [exponent |-> None, count |-> 0]
  OBVIOUS
<1>7. \A i \in 1 .. n : s[i] = [exponent |-> first + t[i - 1], count |-> counts[i]]
  OBVIOUS
<1> HIDE DEF A, s, u
<1>8. /\ s \o u \in Seq(A) /\ Len(s \o u) = n + 1
      /\ \A i \in 1 .. n : (s \o u)[i] = s[i]
      /\ (s \o u)[n + 1] = u[1]
  BY <1>5, <1>6, OneAfter
<1> QED BY <1>3, <1>6, <1>7, <1>8 DEF Allocated, A, t

(* The files are named and filled as they are allocated, and numbered      *)
(* through: before and Running(counts) are the same totals.                *)
LEMMA FilesAsAllocated ==
  ASSUME NEW alloc, NEW first \in Nat, NEW n \in Nat, NEW counts \in Seq(Nat \ {0}), Len(counts) = n,
         Allocated(alloc, Running(counts), counts, n, first), NEW crit, NEW creator
  PROVE  FilesHold(PacketsOfFiles(alloc, crit, creator), Running(counts), counts, n, first, crit, creator)
<1> DEFINE t == Running(counts)
           c == [i \in DOMAIN alloc |-> alloc[i].count]
           u == Running(c)
<1>1. alloc \in Seq([exponent : Nat \union {None}, count : Nat]) /\ Len(alloc) = n + 1 /\ DOMAIN alloc = 1 .. n + 1
  BY DEF Allocated
<1>2. c \in Seq(Nat) /\ Len(c) = n + 1
  <2> DEFINE A == [exponent : Nat \union {None}, count : Nat]
  <2>1. \A a \in A : a.count \in Nat
    OBVIOUS
  <2> HIDE DEF A
  <2>2. \A i \in 1 .. n + 1 : alloc[i] \in A
    <3>1. alloc \in Seq(A) /\ Len(alloc) = n + 1
      BY <1>1 DEF A
    <3> QED BY <3>1
  <2>3. c = [i \in 1 .. n + 1 |-> alloc[i].count]
    BY <1>1
  <2>4. \A i \in 1 .. n + 1 : alloc[i].count \in Nat
    BY <2>1, <2>2
  <2> HIDE DEF c
  <2> QED BY <2>3, <2>4
<1>3. \A i \in 1 .. n : c[i] = counts[i]
  <2> TAKE i \in 1 .. n
  <2>1. i \in DOMAIN alloc /\ alloc[i] = [exponent |-> first + t[i - 1], count |-> counts[i]]
    BY <1>1 DEF Allocated
  <2> QED BY <2>1
<1>4. \A i \in 0 .. n : u[i] = t[i]
  <2>1. counts \in Seq(Nat)
    OBVIOUS
  <2> HIDE DEF c
  <2>2. Totals(u, c, n + 1) /\ Totals(t, counts, n)
    BY <1>2, <2>1, RunningFacts
  <2> HIDE DEF u, t
  <2>3. Totals(u, c, n)
    BY <2>2 DEF Totals
  <2> QED BY <1>3, <2>2, <2>3, TotalsAgree
<1> DEFINE rf == PacketsOfFiles(alloc, crit, creator)
<1>5. rf = [i \in 1 .. n + 1 |->
              [name |-> <<alloc[i].exponent, alloc[i].count>>,
               packets |-> Append(IF alloc[i].count = 0 THEN crit
                                  ELSE Volume(alloc[i], u[i - 1] + 1, crit), creator)]]
  BY <1>1 DEF PacketsOfFiles
<1> HIDE DEF u, t, rf
<1>9. \A i \in 1 .. n + 1 :
        /\ rf[i].name = <<alloc[i].exponent, alloc[i].count>>
        /\ alloc[i].count = 0 => rf[i].packets = Append(crit, creator)
        /\ alloc[i].count # 0 => rf[i].packets = Append(Volume(alloc[i], u[i - 1] + 1, crit), creator)
  BY <1>5
<1>6. DOMAIN rf = 1 .. n + 1 /\ Len(rf) = n + 1
  BY <1>5
<1>7. ASSUME NEW i \in 1 .. n
      PROVE  /\ rf[i].name = <<first + t[i - 1], counts[i]>>
             /\ rf[i].packets = Append(Volume([exponent |-> first + t[i - 1], count |-> counts[i]],
                                              t[i - 1] + 1, crit), creator)
  <2>1. i \in 1 .. n + 1 /\ alloc[i] = [exponent |-> first + t[i - 1], count |-> counts[i]]
    BY DEF Allocated, t
  <2>2. counts[i] # 0
    OBVIOUS
  <2>3. i - 1 \in 0 .. n
    OBVIOUS
  <2>4. u[i - 1] = t[i - 1]
    BY <1>4, <2>3
  <2>5. alloc[i].exponent = first + t[i - 1] /\ alloc[i].count = counts[i]
    BY <2>1
  <2>7. rf[i].name = <<alloc[i].exponent, alloc[i].count>>
    BY <2>1, <1>9
  <2>8. rf[i].packets = Append(Volume(alloc[i], u[i - 1] + 1, crit), creator)
    BY <2>1, <2>2, <2>5, <1>9
  <2> QED BY <2>1, <2>4, <2>5, <2>7, <2>8
<1>8. rf[n + 1].name = <<None, 0>> /\ rf[n + 1].packets = Append(crit, creator)
  <2>1. n + 1 \in 1 .. n + 1 /\ alloc[n + 1] = [exponent |-> None, count |-> 0]
    BY DEF Allocated
  <2>3. alloc[n + 1].exponent = None /\ alloc[n + 1].count = 0
    BY <2>1
  <2> QED BY <2>1, <2>3, <1>9
<1> QED BY <1>6, <1>7, <1>8 DEF FilesHold, rf, t

(* What a file holds: its recovery packets at these places, in order, and  *)
(* as many copies of each critical packet.                                 *)
CopiesOf(ps, p) == {k \in DOMAIN ps : ps[k] = p}
Placed(ps, place, e, f, count) ==
  /\ place \in [1 .. count -> Nat]
  /\ \A m \in 1 .. count : place[m] \in DOMAIN ps /\ ps[place[m]] = Numbered(f, e, m)
  /\ \A k \in DOMAIN ps : ps[k].type = "Recovery" => \E m \in 1 .. count : k = place[m]
  /\ \A m, n \in 1 .. count : m < n => place[m] < place[n]
Copied(ps, copies, crit, creator) ==
  /\ \A i \in 1 .. Len(crit) : Cardinality(CopiesOf(ps, crit[i])) = copies
  /\ Cardinality(CopiesOf(ps, creator)) = 1
Holds(ps, e, f, count, crit, creator) ==
  /\ \E place : Placed(ps, place, e, f, count)
  /\ \E copies \in Nat \ {0} : Copied(ps, copies, crit, creator)

Critical(crit, creator, S) ==
  /\ crit \in Seq(S) /\ Len(crit) > 0 /\ Different(crit) /\ OnlyCritical(crit)
  /\ creator \in S /\ creator.type # "Recovery" /\ \A i \in 1 .. Len(crit) : crit[i] # creator

(* With the creator packet after the others.                               *)
LEMMA LastOne ==
  ASSUME NEW S, NEW v \in Seq(S), NEW creator \in S, \A k \in 1 .. Len(v) : v[k] # creator
  PROVE  /\ DOMAIN Append(v, creator) = 1 .. Len(v) + 1
         /\ \A k \in 1 .. Len(v) : Append(v, creator)[k] = v[k]
         /\ Append(v, creator)[Len(v) + 1] = creator
         /\ CopiesOf(Append(v, creator), creator) = {Len(v) + 1}
         /\ \A p : p # creator => CopiesOf(Append(v, creator), p) = CopiesAmong(v, p)
<1> DEFINE ps == Append(v, creator)
           N == Len(v)
<1>1. N \in Nat /\ DOMAIN ps = 1 .. N + 1 /\ ps[N + 1] = creator /\ \A k \in 1 .. N : ps[k] = v[k]
  <2>1. ps \in Seq(S) /\ Len(ps) = N + 1 /\ N \in Nat
    OBVIOUS
  <2>2. DOMAIN ps = 1 .. N + 1
    BY <2>1
  <2>3. ps[N + 1] = creator /\ \A k \in 1 .. N : ps[k] = v[k]
    OBVIOUS
  <2> QED BY <2>1, <2>2, <2>3
<1>2. \A k \in 1 .. N : v[k] # creator
  OBVIOUS
<1>3. \A p : CopiesAmong(v, p) = {k \in 1 .. N : v[k] = p}
  BY DEF CopiesAmong
<1>4. \A p : CopiesOf(ps, p) = {k \in 1 .. N + 1 : ps[k] = p}
  BY <1>1 DEF CopiesOf
<1> HIDE DEF ps, N
<1>5. CopiesOf(ps, creator) = {N + 1}
  BY <1>1, <1>2, <1>4
<1>6. ASSUME NEW p, p # creator PROVE CopiesOf(ps, p) = CopiesAmong(v, p)
  <2>1. \A k \in 1 .. N + 1 : k \in 1 .. N \/ k = N + 1
    BY <1>1
  <2>2. \A k \in 1 .. N : k \in 1 .. N + 1
    BY <1>1
  <2>3. CopiesOf(ps, p) = {k \in 1 .. N + 1 : ps[k] = p} /\ CopiesAmong(v, p) = {k \in 1 .. N : v[k] = p}
    BY <1>3, <1>4
  <2>4. ASSUME NEW k \in CopiesOf(ps, p) PROVE k \in CopiesAmong(v, p)
    <3>1. k \in 1 .. N + 1 /\ ps[k] = p
      BY <2>3
    <3>2. k \in 1 .. N
      BY <1>1, <1>6, <2>1, <3>1
    <3> QED BY <1>1, <2>3, <3>1, <3>2
  <2>5. ASSUME NEW k \in CopiesAmong(v, p) PROVE k \in CopiesOf(ps, p)
    <3>1. k \in 1 .. N /\ v[k] = p
      BY <2>3
    <3> QED BY <1>1, <2>2, <2>3, <3>1
  <2> QED BY <2>4, <2>5
<1> QED BY <1>1, <1>5, <1>6 DEF ps, N

(* A volume has its recovery packets, in order, and as many copies of each *)
(* critical packet as the count has bits.                                  *)
LEMMA VolumeHolds ==
  ASSUME NEW S, NEW crit, NEW creator, Critical(crit, creator, S), NEW e \in Nat, NEW f \in Nat \ {0},
         NEW count \in Nat \ {0}, \A n \in 1 .. count : Numbered(f, e, n) \in S
  PROVE  Holds(Append(Volume([exponent |-> e, count |-> count], f, crit), creator), e, f, count, crit, creator)
<1> DEFINE v == Volume([exponent |-> e, count |-> count], f, crit)
           copied == BitCount[count] * Len(crit)
           done == DoneBy(count, copied)
           ps == Append(v, creator)
           place == [m \in 1 .. count |-> m + done[m - 1]]
<1>1. /\ crit \in Seq(S) /\ Len(crit) > 0 /\ Different(crit) /\ OnlyCritical(crit)
      /\ creator \in S /\ creator.type # "Recovery" /\ \A i \in 1 .. Len(crit) : crit[i] # creator
  BY DEF Critical
<1>2. copied \in Nat /\ v \in Seq(S) /\ Woven(v, f, e, count, crit, copied, done)
  BY <1>1, VolumeIsWoven
<1>3. Shares(done, count, copied)
  <2> HIDE DEF copied
  <2> QED BY <1>2, DoneFacts DEF Shares
<1>4. BitCount[count] \in Nat \ {0}
  BY BitCountBounds
<1>5. \A i \in 1 .. Len(crit) : IsFiniteSet(TurnsOf(crit, copied, crit[i])) /\
                                Cardinality(TurnsOf(crit, copied, crit[i])) = BitCount[count]
  BY <1>1, <1>4, TurnsCount
<1> HIDE DEF v, copied, done
<1>6. /\ \A k \in 1 .. Len(v) : v[k].type = "Recovery" =>
           \E n \in 1 .. count : k = n + done[n - 1] /\ v[k] = Numbered(f, e, n)
      /\ \A m, n \in 1 .. count : m < n => m + done[m - 1] < n + done[n - 1]
  BY <1>1, <1>2, <1>3, RecoveryInWoven
<1>7. \A k \in 1 .. Len(v) : v[k] # creator
  <2> TAKE k \in 1 .. Len(v)
  <2>1. PICK n \in 1 .. count : k = n + done[n - 1] \/ \E j \in 1 .. copied : After(done, n, j) /\ k = n + j
    BY <1>2 DEF Woven
  <2>2. CASE k = n + done[n - 1]
    <3>1. v[k] = Numbered(f, e, n)
      BY <1>2, <2>2 DEF Woven
    <3>2. v[k].type = "Recovery"
      BY <3>1 DEF Numbered
    <3> QED BY <1>1, <3>2
  <2>3. ASSUME NEW j \in 1 .. copied, After(done, n, j), k = n + j PROVE v[k] # creator
    <3>1. v[k] = TurnOf(crit, j)
      BY <1>2, <2>3 DEF Woven
    <3>2. Len(crit) \in Nat \ {0} /\ j - 1 \in Nat
      BY <1>1, <1>2
    <3>3. (j - 1) % Len(crit) \in 0 .. Len(crit) - 1
      BY <3>2
    <3>4. ((j - 1) % Len(crit)) + 1 \in 1 .. Len(crit)
      BY <3>2, <3>3
    <3> QED BY <1>1, <3>1, <3>4 DEF TurnOf
  <2> QED BY <2>1, <2>2, <2>3
<1>8. /\ DOMAIN ps = 1 .. Len(v) + 1 /\ \A k \in 1 .. Len(v) : ps[k] = v[k]
      /\ ps[Len(v) + 1] = creator /\ CopiesOf(ps, creator) = {Len(v) + 1}
      /\ \A p : p # creator => CopiesOf(ps, p) = CopiesAmong(v, p)
  BY <1>1, <1>2, <1>7, LastOne
<1> HIDE DEF ps
<1>9. Placed(ps, place, e, f, count)
  <2>1. \A m \in 1 .. count : done[m - 1] \in Nat
    <3>1. \A m \in 1 .. count : m - 1 \in 0 .. count
      OBVIOUS
    <3> QED BY <1>3, <3>1 DEF Shares
  <2>2. place \in [1 .. count -> Nat]
    BY <2>1
  <2>3. \A m \in 1 .. count : place[m] = m + done[m - 1]
    OBVIOUS
  <2> HIDE DEF place
  <2>4. ASSUME NEW m \in 1 .. count PROVE place[m] \in DOMAIN ps /\ ps[place[m]] = Numbered(f, e, m)
    <3>1. place[m] \in 1 .. Len(v) /\ v[place[m]] = Numbered(f, e, m)
      BY <1>2, <2>3 DEF Woven
    <3>2. Len(v) \in Nat
      BY <1>2
    <3>3. place[m] \in 1 .. Len(v) + 1
      BY <3>1, <3>2
    <3> QED BY <1>8, <3>1, <3>3
  <2>5. ASSUME NEW k \in DOMAIN ps, ps[k].type = "Recovery" PROVE \E m \in 1 .. count : k = place[m]
    <3>1. k \in 1 .. Len(v) \/ k = Len(v) + 1
      <4>1. Len(v) \in Nat
        BY <1>2
      <4> QED BY <1>8, <4>1
    <3>2. k # Len(v) + 1
      BY <1>1, <1>8, <2>5
    <3>3. k \in 1 .. Len(v) /\ v[k].type = "Recovery"
      BY <1>8, <2>5, <3>1, <3>2
    <3> QED BY <1>6, <2>3, <3>3
  <2>6. \A m, n \in 1 .. count : m < n => place[m] < place[n]
    BY <1>6, <2>3
  <2> QED BY <2>2, <2>4, <2>5, <2>6 DEF Placed
<1>10. Copied(ps, BitCount[count], crit, creator)
  <2>1. ASSUME NEW i \in 1 .. Len(crit) PROVE Cardinality(CopiesOf(ps, crit[i])) = BitCount[count]
    <3>1. crit[i].type # "Recovery" /\ crit[i] # creator
      BY <1>1 DEF OnlyCritical
    <3>2. Cardinality(CopiesAmong(v, crit[i])) = Cardinality(TurnsOf(crit, copied, crit[i]))
      BY <1>1, <1>2, <1>3, <1>5, <3>1, CopiesInWoven
    <3> QED BY <1>5, <1>8, <3>1, <3>2
  <2>2. Cardinality(CopiesOf(ps, creator)) = 1
    BY <1>8, FS_Singleton
  <2> QED BY <2>1, <2>2 DEF Copied
<1> QED BY <1>4, <1>9, <1>10 DEF Holds, ps, v

(* The extra file has the critical packets, once.                          *)
LEMMA ExtraHolds ==
  ASSUME NEW S, NEW crit, NEW creator, Critical(crit, creator, S), NEW e, NEW f
  PROVE  Holds(Append(crit, creator), e, f, 0, crit, creator)
<1> DEFINE ps == Append(crit, creator)
           place == [m \in 1 .. 0 |-> 0]
<1>1. /\ crit \in Seq(S) /\ Len(crit) > 0 /\ Different(crit) /\ OnlyCritical(crit)
      /\ creator \in S /\ creator.type # "Recovery" /\ \A i \in 1 .. Len(crit) : crit[i] # creator
  BY DEF Critical
<1>2. /\ DOMAIN ps = 1 .. Len(crit) + 1 /\ \A k \in 1 .. Len(crit) : ps[k] = crit[k]
      /\ ps[Len(crit) + 1] = creator /\ CopiesOf(ps, creator) = {Len(crit) + 1}
      /\ \A p : p # creator => CopiesOf(ps, p) = CopiesAmong(crit, p)
  BY <1>1, LastOne
<1> HIDE DEF ps
<1>3. Placed(ps, place, e, f, 0)
  <2>1. ASSUME NEW k \in DOMAIN ps PROVE ps[k].type # "Recovery"
    <3>1. k \in 1 .. Len(crit) \/ k = Len(crit) + 1
      <4>1. Len(crit) \in Nat
        BY <1>1
      <4> QED BY <1>2, <4>1
    <3> QED BY <1>1, <1>2, <3>1 DEF OnlyCritical
  <2>2. place \in [1 .. 0 -> Nat]
    OBVIOUS
  <2>3. \A m \in 1 .. 0 : FALSE
    OBVIOUS
  <2> HIDE DEF place
  <2> QED BY <2>1, <2>2, <2>3 DEF Placed
<1>4. Copied(ps, 1, crit, creator)
  <2>1. ASSUME NEW i \in 1 .. Len(crit) PROVE Cardinality(CopiesOf(ps, crit[i])) = 1
    <3>1. CopiesOf(ps, crit[i]) = CopiesAmong(crit, crit[i])
      BY <1>1, <1>2
    <3>2. CopiesAmong(crit, crit[i]) = {i}
      BY <1>1 DEF CopiesAmong, Different
    <3> QED BY <3>1, <3>2, FS_Singleton
  <2>2. Cardinality(CopiesOf(ps, creator)) = 1
    BY <1>2, FS_Singleton
  <2> QED BY <2>1, <2>2 DEF Copied
<1>5. 1 \in Nat \ {0}
  OBVIOUS
<1> QED BY <1>3, <1>4, <1>5 DEF Holds, ps

-----------------------------------------------------------------------------
(* The critical packets differ from each other and from the others.        *)
AnyPacket(F) ==
  [type : {"Main", "Creator"}] \union [type : {"Description", "Verification"}, of : F]
  \union [type : {"Recovery"}, of : Nat, exponent : Nat]
Creator == [type |-> "Creator"]
Description(f) == [type |-> "Description", of |-> f]
Verification(f) == [type |-> "Verification", of |-> f]

(* Which packet comes at which place.                                      *)
Follows(crit, order, m) ==
  /\ Len(crit) = 1 + m + m /\ crit[1].type = "Main"
  /\ \A a \in 1 .. m : crit[1 + a] = Description(order[a]) /\ crit[1 + m + a] = Verification(order[a])

LEMMA CriticalFollows ==
  ASSUME NEW F, NEW order \in Seq(F)
  PROVE  CriticalPackets(order) \in Seq(AnyPacket(F)) /\ Follows(CriticalPackets(order), order, Len(order))
<1> DEFINE m == Len(order)
           A == AnyPacket(F)
           s == <<[type |-> "Main"]>>
           d == [i \in DOMAIN order |-> [type |-> "Description", of |-> order[i]]]
           v == [i \in DOMAIN order |-> [type |-> "Verification", of |-> order[i]]]
<1>1. m \in Nat /\ DOMAIN order = 1 .. m /\ \A i \in 1 .. m : order[i] \in F
  OBVIOUS
<1>2. [type |-> "Main"] \in A /\ \A f \in F : Description(f) \in A /\ Verification(f) \in A
  BY DEF AnyPacket, Description, Verification
<1>3. CriticalPackets(order) = (s \o d) \o v
  BY DEF CriticalPackets
<1>4. d = [i \in 1 .. m |-> Description(order[i])] /\ v = [i \in 1 .. m |-> Verification(order[i])]
  BY <1>1 DEF Description, Verification
<1>5. s \in Seq(A) /\ Len(s) = 1 /\ s[1].type = "Main"
  BY <1>2
<1> HIDE DEF m, A, s, d, v
<1>6. d \in Seq(A) /\ Len(d) = m /\ v \in Seq(A) /\ Len(v) = m
  <2>1. \A i \in 1 .. m : Description(order[i]) \in A /\ Verification(order[i]) \in A
    BY <1>1, <1>2
  <2> QED BY <1>1, <1>4, <2>1
<1>7. \A a \in 1 .. m : d[a] = Description(order[a]) /\ v[a] = Verification(order[a])
  BY <1>4
<1>8. /\ s \o d \in Seq(A) /\ Len(s \o d) = Len(s) + Len(d)
      /\ \A i \in 1 .. Len(s) + Len(d) : (s \o d)[i] = IF i <= Len(s) THEN s[i] ELSE d[i - Len(s)]
  BY ONLY <1>5, <1>6, ConcatProperties
<1> DEFINE sd == s \o d
<1> HIDE DEF sd
<1>9. sd \in Seq(A) /\ Len(sd) = 1 + m /\ sd[1] = s[1] /\ \A a \in 1 .. m : sd[1 + a] = d[a]
  <2>1. /\ sd \in Seq(A) /\ Len(sd) = 1 + m
        /\ \A i \in 1 .. 1 + m : sd[i] = IF i <= 1 THEN s[i] ELSE d[i - 1]
    BY <1>5, <1>6, <1>8 DEF sd
  <2>2. 1 \in 1 .. 1 + m /\ \A a \in 1 .. m : 1 + a \in 1 .. 1 + m /\ ~(1 + a <= 1) /\ (1 + a) - 1 = a
    BY <1>1
  <2> QED BY ONLY <2>1, <2>2
<1>10. /\ sd \o v \in Seq(A) /\ Len(sd \o v) = Len(sd) + Len(v)
       /\ \A i \in 1 .. Len(sd) + Len(v) : (sd \o v)[i] = IF i <= Len(sd) THEN sd[i] ELSE v[i - Len(sd)]
  BY ONLY <1>6, <1>9, ConcatProperties
<1> DEFINE whole == sd \o v
<1>11. whole = CriticalPackets(order)
  BY <1>3 DEF sd
<1> HIDE DEF whole
<1>12. /\ whole \in Seq(A) /\ Len(whole) = 1 + m + m
       /\ \A i \in 1 .. 1 + m + m : whole[i] = IF i <= 1 + m THEN sd[i] ELSE v[i - (1 + m)]
  BY <1>6, <1>9, <1>10 DEF whole
<1>13. whole[1] = sd[1]
  BY <1>1, <1>12
<1>14. ASSUME NEW a \in 1 .. m PROVE whole[1 + a] = sd[1 + a] /\ whole[1 + m + a] = v[a]
  <2>1. /\ 1 + a \in 1 .. 1 + m + m /\ 1 + a <= 1 + m
        /\ 1 + m + a \in 1 .. 1 + m + m /\ ~(1 + m + a <= 1 + m) /\ (1 + m + a) - (1 + m) = a
    BY <1>1
  <2> QED BY ONLY <2>1, <1>12
<1>15. Follows(whole, order, m)
  BY <1>5, <1>7, <1>9, <1>12, <1>13, <1>14 DEF Follows
<1> QED BY <1>11, <1>12, <1>15 DEF A, m

LEMMA CriticalFacts ==
  ASSUME NEW F, NEW order \in Seq(F), \A a, b \in 1 .. Len(order) : order[a] = order[b] => a = b
  PROVE  Critical(CriticalPackets(order), Creator, AnyPacket(F))
<1> DEFINE crit == CriticalPackets(order)
           m == Len(order)
           FirstPart(i) == i = 1 /\ crit[i].type = "Main"
           SecondPart(i) == \E a \in 1 .. m : i = 1 + a /\ crit[i] = Description(order[a])
           LastPart(i) == \E a \in 1 .. m : i = 1 + m + a /\ crit[i] = Verification(order[a])
<1>1. crit \in Seq(AnyPacket(F)) /\ Follows(crit, order, m) /\ m \in Nat
  BY CriticalFollows
<1>2. \A f : /\ Description(f).type = "Description" /\ Verification(f).type = "Verification"
             /\ Description(f).of = f /\ Verification(f).of = f
  BY DEF Description, Verification
<1>3. \A a, b \in 1 .. m : order[a] = order[b] => a = b
  OBVIOUS
<1> HIDE DEF crit, m
<1>4. Len(crit) = 1 + m + m /\ Len(crit) > 0
  BY <1>1 DEF Follows
<1>5. ASSUME NEW i \in 1 .. Len(crit) PROVE FirstPart(i) \/ SecondPart(i) \/ LastPart(i)
  <2>1. CASE i = 1
    BY <1>1, <2>1 DEF Follows
  <2>2. CASE i # 1 /\ i <= 1 + m
    <3>1. i - 1 \in 1 .. m /\ i = 1 + (i - 1)
      BY <1>1, <1>4, <2>2
    <3>2. crit[1 + (i - 1)] = Description(order[i - 1])
      BY <1>1, <3>1 DEF Follows
    <3> QED BY <3>1, <3>2
  <2>3. CASE ~(i <= 1 + m)
    <3>1. i - (1 + m) \in 1 .. m /\ i = 1 + m + (i - (1 + m))
      BY <1>1, <1>4, <2>3
    <3>2. crit[1 + m + (i - (1 + m))] = Verification(order[i - (1 + m)])
      BY <1>1, <3>1 DEF Follows
    <3> QED BY <3>1, <3>2
  <2> QED BY <2>1, <2>2, <2>3
<1>6. Different(crit)
  <2> SUFFICES ASSUME NEW i \in 1 .. Len(crit), NEW j \in 1 .. Len(crit), crit[i] = crit[j] PROVE i = j
    BY DEF Different
  <2>1. (FirstPart(i) \/ SecondPart(i) \/ LastPart(i)) /\ (FirstPart(j) \/ SecondPart(j) \/ LastPart(j))
    BY <1>5
  <2>2. CASE FirstPart(i)
    BY <1>2, <2>1, <2>2
  <2>3. CASE SecondPart(i)
    <3>1. SecondPart(j)
      BY <1>2, <2>1, <2>3
    <3> QED BY <1>2, <1>3, <2>3, <3>1
  <2>4. CASE LastPart(i)
    <3>1. LastPart(j)
      BY <1>2, <2>1, <2>4
    <3> QED BY <1>2, <1>3, <2>4, <3>1
  <2> QED BY <2>1, <2>2, <2>3, <2>4
<1>7. ASSUME NEW i \in 1 .. Len(crit) PROVE crit[i].type \in {"Main", "Description", "Verification"}
  BY <1>2, <1>5
<1>8. OnlyCritical(crit)
  <2>1. "Recovery" \notin {"Main", "Description", "Verification"}
    OBVIOUS
  <2> QED BY <1>7, <2>1 DEF OnlyCritical
<1>9. Creator.type = "Creator" /\ Creator \in AnyPacket(F)
  BY DEF Creator, AnyPacket
<1>10. \A i \in 1 .. Len(crit) : crit[i] # Creator
  <2>1. "Creator" \notin {"Main", "Description", "Verification"}
    OBVIOUS
  <2> QED BY <1>7, <1>9, <2>1
<1>11. "Creator" # "Recovery"
  OBVIOUS
<1> QED BY <1>1, <1>4, <1>6, <1>8, <1>9, <1>10, <1>11 DEF Critical, crit

-----------------------------------------------------------------------------
(* How far the volumes reach.                                              *)

(* No volume is empty, so the totals rise.                                 *)
LEMMA TotalsRise ==
  ASSUME NEW n \in Nat, NEW blocks \in Nat, NEW counts, NEW t, Fills(t, counts, n, blocks)
  PROVE  /\ \A i \in 0 .. n : t[i] \in Nat
         /\ \A i \in 1 .. n : t[i] = t[i - 1] + counts[i] /\ counts[i] \in Nat \ {0}
         /\ \A i, j \in 0 .. n : i < j => t[i] < t[j]
<1>1. \A i \in 1 .. n : t[i] = t[i - 1] + counts[i] /\ counts[i] \in Nat \ {0}
  BY DEF Fills, Totals
<1> DEFINE P == {i \in 0 .. n : t[i] \in Nat}
<1>2. P = 0 .. n
  <2>1. 0 \in P
    BY DEF Fills, Totals
  <2>2. ASSUME NEW i \in P, i < n PROVE i + 1 \in P
    <3>1. i + 1 \in 1 .. n /\ i + 1 \in 0 .. n /\ (i + 1) - 1 = i /\ t[i] \in Nat
      BY <2>2
    <3>2. t[i + 1] = t[i] + counts[i + 1] /\ counts[i + 1] \in Nat
      BY <1>1, <3>1
    <3> QED BY <3>1, <3>2
  <2>3. P \in SUBSET (0 .. n)
    OBVIOUS
  <2> HIDE DEF P
  <2> QED BY <2>1, <2>2, <2>3, InductionUpTo
<1>3. \A i \in 0 .. n : t[i] \in Nat
  BY <1>2
<1>4. ASSUME NEW i \in 0 .. n, NEW j \in 0 .. n, i < j PROVE t[i] < t[j]
  <2> DEFINE Q == {k \in 0 .. n : i < k => t[i] < t[k]}
  <2>1. 0 \in Q
    OBVIOUS
  <2>2. ASSUME NEW k \in Q, k < n PROVE k + 1 \in Q
    <3>1. k + 1 \in 1 .. n /\ k + 1 \in 0 .. n /\ (k + 1) - 1 = k /\ k \in 0 .. n
      BY <2>2
    <3>2. t[k + 1] = t[k] + counts[k + 1] /\ counts[k + 1] \in Nat \ {0} /\ t[k] \in Nat /\ t[i] \in Nat
      BY <1>1, <1>3, <3>1
    <3>3. i < k + 1 => i < k \/ i = k
      BY <3>1
    <3>4. i < k => t[i] < t[k]
      OBVIOUS
    <3> QED BY <3>1, <3>2, <3>3, <3>4
  <2>3. Q \in SUBSET (0 .. n)
    OBVIOUS
  <2> HIDE DEF Q
  <2>4. Q = 0 .. n
    BY <2>1, <2>2, <2>3, InductionUpTo
  <2>5. j \in Q
    BY <2>4
  <2> QED BY <2>5, <1>4 DEF Q
<1> QED BY <1>1, <1>3, <1>4

(* Each recovery block is within the reach of exactly one volume.          *)
LEMMA OneReaches ==
  ASSUME NEW n \in Nat, NEW blocks \in Nat, NEW counts, NEW t, Fills(t, counts, n, blocks), NEW b \in 1 .. blocks
  PROVE  /\ \E i \in 1 .. n : t[i - 1] < b /\ b <= t[i]
         /\ \A i, j \in 1 .. n : (t[i - 1] < b /\ b <= t[i] /\ t[j - 1] < b /\ b <= t[j]) => i = j
<1>1. /\ \A i \in 0 .. n : t[i] \in Nat
      /\ \A i, j \in 0 .. n : i < j => t[i] < t[j]
  BY TotalsRise
<1>2. t[0] = 0 /\ t[n] = blocks
  BY DEF Fills, Totals
<1> DEFINE Q == {i \in 0 .. n : b <= t[i]}
<1>3. PICK i \in Q : \A j \in Q : i <= j
  <2>1. n \in Q /\ Q \in SUBSET Nat
    BY <1>2
  <2> HIDE DEF Q
  <2> QED BY <2>1, LeastNumber
<1>4. i # 0 /\ i \in 0 .. n /\ b <= t[i]
  BY <1>2, <1>3
<1>5. i \in 1 .. n /\ i - 1 \in 0 .. n /\ ~(i <= i - 1)
  BY <1>4
<1>6. t[i - 1] < b
  <2>1. ~(b <= t[i - 1])
    BY <1>3, <1>5
  <2>2. t[i - 1] \in Nat
    BY <1>1, <1>5
  <2> QED BY <2>1, <2>2
<1>7. ASSUME NEW k \in 1 .. n, NEW j \in 1 .. n, t[k - 1] < b, b <= t[k], t[j - 1] < b, b <= t[j], k < j
      PROVE  FALSE
  <2>1. k \in 0 .. n /\ j - 1 \in 0 .. n /\ (k < j - 1 \/ k = j - 1)
    BY <1>7
  <2>2. t[k] \in Nat /\ t[j - 1] \in Nat /\ (k < j - 1 => t[k] < t[j - 1])
    BY <1>1, <2>1
  <2> QED BY <1>7, <2>1, <2>2
<1>8. \A k, j \in 1 .. n : ~(k < j) /\ ~(j < k) => k = j
  OBVIOUS
<1> QED BY <1>4, <1>5, <1>6, <1>7, <1>8

-----------------------------------------------------------------------------
(* What the property says, of files that hold what they are to hold.       *)

Laid(t, counts, n, crit) ==
  /\ n \in Nat /\ recoveryblockcount \in Nat /\ ask.firstblock \in Nat
  /\ Fills(t, counts, n, recoveryblockcount)
  /\ DOMAIN recoveryfiles = 1 .. n + 1 /\ Len(recoveryfiles) = n + 1
  /\ \A i \in 1 .. n :
       /\ recoveryfiles[i].name = <<ask.firstblock + t[i - 1], counts[i]>>
       /\ Holds(recoveryfiles[i].packets, ask.firstblock + t[i - 1], t[i - 1] + 1, counts[i], crit, Creator)
  /\ recoveryfiles[n + 1].name = <<None, 0>>
  /\ Holds(recoveryfiles[n + 1].packets, 0, 1, 0, crit, Creator)

(* The recovery packets of a volume, by their number in the set.           *)
InVolume(i, place, t, counts) ==
  LET ps == recoveryfiles[i].packets
  IN /\ place \in [1 .. counts[i] -> Nat]
     /\ \A m \in 1 .. counts[i] : place[m] \in DOMAIN ps /\ ps[place[m]] = RecoveryPacket(t[i - 1] + m)
     /\ \A k \in DOMAIN ps : ps[k].type = "Recovery" => \E m \in 1 .. counts[i] : k = place[m]
     /\ \A m, l \in 1 .. counts[i] : m < l => place[m] < place[l]

LEMMA PacketFacts ==
  \A b : RecoveryPacket(b).type = "Recovery" /\ RecoveryPacket(b).of = b
         /\ RecoveryPacket(b).exponent = ask.firstblock + b - 1
BY DEF RecoveryPacket

LEMMA VolumePlaces ==
  ASSUME NEW t, NEW counts, NEW n, NEW crit, Laid(t, counts, n, crit), NEW i \in 1 .. n
  PROVE  \E place : InVolume(i, place, t, counts)
<1>1. /\ t[i - 1] \in Nat /\ counts[i] \in Nat \ {0} /\ ask.firstblock \in Nat
  <2>1. i - 1 \in 0 .. n /\ n \in Nat
    BY DEF Laid
  <2> QED BY <2>1, TotalsRise DEF Laid
<1> DEFINE ps == recoveryfiles[i].packets
           e == ask.firstblock + t[i - 1]
           f == t[i - 1] + 1
<1>2. PICK place : Placed(ps, place, e, f, counts[i])
  BY DEF Laid, Holds
<1>3. \A m \in 1 .. counts[i] : Numbered(f, e, m) = RecoveryPacket(t[i - 1] + m)
  <2> TAKE m \in 1 .. counts[i]
  <2>1. f + m - 1 = t[i - 1] + m /\ e + m - 1 = ask.firstblock + (t[i - 1] + m) - 1
    BY <1>1
  <2> QED BY <2>1 DEF Numbered, RecoveryPacket
<1>4. InVolume(i, place, t, counts)
  <2> HIDE DEF e, f
  <2> QED BY <1>2, <1>3 DEF Placed, InVolume
<1> QED BY <1>4

LEMMA NoneInExtra ==
  ASSUME NEW t, NEW counts, NEW n, NEW crit, Laid(t, counts, n, crit)
  PROVE  \A k \in DOMAIN recoveryfiles[n + 1].packets : recoveryfiles[n + 1].packets[k].type # "Recovery"
<1>1. PICK place : Placed(recoveryfiles[n + 1].packets, place, 0, 1, 0)
  BY DEF Laid, Holds
<1>2. \A m \in 1 .. 0 : FALSE
  OBVIOUS
<1> QED BY <1>1, <1>2 DEF Placed

LEMMA FileIndices ==
  ASSUME NEW t, NEW counts, NEW n, NEW crit, Laid(t, counts, n, crit), NEW i \in DOMAIN recoveryfiles
  PROVE  i \in 1 .. n \/ i = n + 1
BY DEF Laid

(* A recovery block that was asked for is in one volume, once.             *)
LEMMA PlacedOnce ==
  ASSUME NEW t, NEW counts, NEW n, NEW crit, Laid(t, counts, n, crit), NEW b \in 1 .. recoveryblockcount
  PROVE  Cardinality(Places(RecoveryPacket(b))) = 1
<1>1. n \in Nat /\ recoveryblockcount \in Nat /\ Fills(t, counts, n, recoveryblockcount)
  BY DEF Laid
<1>2. /\ \A i \in 1 .. n : t[i - 1] \in Nat /\ t[i] = t[i - 1] + counts[i] /\ counts[i] \in Nat \ {0}
  <2>1. \A i \in 1 .. n : i - 1 \in 0 .. n
    BY <1>1
  <2> QED BY <1>1, <2>1, TotalsRise
<1>3. PICK i \in 1 .. n : t[i - 1] < b /\ b <= t[i]
  BY <1>1, OneReaches
<1>4. PICK place : InVolume(i, place, t, counts)
  BY VolumePlaces
<1> DEFINE m == b - t[i - 1]
<1>5. m \in 1 .. counts[i] /\ t[i - 1] + m = b
  BY <1>1, <1>2, <1>3
<1> HIDE DEF m
<1>6. /\ place[m] \in DOMAIN recoveryfiles[i].packets /\ recoveryfiles[i].packets[place[m]] = RecoveryPacket(b)
  BY <1>4, <1>5 DEF InVolume
<1>7. i \in DOMAIN recoveryfiles
  BY <1>1 DEF Laid
<1>8. <<i, place[m]>> \in Places(RecoveryPacket(b))
  BY <1>6, <1>7 DEF Places
<1>9. ASSUME NEW x \in Places(RecoveryPacket(b)) PROVE x = <<i, place[m]>>
  <2>1. PICK j \in DOMAIN recoveryfiles :
          x \in {j} \X {k \in DOMAIN recoveryfiles[j].packets : recoveryfiles[j].packets[k] = RecoveryPacket(b)}
    BY <1>9 DEF Places
  <2>2. PICK k \in DOMAIN recoveryfiles[j].packets : x = <<j, k>> /\ recoveryfiles[j].packets[k] = RecoveryPacket(b)
    BY <2>1
  <2>3. recoveryfiles[j].packets[k].type = "Recovery"
    BY <2>2, PacketFacts
  <2>4. j \in 1 .. n
    BY <2>3, FileIndices, NoneInExtra
  <2>5. PICK other : InVolume(j, other, t, counts)
    BY <2>4, VolumePlaces
  <2>6. PICK l \in 1 .. counts[j] : k = other[l]
    BY <2>3, <2>5 DEF InVolume
  <2>7. RecoveryPacket(t[j - 1] + l) = RecoveryPacket(b)
    BY <2>2, <2>5, <2>6 DEF InVolume
  <2>8. t[j - 1] + l = b
    BY <2>7, PacketFacts
  <2>9. t[j - 1] < b /\ b <= t[j]
    <3>1. t[j - 1] \in Nat /\ counts[j] \in Nat /\ t[j] = t[j - 1] + counts[j]
      BY <1>2, <2>4
    <3> QED BY <3>1, <2>6, <2>8
  <2>10. j = i
    BY <1>1, <1>3, <2>4, <2>9, OneReaches
  <2>11. PICK l2 \in 1 .. counts[i] : k = place[l2]
    BY <1>4, <2>3, <2>10 DEF InVolume
  <2>12. RecoveryPacket(t[i - 1] + l2) = RecoveryPacket(b)
    BY <1>4, <2>2, <2>10, <2>11 DEF InVolume
  <2>13. t[i - 1] + l2 = b
    BY <2>12, PacketFacts
  <2>14. l2 = m
    <3>1. t[i - 1] \in Nat /\ l2 \in Int /\ m \in Int
      BY <1>2, <1>5
    <3> QED BY <3>1, <1>5, <2>13
  <2> QED BY <2>2, <2>10, <2>11, <2>14
<1>10. Places(RecoveryPacket(b)) = {<<i, place[m]>>}
  BY <1>8, <1>9
<1> QED BY <1>10, FS_Singleton

(* What a file is named is what it holds.                                  *)
LEMMA AllNamedRightly ==
  ASSUME NEW t, NEW counts, NEW n, NEW crit, Laid(t, counts, n, crit), NEW i \in DOMAIN recoveryfiles
  PROVE  NamedRightly(i)
<1> DEFINE name == recoveryfiles[i].name
           ps == recoveryfiles[i].packets
           recovery == {k \in DOMAIN ps : ps[k].type = "Recovery"}
<1>1. CASE i = n + 1
  <2>1. recovery = {}
    BY <1>1, NoneInExtra
  <2> QED BY <2>1 DEF NamedRightly
<1>2. CASE i \in 1 .. n
  <2>1. PICK place : InVolume(i, place, t, counts)
    BY <1>2, VolumePlaces
  <2>2. /\ n \in Nat /\ recoveryblockcount \in Nat /\ ask.firstblock \in Nat
        /\ t[i - 1] \in Nat /\ counts[i] \in Nat \ {0} /\ t[i] = t[i - 1] + counts[i] /\ t[i] <= recoveryblockcount
    <3>1. n \in Nat /\ recoveryblockcount \in Nat /\ ask.firstblock \in Nat
          /\ Fills(t, counts, n, recoveryblockcount)
      BY DEF Laid
    <3>2. /\ \A j \in 0 .. n : t[j] \in Nat
          /\ \A j \in 1 .. n : t[j] = t[j - 1] + counts[j] /\ counts[j] \in Nat \ {0}
          /\ \A j, k \in 0 .. n : j < k => t[j] < t[k]
      BY <3>1, TotalsRise
    <3>3. i - 1 \in 0 .. n /\ i \in 0 .. n /\ n \in 0 .. n /\ (i < n \/ i = n)
      BY <1>2, <3>1
    <3>4. t[n] = recoveryblockcount
      BY <3>1 DEF Fills
    <3> QED BY <1>2, <3>1, <3>2, <3>3, <3>4
  <2>3. name = <<ask.firstblock + t[i - 1], counts[i]>>
    BY <1>2 DEF Laid
  <2>4. name[1] = ask.firstblock + t[i - 1] /\ name[2] = counts[i]
    BY <2>3
  <2> HIDE DEF name
  <2>5. ASSUME NEW k \in recovery
        PROVE  \E b \in 1 .. recoveryblockcount :
                 ps[k] = RecoveryPacket(b) /\ ps[k].exponent \in name[1] .. name[1] + name[2] - 1
    <3>1. PICK m \in 1 .. counts[i] : k = place[m]
      BY <2>1, <2>5 DEF InVolume
    <3>2. ps[k] = RecoveryPacket(t[i - 1] + m)
      BY <2>1, <3>1 DEF InVolume
    <3>3. ps[k].exponent = ask.firstblock + (t[i - 1] + m) - 1
      BY <3>2, PacketFacts
    <3>4. t[i - 1] + m \in 1 .. recoveryblockcount
      BY <2>2, <3>1
    <3>5. ask.firstblock + (t[i - 1] + m) - 1
            \in ask.firstblock + t[i - 1] .. ask.firstblock + t[i - 1] + counts[i] - 1
      BY <2>2, <3>1
    <3> QED BY <2>4, <3>2, <3>3, <3>4, <3>5
  <2>6. ASSUME NEW j \in recovery, NEW k \in recovery, j < k PROVE ps[j].of < ps[k].of
    <3>1. PICK m \in 1 .. counts[i] : j = place[m]
      BY <2>1, <2>6 DEF InVolume
    <3>2. PICK l \in 1 .. counts[i] : k = place[l]
      BY <2>1, <2>6 DEF InVolume
    <3>3. ps[j] = RecoveryPacket(t[i - 1] + m) /\ ps[k] = RecoveryPacket(t[i - 1] + l)
      BY <2>1, <3>1, <3>2 DEF InVolume
    <3>4. ps[j].of = t[i - 1] + m /\ ps[k].of = t[i - 1] + l
      BY <3>3, PacketFacts
    <3>5. m < l
      <4>1. place[m] \in Nat /\ place[l] \in Nat /\ (l < m => place[l] < place[m])
        BY <2>1 DEF InVolume
      <4>2. place[m] < place[l]
        BY <2>6, <3>1, <3>2
      <4>3. ~(l < m) /\ l # m
        BY <4>1, <4>2
      <4> QED BY <4>3
    <3> QED BY <2>2, <3>4, <3>5
  <2> QED BY <2>5, <2>6 DEF NamedRightly, name
<1> QED BY <1>1, <1>2, FileIndices

(* Volumes begin at different exponents, and the extra file has no blocks. *)
LEMMA NamesDiffer ==
  ASSUME NEW t, NEW counts, NEW n, NEW crit, Laid(t, counts, n, crit),
         NEW i \in DOMAIN recoveryfiles, NEW j \in DOMAIN recoveryfiles,
         recoveryfiles[i].name = recoveryfiles[j].name
  PROVE  i = j
<1>1. /\ n \in Nat /\ ask.firstblock \in Nat
      /\ \A k \in 1 .. n : t[k - 1] \in Nat /\ counts[k] \in Nat \ {0}
      /\ \A k, l \in 1 .. n : k < l => t[k - 1] < t[l - 1]
  <2>1. n \in Nat /\ recoveryblockcount \in Nat /\ ask.firstblock \in Nat
        /\ Fills(t, counts, n, recoveryblockcount)
    BY DEF Laid
  <2>2. /\ \A k \in 0 .. n : t[k] \in Nat
        /\ \A k \in 1 .. n : counts[k] \in Nat \ {0}
        /\ \A k, l \in 0 .. n : k < l => t[k] < t[l]
    BY <2>1, TotalsRise
  <2>3. \A k \in 1 .. n : k - 1 \in 0 .. n
    BY <2>1
  <2>4. \A k, l \in 1 .. n : k < l => k - 1 < l - 1
    BY <2>1
  <2> QED BY <2>1, <2>2, <2>3, <2>4
<1> DEFINE N(k) == recoveryfiles[k].name
<1>2. \A k \in 1 .. n : N(k) = <<ask.firstblock + t[k - 1], counts[k]>>
  BY DEF Laid
<1>3. N(n + 1) = <<None, 0>>
  BY DEF Laid
<1>4. N(i) = N(j)
  OBVIOUS
<1> HIDE DEF N
<1>5. \A k \in 1 .. n : N(k)[1] = ask.firstblock + t[k - 1] /\ N(k)[2] = counts[k]
  BY <1>2
<1>6. N(n + 1)[2] = 0
  BY <1>3
<1>7. (i \in 1 .. n \/ i = n + 1) /\ (j \in 1 .. n \/ j = n + 1)
  BY FileIndices
<1>8. CASE i \in 1 .. n /\ j \in 1 .. n
  <2>1. ask.firstblock + t[i - 1] = ask.firstblock + t[j - 1]
    BY <1>4, <1>5, <1>8
  <2>2. t[i - 1] = t[j - 1] /\ t[i - 1] \in Nat
    BY <1>1, <1>8, <2>1
  <2>3. ~(i < j) /\ ~(j < i)
    BY <1>1, <1>8, <2>2
  <2> QED BY <1>8, <2>3
<1>9. CASE ~(i \in 1 .. n /\ j \in 1 .. n)
  <2>1. \A k \in 1 .. n : N(k) # N(n + 1)
    BY <1>1, <1>5, <1>6
  <2> QED BY <1>4, <1>7, <1>9, <2>1
<1> QED BY <1>8, <1>9

LEMMA CopiesAgree ==
  ASSUME NEW t, NEW counts, NEW n, NEW crit, Laid(t, counts, n, crit), NEW i \in DOMAIN recoveryfiles,
         NEW S, crit \in Seq(S)
  PROVE  /\ \A p, q \in ToSet(crit) : Copies(i, p) = Copies(i, q) /\ Copies(i, p) > 0
         /\ Copies(i, Creator) = 1
<1>1. \E copies \in Nat \ {0} : Copied(recoveryfiles[i].packets, copies, crit, Creator)
  BY FileIndices DEF Laid, Holds
<1>2. PICK copies \in Nat \ {0} : Copied(recoveryfiles[i].packets, copies, crit, Creator)
  BY <1>1
<1>3. \A p : Copies(i, p) = Cardinality(CopiesOf(recoveryfiles[i].packets, p))
  BY DEF Copies, CopiesOf
<1>4. \A p \in ToSet(crit) : Copies(i, p) = copies
  <2> TAKE p \in ToSet(crit)
  <2>1. PICK k \in DOMAIN crit : p = crit[k]
    BY DEF ToSet
  <2>2. k \in 1 .. Len(crit)
    OBVIOUS
  <2> QED BY <1>2, <1>3, <2>1, <2>2 DEF Copied
<1>5. Copies(i, Creator) = 1
  BY <1>2, <1>3 DEF Copied
<1>6. copies > 0
  BY <1>2
<1> QED BY <1>4, <1>5, <1>6

-----------------------------------------------------------------------------
(* The plan of the files, and the invariant that it is followed.           *)

TheCount == ComputeRecoveryFileCount(ask.scheme, ask.recoveryfilecount, recoveryblockcount, Largest)
ThePlan ==
  PacketsOfFiles(FileAllocations(ask.scheme, ask.firstblock, recoveryblockcount, recoveryfilecount, Largest),
                 CriticalPackets(sourcefiles), Creator)
Counted ==
  /\ pc \in Sizing => recoveryfilecount = ask.recoveryfilecount
  /\ pc \notin Sizing \union {"Done"} => recoveryfilecount = TheCount /\ recoveryfilecount # None
  /\ pc \in Sizing \union {"OpenSourceFiles"} => recoveryfiles = <<>>
Planned ==
  recoveryfiles # <<>> =>
    /\ Ordered /\ blocksize # 0
    /\ recoveryfilecount = TheCount /\ recoveryfilecount # None
    /\ recoveryfiles = ThePlan

LEMMA LargestFacts ==
  ASSUME Shape, blocksize # 0
  PROVE  Largest \in Nat \ {0}
<1> DEFINE S == {Len(disk[f]) : f \in DOMAIN disk}
<1>1. /\ IsFiniteSet(DOMAIN disk) /\ DOMAIN disk # {} /\ FileSizes \in [DOMAIN disk -> Nat \ {0}]
      /\ blocksize \in Nat \ {0}
  BY SizedFiles DEF Shape
<1>2. \A f \in DOMAIN disk : Len(disk[f]) \in Nat \ {0}
  <2>1. \A f \in DOMAIN disk : FileSizes[f] = Len(disk[f])
    BY DEF FileSizes
  <2> QED BY <1>1, <2>1
<1>3. S \in SUBSET Nat /\ S # {} /\ 0 \notin S
  BY <1>1, <1>2
<1>4. IsFiniteSet(S)
  <2> DEFINE length == [f \in DOMAIN disk |-> Len(disk[f])]
  <2>1. length \in Surjection(DOMAIN disk, S)
    BY DEF Surjection
  <2> HIDE DEF S, length
  <2> QED BY <1>1, <2>1, FS_Surjection
<1> HIDE DEF S
<1>5. Max(S) \in S
  BY <1>3, <1>4, MaxNatural
<1>6. Max(S) \in Nat \ {0}
  BY <1>3, <1>5
<1> DEFINE most == Max(S)
<1> HIDE DEF most
<1>7. Ceil(most, blocksize) \in Nat /\ Ceil(most, blocksize) > 0
  BY <1>1, <1>6, CeilFacts DEF most
<1> QED BY <1>7 DEF Largest, S, most

LEMMA LargestStays ==
  ASSUME Shape, [Next]_vars, blocksize' = blocksize
  PROVE  Largest' = Largest /\ ask' = ask /\ DOMAIN disk' = DOMAIN disk
<1>1. ask' = ask /\ FileSizes' = FileSizes
  BY FilesKeepTheirSizes
<1>2. DOMAIN FileSizes = DOMAIN disk /\ DOMAIN FileSizes' = DOMAIN disk'
  BY DEF FileSizes
<1>3. DOMAIN disk' = DOMAIN disk
  BY <1>1, <1>2
<1>4. /\ \A f \in DOMAIN disk : FileSizes[f] = Len(disk[f])
      /\ \A f \in DOMAIN disk' : FileSizes'[f] = Len(disk'[f])
  BY DEF FileSizes
<1>5. \A f \in DOMAIN disk : Len(disk'[f]) = Len(disk[f])
  BY <1>1, <1>3, <1>4
<1>6. {Len(disk'[f]) : f \in DOMAIN disk'} = {Len(disk[f]) : f \in DOMAIN disk}
  BY <1>3, <1>5
<1> QED BY <1>1, <1>3, <1>6 DEF Largest

(* What is decided before the files are planned stays as it is.            *)
LEMMA LaterStays ==
  ASSUME [Next]_vars, pc \notin Sizing \union {"OpenSourceFiles"}
  PROVE  /\ UNCHANGED <<blocksize, recoveryblockcount, recoveryfilecount, sourcefiles, recoveryfiles>>
         /\ pc' \notin Sizing \union {"OpenSourceFiles"}
<1>1. CASE UNCHANGED vars
  BY <1>1 DEF vars, sizes, files
<1>2. CASE SourceChanges
  BY <1>2 DEF SourceChanges, sizes, files
<1>3. CASE CreateFile \/ ComputeRSMatrix
  BY <1>3 DEF CreateFile, ComputeRSMatrix, sizes, files, Stop, Goto, Sizing
<1>4. CASE ReadBlock \/ WriteData \/ EndPass
  BY <1>4 DEF ReadBlock, WriteData, EndPass, sizes, files, Stop, Goto, Sizing
<1>5. CASE WriteHeader \/ FinishFileHashComputation \/ WriteCriticalPacket \/ CloseFiles
  BY <1>5 DEF WriteHeader, FinishFileHashComputation, WriteCriticalPacket, CloseFiles, sizes, files, Stop, Goto,
     Sizing
<1>6. ~(Parse \/ CheckBasepath \/ ComputeSizes \/ CreateMainPacket \/ \E f \in DOMAIN disk : OpenSourceFile(f))
  BY DEF Parse, CheckBasepath, ComputeSizes, CreateMainPacket, OpenSourceFile, Sizing
<1> QED BY <1>1, <1>2, <1>3, <1>4, <1>5, <1>6 DEF Next, Create

(* The count is computed once, the plan is made once, and neither a change *)
(* of a source file, which keeps its size, nor a failure makes it another. *)
LEMMA PlanKeeps == (IInv /\ Counted /\ Planned /\ [Next]_vars) => (Counted /\ Planned)'
<1> SUFFICES ASSUME IInv, Counted, Planned, [Next]_vars PROVE Counted' /\ Planned'
  OBVIOUS
<1>1. Shape /\ Staged
  BY DEF IInv
<1>2. blocksize' = blocksize => Largest' = Largest /\ ask' = ask /\ DOMAIN disk' = DOMAIN disk
  BY <1>1, LargestStays
<1>3. CASE pc \notin Sizing \union {"OpenSourceFiles"}
  <2>1. /\ blocksize' = blocksize /\ recoveryblockcount' = recoveryblockcount
        /\ recoveryfilecount' = recoveryfilecount /\ sourcefiles' = sourcefiles /\ recoveryfiles' = recoveryfiles
        /\ pc' \notin Sizing \union {"OpenSourceFiles"}
    BY <1>3, LaterStays
  <2>2. TheCount' = TheCount /\ ThePlan' = ThePlan /\ Ordered' = Ordered
    <3>1. TheCount' = TheCount
      BY <1>2, <2>1 DEF TheCount
    <3>2. ThePlan' = ThePlan
      BY <1>2, <2>1 DEF ThePlan
    <3>3. Ordered' = Ordered
      BY <1>2, <2>1 DEF Ordered
    <3> QED BY <3>1, <3>2, <3>3
  <2>3. Planned'
    BY <2>1, <2>2 DEF Planned
  <2>4. pc' # "Done" => pc # "Done"
    BY DEF Next, Create, Parse, CheckBasepath, ComputeSizes, CreateMainPacket, CreateFile, ComputeRSMatrix,
       ReadBlock, WriteData, EndPass, WriteHeader, FinishFileHashComputation, WriteCriticalPacket, CloseFiles,
       OpenSourceFile, SourceChanges, vars
  <2>5. Counted'
    BY <1>3, <2>1, <2>2, <2>4 DEF Counted
  <2> QED BY <2>3, <2>5
<1>4. CASE pc \in Sizing \union {"OpenSourceFiles"} /\ ~CreateMainPacket
  <2>1. recoveryfiles' = recoveryfiles
    BY <1>4 DEF Next, Create, vars, files, Parse, CheckBasepath, ComputeSizes, CreateFile, ComputeRSMatrix,
       ReadBlock, WriteData, EndPass, WriteHeader, FinishFileHashComputation, WriteCriticalPacket, CloseFiles,
       OpenSourceFile, SourceChanges
  <2>2. recoveryfiles' = <<>>
    BY <1>4, <2>1 DEF Counted
  <2>3. Planned'
    BY <2>2 DEF Planned
  <2>4. ask' = ask
    BY <1>1, FilesKeepTheirSizes
  <2>5. CASE UNCHANGED vars \/ SourceChanges
    <3>1. UNCHANGED <<blocksize, recoveryblockcount, recoveryfilecount, pc>>
      BY <2>5 DEF vars, sizes, SourceChanges
    <3>2. TheCount' = TheCount
      BY <1>2, <3>1 DEF TheCount
    <3> QED BY <2>2, <2>3, <2>4, <3>1, <3>2 DEF Counted
  <2>6. CASE \E f \in DOMAIN disk : OpenSourceFile(f)
    <3>1. /\ UNCHANGED <<blocksize, recoveryblockcount, recoveryfilecount>>
          /\ pc = "OpenSourceFiles" /\ (pc' = pc \/ pc' = "Done")
      BY <2>6 DEF OpenSourceFile, sizes, Stop
    <3>2. TheCount' = TheCount
      BY <1>2, <3>1 DEF TheCount
    <3> QED BY <2>2, <2>3, <3>1, <3>2 DEF Counted, Sizing
  <2>7. CASE Parse \/ CheckBasepath
    <3>1. recoveryfilecount' = recoveryfilecount /\ pc \in Sizing /\ pc' \in Sizing \union {"Done"}
      BY <2>7 DEF Parse, CheckBasepath, sizes, Stop, Goto, Sizing
    <3>2. pc' \in Sizing => recoveryfilecount' = ask'.recoveryfilecount
      BY <2>4, <3>1 DEF Counted
    <3>3. pc' \in Sizing \union {"Done"} => ~(pc' \notin Sizing \union {"Done"})
      OBVIOUS
    <3> QED BY <2>2, <2>3, <3>1, <3>2, <3>3 DEF Counted
  <2>8. CASE ComputeSizes
    <3>1. CASE pc' = "Done"
      BY <2>2, <2>3, <3>1 DEF Counted, Sizing
    <3>2. CASE pc' # "Done"
      <4> DEFINE filecount == ComputeRecoveryFileCount(ask.scheme, recoveryfilecount, recoveryblockcount, Largest)
      <4>1. /\ filecount # None /\ recoveryfilecount' = filecount
            /\ UNCHANGED <<blocksize, recoveryblockcount>> /\ pc' = "OpenSourceFiles"
        BY <2>8, <3>2 DEF ComputeSizes, Stop, Goto
      <4>2. recoveryfilecount = ask.recoveryfilecount
        BY <2>8 DEF ComputeSizes, Counted, Sizing
      <4>3. filecount = TheCount
        BY <4>2 DEF TheCount
      <4> HIDE DEF filecount
      <4>4. TheCount' = TheCount
        BY <1>2, <4>1 DEF TheCount
      <4> QED BY <2>2, <2>3, <4>1, <4>3, <4>4 DEF Counted, Sizing
    <3> QED BY <3>1, <3>2
  <2>9. ~(CreateFile \/ ComputeRSMatrix \/ ReadBlock \/ WriteData \/ EndPass \/ WriteHeader
          \/ FinishFileHashComputation \/ WriteCriticalPacket \/ CloseFiles)
    BY <1>4 DEF CreateFile, ComputeRSMatrix, ReadBlock, WriteData, EndPass, WriteHeader, FinishFileHashComputation,
       WriteCriticalPacket, CloseFiles, Sizing
  <2> QED BY <1>4, <2>5, <2>6, <2>7, <2>8, <2>9 DEF Next, Create
<1>5. CASE CreateMainPacket
  <2>1. /\ pc = "OpenSourceFiles" /\ pc' = "CreateFiles"
        /\ UNCHANGED <<blocksize, recoveryblockcount, recoveryfilecount, ask, disk>>
    BY <1>5 DEF CreateMainPacket, sizes, input, Goto
  <2>2. /\ sourcefiles' \in SetToSeqs(DOMAIN disk)
        /\ recoveryfiles' = PacketsOfFiles(FileAllocations(ask.scheme, ask.firstblock, recoveryblockcount,
                              recoveryfilecount, Largest), CriticalPackets(sourcefiles'), Creator)
    BY <1>5 DEF CreateMainPacket, Creator
  <2>3. blocksize # 0 /\ recoveryfilecount = TheCount /\ recoveryfilecount # None
    BY <1>1, <2>1 DEF Shape, Counted, Sizing
  <2>4. TheCount' = TheCount
    BY <1>2, <2>1 DEF TheCount
  <2>5. Ordered'
    BY <2>1, <2>2 DEF Ordered
  <2>6. ThePlan' = PacketsOfFiles(FileAllocations(ask.scheme, ask.firstblock, recoveryblockcount,
                              recoveryfilecount, Largest), CriticalPackets(sourcefiles'), Creator)
    <3>1. Largest' = Largest
      BY <1>2, <2>1
    <3> QED BY <2>1, <3>1 DEF ThePlan, CriticalPackets, Creator
  <2>7. Planned'
    BY <2>1, <2>2, <2>3, <2>4, <2>5, <2>6 DEF Planned
  <2>8. Counted'
    BY <2>1, <2>3, <2>4 DEF Counted, Sizing
  <2> QED BY <2>7, <2>8
<1> QED BY <1>3, <1>4, <1>5

(* What is planned is laid out, with the counts the scheme promises.       *)
LEMMA PlanIsLaid ==
  ASSUME IInv, Planned, recoveryfiles # <<>>
  PROVE  \E t, counts, n :
           /\ Laid(t, counts, n, CriticalPackets(sourcefiles))
           /\ AsPromised(ask.scheme, counts, n, Largest)
<1> DEFINE crit == CriticalPackets(sourcefiles)
           F == DOMAIN disk
           A == AnyPacket(F)
           n == recoveryfilecount
           first == ask.firstblock
           blocks == recoveryblockcount
           counts == Counts(ask.scheme, blocks, n, Largest)
           t == Running(counts)
<1>1. /\ Shape /\ Ordered /\ blocksize # 0 /\ n = TheCount /\ n # None /\ recoveryfiles = ThePlan
  BY DEF IInv, Planned
<1>2. /\ ask.scheme \in Schemes /\ ask.recoveryfilecount \in Nat /\ first \in Nat
      /\ ask.recoveryfilecount # 0 => ask.scheme = "Uniform"
      /\ blocks \in Nat
  BY <1>1, CreatorAssumption DEF Shape
<1>3. Largest \in Nat \ {0}
  BY <1>1, LargestFacts
<1>4. /\ n \in Nat /\ Filled(counts, n, blocks) /\ AsPromised(ask.scheme, counts, n, Largest)
  <2> DEFINE scheme == ask.scheme
             wanted == ask.recoveryfilecount
             largest == Largest
  <2>1. /\ scheme \in Schemes /\ wanted \in Nat /\ (wanted # 0 => scheme = "Uniform") /\ blocks \in Nat
        /\ largest \in Nat \ {0} /\ n = ComputeRecoveryFileCount(scheme, wanted, blocks, largest) /\ n # None
    BY <1>1, <1>2, <1>3 DEF TheCount
  <2> HIDE DEF scheme, wanted, largest, n, blocks
  <2>2. /\ n \in Nat /\ Filled(Counts(scheme, blocks, n, largest), n, blocks)
        /\ AsPromised(scheme, Counts(scheme, blocks, n, largest), n, largest)
    BY <2>1, CountsFill
  <2> QED BY <2>2 DEF scheme, largest
<1>5. PICK u : Fills(u, counts, n, blocks)
  BY <1>4 DEF Filled
<1>6. counts \in Seq(Nat \ {0}) /\ Len(counts) = n /\ counts \in Seq(Nat)
  BY <1>5 DEF Fills
<1>7. Fills(t, counts, n, blocks)
  <2> HIDE DEF counts, n
  <2>1. Totals(t, counts, n)
    BY <1>6, RunningFacts
  <2>2. Totals(u, counts, n) /\ u[n] = blocks
    BY <1>5 DEF Fills
  <2>3. n \in 0 .. n
    BY <1>4
  <2>4. t[n] = u[n]
    <3> HIDE DEF t
    <3> QED BY <1>4, <2>1, <2>2, <2>3, TotalsAgree
  <2> QED BY <1>6, <2>1, <2>2, <2>4 DEF Fills
<1>8. FilesHold(recoveryfiles, t, counts, n, first, crit, Creator)
  <2> DEFINE scheme == ask.scheme
             largest == Largest
             alloc == FileAllocations(scheme, first, blocks, n, largest)
  <2>1. recoveryfiles = PacketsOfFiles(alloc, crit, Creator) /\ counts = Counts(scheme, blocks, n, largest)
    BY <1>1 DEF ThePlan
  <2> HIDE DEF scheme, largest, crit, counts, n, first, blocks
  <2>2. Allocated(alloc, t, counts, n, first)
    BY <1>2, <1>4, <1>6, <2>1, AllocationFacts
  <2> HIDE DEF alloc
  <2> QED BY <1>2, <1>4, <1>6, <2>1, <2>2, FilesAsAllocated
<1>9. Critical(crit, Creator, A)
  <2> DEFINE order == sourcefiles
  <2>1. IsFiniteSet(F) /\ order \in SetToSeqs(F)
    BY <1>1, SizedFiles DEF Ordered
  <2> HIDE DEF F, order
  <2>2. order \in Seq(F) /\ \A a, b \in 1 .. Len(order) : order[a] = order[b] => a = b
    BY <2>1, OrderFacts
  <2>3. Critical(CriticalPackets(order), Creator, AnyPacket(F))
    BY <2>2, CriticalFacts
  <2> QED BY <2>3 DEF order
<1> HIDE DEF crit, counts, t, n, first, blocks, A, F
<1>10. ASSUME NEW i \in 1 .. n
       PROVE  Holds(recoveryfiles[i].packets, first + t[i - 1], t[i - 1] + 1, counts[i], crit, Creator)
  <2> DEFINE e == first + t[i - 1]
             f == t[i - 1] + 1
             count == counts[i]
  <2>1. t[i - 1] \in Nat /\ count \in Nat \ {0}
    <3>1. i - 1 \in 0 .. n
      BY <1>4
    <3> QED BY <1>2, <1>4, <1>7, <3>1, TotalsRise
  <2>2. e \in Nat /\ f \in Nat \ {0}
    BY <1>2, <2>1
  <2>3. recoveryfiles[i].packets = Append(Volume([exponent |-> e, count |-> count], f, crit), Creator)
    BY <1>8 DEF FilesHold
  <2> HIDE DEF e, f, count
  <2>4. \A m \in 1 .. count : Numbered(f, e, m) \in A
    <3> TAKE m \in 1 .. count
    <3>1. f + m - 1 \in Nat /\ e + m - 1 \in Nat
      BY <2>1, <2>2
    <3> QED BY <3>1 DEF A, AnyPacket, Numbered
  <2>5. Holds(Append(Volume([exponent |-> e, count |-> count], f, crit), Creator), e, f, count, crit, Creator)
    BY <1>9, <2>1, <2>2, <2>4, VolumeHolds
  <2> QED BY <2>3, <2>5 DEF e, f, count
<1>11. Holds(recoveryfiles[n + 1].packets, 0, 1, 0, crit, Creator)
  <2>1. recoveryfiles[n + 1].packets = Append(crit, Creator)
    BY <1>8 DEF FilesHold
  <2> QED BY <1>9, <2>1, ExtraHolds
<1>12. Laid(t, counts, n, crit)
  <2>1. /\ DOMAIN recoveryfiles = 1 .. n + 1 /\ Len(recoveryfiles) = n + 1
        /\ \A i \in 1 .. n : recoveryfiles[i].name = <<first + t[i - 1], counts[i]>>
        /\ recoveryfiles[n + 1].name = <<None, 0>>
    BY <1>8 DEF FilesHold
  <2> QED BY <1>2, <1>4, <1>7, <1>10, <1>11, <2>1 DEF Laid, first, blocks
<1> QED BY <1>4, <1>12 DEF crit

LEMMA PlanIsRight == (IInv /\ Planned) => VolumesFit
<1> SUFFICES ASSUME IInv, Planned, recoveryfiles # <<>> PROVE VolumesFit
  BY DEF VolumesFit
<1> DEFINE crit == CriticalPackets(sourcefiles)
<1>1. PICK t, counts, n : Laid(t, counts, n, crit) /\ AsPromised(ask.scheme, counts, n, Largest)
  BY PlanIsLaid
<1>2. crit \in Seq(AnyPacket(DOMAIN disk))
  <2>1. sourcefiles \in Seq(DOMAIN disk)
    BY DEF IInv, Shape
  <2> QED BY <2>1, CriticalFollows
<1> HIDE DEF crit
<1>3. Volumes = 1 .. n
  <2>1. n \in Nat /\ Len(recoveryfiles) = n + 1
    BY <1>1 DEF Laid
  <2>2. (n + 1) - 1 = n
    BY <2>1
  <2> QED BY <2>1, <2>2 DEF Volumes
<1>4. \A i \in 1 .. n : recoveryfiles[i].name[2] = counts[i]
  BY <1>1 DEF Laid
<1>5. \A i \in 1 .. n : counts[i] > 0
  <2>1. \A i \in 1 .. n : counts[i] \in Nat \ {0}
    BY <1>1, TotalsRise DEF Laid
  <2>2. \A k \in Nat \ {0} : k > 0
    OBVIOUS
  <2> QED BY <2>1, <2>2
<1>6. \A b \in 1 .. recoveryblockcount : Cardinality(Places(RecoveryPacket(b))) = 1
  BY <1>1, PlacedOnce
<1>7. \A i \in DOMAIN recoveryfiles : NamedRightly(i)
  BY <1>1, AllNamedRightly
<1>8. \A i, j \in DOMAIN recoveryfiles : recoveryfiles[i].name = recoveryfiles[j].name => i = j
  BY <1>1, NamesDiffer
<1>9. \A i \in Volumes : recoveryfiles[i].name[2] > 0
  BY <1>3, <1>4, <1>5
<1>10. \A i \in DOMAIN recoveryfiles :
         /\ \A p, q \in ToSet(crit) : Copies(i, p) = Copies(i, q) /\ Copies(i, p) > 0
         /\ Copies(i, Creator) = 1
  BY <1>1, <1>2, CopiesAgree
<1>11. ask.scheme = "Uniform" =>
         \A i, j \in Volumes : recoveryfiles[i].name[2] <= recoveryfiles[j].name[2] + 1
  BY <1>1, <1>3, <1>4 DEF AsPromised
<1>12. ask.scheme = "Limited" => \A i \in Volumes : recoveryfiles[i].name[2] <= Largest
  BY <1>1, <1>3, <1>4 DEF AsPromised
<1>13. ASSUME NEW i \in Volumes, NEW j \in Volumes, i < j PROVE recoveryfiles[i].name[1] < recoveryfiles[j].name[1]
  <2>1. /\ n \in Nat /\ ask.firstblock \in Nat /\ recoveryblockcount \in Nat
        /\ Fills(t, counts, n, recoveryblockcount)
        /\ \A k \in 1 .. n : recoveryfiles[k].name = <<ask.firstblock + t[k - 1], counts[k]>>
    BY <1>1 DEF Laid
  <2>2. i - 1 \in 0 .. n /\ j - 1 \in 0 .. n /\ i - 1 < j - 1
    BY <1>3, <1>13, <2>1
  <2>3. t[i - 1] \in Nat /\ t[j - 1] \in Nat /\ t[i - 1] < t[j - 1]
    BY <2>1, <2>2, TotalsRise
  <2>4. /\ recoveryfiles[i].name[1] = ask.firstblock + t[i - 1]
        /\ recoveryfiles[j].name[1] = ask.firstblock + t[j - 1]
    BY <1>3, <2>1
  <2> QED BY <2>1, <2>3, <2>4
<1> QED BY <1>6, <1>7, <1>8, <1>9, <1>10, <1>11, <1>12, <1>13 DEF VolumesFit, Creator, crit

(* Whatever is asked for, every recovery block is in exactly one volume,   *)
(* the one whose name says so, and under the exponent of its row of the    *)
(* matrix; no two files have the same name, no volume is empty, and they   *)
(* are in the order of their exponents; every file has the critical        *)
(* packets, each as often as the others; and the volumes are as even, or   *)
(* as limited, as the scheme promises (InitialiseOutputFiles).             *)
THEOREM VolumesAreRight == Spec => []VolumesFit
<1>1. Init => Counted /\ Planned
  BY DEF Init, Counted, Planned, Sizing
<1> QED BY <1>1, InitHolds, NextKeeps, PlanKeeps, PlanIsRight, PTL DEF Spec

=============================================================================
