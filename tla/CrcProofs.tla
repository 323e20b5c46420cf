------------------------------- MODULE CrcProofs -------------------------------
(***************************************************************************)
(* Proofs about Crc: for every message, the checksum hg_aux.cpp computes   *)
(* is the remainder of the polynomial division.                            *)
(*                                                                         *)
(* The way along a message is a recursive function, so the proofs are by   *)
(* induction.  Induction is stated with a set in place of a property; it   *)
(* follows from the well-foundedness of < on Nat.                          *)
(*                                                                         *)
(* The argument: the division of a word by one bit is linear, so the eight *)
(* bits of a byte may be laid over the word at once, which is then shifted *)
(* eight times.  Four shifts are one look at crc32table_le (its sixteen    *)
(* words are compared bit by bit), eight are the mixing of crc16.          *)
(***************************************************************************)
EXTENDS Crc, SequenceTheorems, WellFoundedInduction, TLAPS

-------------------------------------------------------------------------------
(* Induction, with a set for the property, and functions defined by recursion. *)

\* A set of naturals has a least element.
LEMMA Least ==
    ASSUME NEW T \in SUBSET Nat, T # {}
    PROVE  \E n \in T : \A m \in T : n <= m
<1> DEFINE R == OpToRel(<, Nat)
<1>1. IsWellFoundedOn(R, Nat)
  BY NatLessThanWellFounded, Zenon
<1>2. \A m, n \in Nat : m < n => <<m, n>> \in R
  BY DEF OpToRel
<1> HIDE DEF R
<1>3. PICK n \in T : \A m \in T : ~(<<m, n>> \in R)
  BY <1>1, WFMin
<1>4. \A m \in T : m \in Nat /\ n \in Nat
  OBVIOUS
<1>5. \A m \in T : ~(m < n)
  BY <1>2, <1>3, <1>4
<1>6. \A m \in T : n <= m
  BY <1>4, <1>5
<1> QED
  BY <1>6

\* What holds of 0 and goes on from n to n + 1 holds of every natural number.
LEMMA Induction ==
    ASSUME NEW T, 0 \in T, \A n \in Nat : n \in T => n + 1 \in T
    PROVE  Nat \subseteq T
<1> SUFFICES ASSUME Nat \ T # {} PROVE FALSE
  OBVIOUS
<1>1. PICK n \in Nat \ T : \A m \in Nat \ T : n <= m
  BY Least
<1>2. n # 0 /\ n - 1 \in Nat /\ n - 1 + 1 = n
  BY <1>1
<1> QED
  BY <1>1, <1>2

\* f is first at 0, and steps along x from there.
Steps(f, step, first, x, n) ==
    f = [i \in 0..n |-> IF i = 0 THEN first ELSE step[f[i - 1]][x[i]]]

\* There is such a function.
LEMMA Recursion ==
    ASSUME NEW step, NEW first, NEW x, NEW n \in Nat
    PROVE  \E f : Steps(f, step, first, x, n)
<1> USE DEF Steps
<1> DEFINE Is(f, m) == Steps(f, step, first, x, m)
           T == {m \in Nat : \E f : Is(f, m)}
<1>1. 0 \in T
  <2> DEFINE f == [i \in 0..0 |-> first]
  <2>1. Is(f, 0)
    OBVIOUS
  <2> QED
    BY <2>1
<1>2. ASSUME NEW m \in Nat, m \in T PROVE m + 1 \in T
  <2>1. PICK f : Is(f, m)
    BY <1>2
  <2> DEFINE g == [i \in 0..m + 1 |-> IF i <= m THEN f[i] ELSE step[f[m]][x[m + 1]]]
             h == [i \in 0..m + 1 |-> IF i = 0 THEN first ELSE step[g[i - 1]][x[i]]]
  <2>2. ASSUME NEW i \in 0..m + 1 PROVE g[i] = h[i]
    <3>1. CASE i = 0
      <4>1. 0 \in 0..m /\ 0 <= m /\ 0 \in 0..m + 1
        OBVIOUS
      <4>2. f[0] = first
        BY <2>1, <4>1
      <4> QED
        BY <3>1, <4>1, <4>2
    <3>2. CASE i > 0 /\ i <= m
      <4>1. i - 1 \in 0..m /\ i - 1 <= m /\ i - 1 \in 0..m + 1 /\ i \in 0..m
        BY <3>2
      <4>2. g[i] = f[i] /\ g[i - 1] = f[i - 1]
        BY <3>2, <4>1
      <4>3. f[i] = step[f[i - 1]][x[i]]
        BY <2>1, <3>2, <4>1
      <4>4. h[i] = step[g[i - 1]][x[i]]
        BY <3>2
      <4> QED
        BY <4>2, <4>3, <4>4
    <3>3. CASE i = m + 1
      <4>1. m \in 0..m + 1 /\ i - 1 = m /\ i # 0 /\ ~(i <= m)
        BY <3>3
      <4>2. g[i] = step[f[m]][x[m + 1]] /\ g[m] = f[m]
        BY <4>1
      <4>3. h[i] = step[g[m]][x[i]]
        BY <4>1
      <4> QED
        BY <3>3, <4>2, <4>3
    <3> QED
      BY <3>1, <3>2, <3>3
  <2>3. g = h
    <3> HIDE DEF Is, T
    <3>1. DOMAIN g = 0..m + 1 /\ DOMAIN h = 0..m + 1
      OBVIOUS
    <3> QED
      BY <2>2
  <2>4. Is(g, m + 1)
    BY <2>3
  <2> HIDE DEF g
  <2> QED
    BY <2>4
<1> HIDE DEF T
<1>3. Nat \subseteq T
  BY <1>1, <1>2, Induction
<1> QED
  BY <1>3 DEF T

-------------------------------------------------------------------------------
(* The remainder along a message.                                              *)

Octet == 0..255

\* A byte's bits are a word of eight.
LEMMA BitsHolds == \A n : Bits(n) \in Word(8)
BY DEF Bits, Word

\* The remainders after each byte, the last of them Along's.
LEMMA AlongHolds ==
    ASSUME NEW step, NEW first, NEW p \in Seq(Octet)
    PROVE  \E rest :
              /\ rest[0] = first
              /\ \A i \in 1..Len(p) : rest[i] = step[rest[i - 1]][Bits(p[i])]
              /\ Along(step, first, p) = rest[Len(p)]
<1> DEFINE x == [i \in 1..Len(p) |-> Bits(p[i])]
           rest[i \in 0..Len(p)] == IF i = 0 THEN first ELSE step[rest[i - 1]][Bits(p[i])]
<1>1. Len(p) \in Nat
  OBVIOUS
<1>2. PICK f : Steps(f, step, first, x, Len(p))
  <2> HIDE DEF x
  <2> QED
    BY <1>1, Recursion
<1>3. f = [i \in 0..Len(p) |-> IF i = 0 THEN first ELSE step[f[i - 1]][Bits(p[i])]]
  <2>1. \A i \in 0..Len(p) : i # 0 => x[i] = Bits(p[i])
    BY <1>1
  <2> HIDE DEF x
  <2> QED
    BY <1>2, <2>1 DEF Steps
<1>4. rest = [i \in 0..Len(p) |-> IF i = 0 THEN first ELSE step[rest[i - 1]][Bits(p[i])]]
  BY <1>3
<1>5. Along(step, first, p) = rest[Len(p)]
  BY DEF Along
<1> HIDE DEF rest
<1>6. rest[0] = first
  BY <1>1, <1>4
<1>7. \A i \in 1..Len(p) : rest[i] = step[rest[i - 1]][Bits(p[i])]
  BY <1>1, <1>4
<1> QED
  BY <1>5, <1>6, <1>7

\* Two ways over a byte agree on a set of words, and stay in it.
Agree(C, one, other) ==
    \A c \in C, b \in Word(8) : one[c][b] = other[c][b] /\ one[c][b] \in C

\* Then they agree on every message.
LEMMA AlongSame ==
    ASSUME NEW C, NEW one, NEW other, Agree(C, one, other),
           NEW first \in C, NEW p \in Seq(Octet)
    PROVE  Along(one, first, p) = Along(other, first, p) /\ Along(one, first, p) \in C
<1> USE DEF Agree
<1>1. Len(p) \in Nat
  OBVIOUS
<1>2. PICK r : /\ r[0] = first
               /\ \A i \in 1..Len(p) : r[i] = one[r[i - 1]][Bits(p[i])]
               /\ Along(one, first, p) = r[Len(p)]
  BY AlongHolds
<1>3. PICK s : /\ s[0] = first
               /\ \A i \in 1..Len(p) : s[i] = other[s[i - 1]][Bits(p[i])]
               /\ Along(other, first, p) = s[Len(p)]
  BY AlongHolds
<1> DEFINE T == {i \in Nat : i <= Len(p) => r[i] = s[i] /\ r[i] \in C}
<1>4. 0 \in T
  BY <1>2, <1>3
<1>5. ASSUME NEW n \in Nat, n \in T PROVE n + 1 \in T
  <2> SUFFICES ASSUME n + 1 <= Len(p) PROVE r[n + 1] = s[n + 1] /\ r[n + 1] \in C
    OBVIOUS
  <2>1. n + 1 \in 1..Len(p) /\ n + 1 - 1 = n /\ n <= Len(p)
    BY <1>1
  <2>2. r[n] = s[n] /\ r[n] \in C
    BY <1>5, <2>1
  <2>3. r[n + 1] = one[r[n]][Bits(p[n + 1])] /\ s[n + 1] = other[s[n]][Bits(p[n + 1])]
    BY <1>2, <1>3, <2>1
  <2> QED
    BY <2>2, <2>3, BitsHolds
<1> HIDE DEF T
<1>6. Nat \subseteq T
  BY <1>4, <1>5, Induction
<1> QED
  BY <1>1, <1>2, <1>3, <1>6 DEF T

\* The way along two messages is the way along the one and from there along the other.
LEMMA AlongConcat ==
    ASSUME NEW step, NEW first, NEW p \in Seq(Octet), NEW q \in Seq(Octet)
    PROVE  Along(step, first, p \o q) = Along(step, Along(step, first, p), q)
<1>1. Len(p) \in Nat /\ Len(q) \in Nat
  OBVIOUS
<1>2. /\ p \o q \in Seq(Octet) /\ Len(p \o q) = Len(p) + Len(q)
      /\ \A i \in 1..Len(p) + Len(q) :
            (p \o q)[i] = IF i <= Len(p) THEN p[i] ELSE q[i - Len(p)]
  BY ConcatProperties
<1> DEFINE pq == p \o q
<1> HIDE DEF pq
<1>3. PICK r : /\ r[0] = first
               /\ \A i \in 1..Len(pq) : r[i] = step[r[i - 1]][Bits(pq[i])]
               /\ Along(step, first, pq) = r[Len(pq)]
  <2>1. pq \in Seq(Octet)
    BY <1>2 DEF pq
  <2> QED
    BY <2>1, AlongHolds
<1>4. PICK s : /\ s[0] = first
               /\ \A i \in 1..Len(p) : s[i] = step[s[i - 1]][Bits(p[i])]
               /\ Along(step, first, p) = s[Len(p)]
  BY AlongHolds
<1> DEFINE middle == Along(step, first, p)
<1> HIDE DEF middle
<1>5. PICK t : /\ t[0] = middle
               /\ \A i \in 1..Len(q) : t[i] = step[t[i - 1]][Bits(q[i])]
               /\ Along(step, middle, q) = t[Len(q)]
  BY AlongHolds
<1>6. /\ Len(pq) = Len(p) + Len(q)
      /\ \A i \in 1..Len(p) : pq[i] = p[i]
      /\ \A i \in 1..Len(q) : pq[Len(p) + i] = q[i]
  BY <1>1, <1>2 DEF pq
<1> DEFINE S == {i \in Nat : i <= Len(p) => r[i] = s[i]}
           T == {i \in Nat : i <= Len(q) => r[Len(p) + i] = t[i]}
<1>7. Nat \subseteq S
  <2>1. 0 \in S
    BY <1>3, <1>4
  <2>2. ASSUME NEW n \in Nat, n \in S PROVE n + 1 \in S
    <3> SUFFICES ASSUME n + 1 <= Len(p) PROVE r[n + 1] = s[n + 1]
      OBVIOUS
    <3>1. n + 1 \in 1..Len(p) /\ n + 1 \in 1..Len(pq) /\ n + 1 - 1 = n /\ n <= Len(p)
      BY <1>1, <1>6
    <3>2. r[n + 1] = step[r[n]][Bits(pq[n + 1])] /\ s[n + 1] = step[s[n]][Bits(p[n + 1])]
      BY <1>3, <1>4, <3>1
    <3> QED
      BY <1>6, <2>2, <3>1, <3>2
  <2> HIDE DEF S
  <2> QED
    BY <2>1, <2>2, Induction
<1>8. r[Len(p)] = middle
  BY <1>1, <1>4, <1>7 DEF middle
<1>9. Nat \subseteq T
  <2>1. 0 \in T
    BY <1>1, <1>5, <1>8
  <2>2. ASSUME NEW n \in Nat, n \in T PROVE n + 1 \in T
    <3> SUFFICES ASSUME n + 1 <= Len(q) PROVE r[Len(p) + (n + 1)] = t[n + 1]
      OBVIOUS
    <3> DEFINE k == Len(p) + (n + 1)
    <3>1. /\ n + 1 \in 1..Len(q) /\ n + 1 - 1 = n /\ n <= Len(q)
          /\ k \in 1..Len(pq) /\ k - 1 = Len(p) + n
      BY <1>1, <1>6
    <3>2. pq[k] = q[n + 1]
      BY <1>6, <3>1
    <3>3. r[Len(p) + n] = t[n]
      BY <2>2, <3>1
    <3>4. r[k] = step[r[k - 1]][Bits(pq[k])] /\ t[n + 1] = step[t[n]][Bits(q[n + 1])]
      <4> HIDE DEF k
      <4> QED
        BY <1>3, <1>5, <3>1
    <3> QED
      BY <3>1, <3>2, <3>3, <3>4
  <2> HIDE DEF T
  <2> QED
    BY <2>1, <2>2, Induction
<1>10. r[Len(pq)] = t[Len(q)]
  BY <1>1, <1>6, <1>9
<1> QED
  BY <1>3, <1>5, <1>10 DEF pq, middle

-------------------------------------------------------------------------------
(* A byte, bit by bit.                                                         *)

\* What is where after a byte's shift to the right.
LEMMA ByteRight ==
    ASSUME NEW b \in Word(8), NEW k \in 0..8
    PROVE  /\ ShiftRight(b, k) \subseteq 0..7
           /\ \A i \in Nat : i \in ShiftRight(b, k) <=> i + k \in b
BY DEF ShiftRight, Word

\* D shifts the words C by one bit of a division, which is linear; with the next bit of the
\* message, which comes in at in, it is bit.
Divides(C, D, in, bit) ==
    /\ D \in [C -> C]
    /\ {in} \in C /\ {} \in C
    /\ \A x, y \in C : Xor(x, y) \in C /\ D[Xor(x, y)] = Xor(D[x], D[y])
    /\ \A x \in C : bit[x][TRUE] = D[Xor(x, {in})] /\ bit[x][FALSE] = D[x]

\* rem[0] is the byte b laid out such that the shifts bring bit after bit to in; rem[k] is
\* what is left of it after k of them.
LaidOut(C, D, in, b, order, rem) ==
    /\ rem \in [0..8 -> C]
    /\ rem[8] = {}
    /\ \A k \in 0..7 : /\ order[k + 1] \in b <=> in \in rem[k]
                       /\ rem[k] \ {in} \in C
                       /\ D[rem[k] \ {in}] = rem[k + 1]

EightTimes(D, x) == D[D[D[D[D[D[D[D[x]]]]]]]]

\* Eight bits one by one: eight shifts of the word with the byte laid out over it.
LEMMA EightBits ==
    ASSUME NEW C, NEW D, NEW in, NEW bit, Divides(C, D, in, bit),
           NEW c \in C, NEW b, NEW order, NEW rem, LaidOut(C, D, in, b, order, rem)
    PROVE  BitByBit(bit, c, b, order) = EightTimes(D, Xor(c, rem[0]))
<1> USE DEF Divides, LaidOut
<1> DEFINE x == [i \in 1..8 |-> order[i] \in b]
           rest[i \in 0..8] == IF i = 0 THEN c ELSE bit[rest[i - 1]][order[i] \in b]
<1>1. PICK f : Steps(f, bit, c, x, 8)
  <2> HIDE DEF x
  <2> QED
    BY Recursion
<1>2. f = [i \in 0..8 |-> IF i = 0 THEN c ELSE bit[f[i - 1]][order[i] \in b]]
  <2>1. \A i \in 0..8 : i # 0 => x[i] = (order[i] \in b)
    <3>1. \A i \in 0..8 : i # 0 => i \in 1..8
      OBVIOUS
    <3> QED
      BY <3>1, Zenon
  <2> HIDE DEF x
  <2> QED
    BY <1>1, <2>1 DEF Steps
<1>3. rest = [i \in 0..8 |-> IF i = 0 THEN c ELSE bit[rest[i - 1]][order[i] \in b]]
  BY <1>2
<1>4. BitByBit(bit, c, b, order) = rest[8]
  BY DEF BitByBit
<1> HIDE DEF rest, x
<1>5. rest[0] = c
  BY <1>3
<1>6. ASSUME NEW k \in 0..7, rest[k] \in C
      PROVE  /\ rest[k + 1] \in C
             /\ Xor(rest[k + 1], rem[k + 1]) = D[Xor(rest[k], rem[k])]
  <2> DEFINE left == rem[k] \ {in}
  <2>1. k + 1 \in 0..8 /\ k + 1 # 0 /\ k + 1 - 1 = k /\ k \in 0..8
    OBVIOUS
  <2>2. rest[k + 1] = bit[rest[k]][order[k + 1] \in b]
    BY <1>3, <2>1
  <2>3. rem[k] \in C /\ left \in C /\ D[left] = rem[k + 1]
    BY <2>1
  <2>4. CASE order[k + 1] \in b
    <3>1. (order[k + 1] \in b) = TRUE
      BY <2>4
    <3>2. rest[k + 1] = D[Xor(rest[k], {in})]
      BY <1>6, <2>2, <3>1
    <3>3. in \in rem[k]
      BY <2>4
    <3>4. Xor(rest[k], rem[k]) = Xor(Xor(rest[k], {in}), left)
      BY <3>3 DEF Xor
    <3>5. Xor(rest[k], {in}) \in C
      BY <1>6
    <3> HIDE DEF left
    <3> QED
      BY <2>3, <3>2, <3>4, <3>5
  <2>5. CASE order[k + 1] \notin b
    <3>1. (order[k + 1] \in b) = FALSE
      BY <2>5
    <3>2. rest[k + 1] = D[rest[k]]
      BY <1>6, <2>2, <3>1
    <3>3. rem[k] = left
      BY <2>5
    <3> HIDE DEF left
    <3> QED
      BY <1>6, <2>3, <3>2, <3>3
  <2> QED
    BY <2>4, <2>5
<1>7. \A k \in 0..7 : rest[k] \in C =>
         rest[k + 1] \in C /\ Xor(rest[k + 1], rem[k + 1]) = D[Xor(rest[k], rem[k])]
  BY <1>6
<1>8. \A r \in C : Xor(r, rem[8]) = r
  BY DEF Xor
<1>9. rest[1] \in C /\ Xor(rest[1], rem[1]) = D[Xor(rest[0], rem[0])]
  BY <1>5, <1>7, 0 \in 0..7, 0 + 1 = 1
<1>10. rest[2] \in C /\ Xor(rest[2], rem[2]) = D[Xor(rest[1], rem[1])]
  BY <1>9, <1>7, 1 \in 0..7, 1 + 1 = 2
<1>11. rest[3] \in C /\ Xor(rest[3], rem[3]) = D[Xor(rest[2], rem[2])]
  BY <1>10, <1>7, 2 \in 0..7, 2 + 1 = 3
<1>12. rest[4] \in C /\ Xor(rest[4], rem[4]) = D[Xor(rest[3], rem[3])]
  BY <1>11, <1>7, 3 \in 0..7, 3 + 1 = 4
<1>13. rest[5] \in C /\ Xor(rest[5], rem[5]) = D[Xor(rest[4], rem[4])]
  BY <1>12, <1>7, 4 \in 0..7, 4 + 1 = 5
<1>14. rest[6] \in C /\ Xor(rest[6], rem[6]) = D[Xor(rest[5], rem[5])]
  BY <1>13, <1>7, 5 \in 0..7, 5 + 1 = 6
<1>15. rest[7] \in C /\ Xor(rest[7], rem[7]) = D[Xor(rest[6], rem[6])]
  BY <1>14, <1>7, 6 \in 0..7, 6 + 1 = 7
<1>16. rest[8] \in C /\ Xor(rest[8], rem[8]) = D[Xor(rest[7], rem[7])]
  BY <1>15, <1>7, 7 \in 0..7, 7 + 1 = 8
<1>17. BitByBit(bit, c, b, order) = D[Xor(rest[7], rem[7])]
  BY <1>4, <1>8, <1>16
<1>18. @ = D[D[Xor(rest[6], rem[6])]]
  BY <1>15
<1>19. @ = D[D[D[Xor(rest[5], rem[5])]]]
  BY <1>14
<1>20. @ = D[D[D[D[Xor(rest[4], rem[4])]]]]
  BY <1>13
<1>21. @ = D[D[D[D[D[Xor(rest[3], rem[3])]]]]]
  BY <1>12
<1>22. @ = D[D[D[D[D[D[Xor(rest[2], rem[2])]]]]]]
  BY <1>11
<1>23. @ = D[D[D[D[D[D[D[Xor(rest[1], rem[1])]]]]]]]
  BY <1>10
<1>24. @ = D[D[D[D[D[D[D[D[Xor(rest[0], rem[0])]]]]]]]]
  BY <1>9
<1>25. BitByBit(bit, c, b, order) = D[D[D[D[D[D[D[D[Xor(rest[0], rem[0])]]]]]]]]
  BY <1>17, <1>18, <1>19, <1>20, <1>21, <1>22, <1>23, <1>24
<1> QED
  BY <1>5, <1>25 DEF EightTimes

-------------------------------------------------------------------------------
(* The words of crc32table_le.                                                 *)

\* The bits of a hexadecimal digit.
LEMMA DigitBits ==
    /\ Bits(0) = {} /\ Bits(1) = {0}
    /\ Bits(2) = {1} /\ Bits(3) = {0, 1}
    /\ Bits(4) = {2} /\ Bits(5) = {0, 2}
    /\ Bits(6) = {1, 2} /\ Bits(7) = {0, 1, 2}
    /\ Bits(8) = {3} /\ Bits(9) = {0, 3}
    /\ Bits(10) = {1, 3} /\ Bits(11) = {0, 1, 3}
    /\ Bits(12) = {2, 3} /\ Bits(13) = {0, 2, 3}
    /\ Bits(14) = {1, 2, 3} /\ Bits(15) = {0, 1, 2, 3}
<1>1. 2^0 = 1 /\ 2^1 = 2 /\ 2^2 = 4 /\ 2^3 = 8 /\ 2^4 = 16 /\ 2^5 = 32 /\ 2^6 = 64 /\ 2^7 = 128
  BY SMT
<1>2. \A n \in 0..15 :
         /\ 0 \in Bits(n) <=> n % 2 = 1
         /\ 1 \in Bits(n) <=> (n \div 2) % 2 = 1
         /\ 2 \in Bits(n) <=> (n \div 4) % 2 = 1
         /\ 3 \in Bits(n) <=> (n \div 8) % 2 = 1
         /\ 4 \notin Bits(n) /\ 5 \notin Bits(n) /\ 6 \notin Bits(n) /\ 7 \notin Bits(n)
  BY <1>1 DEF Bits
<1>3. \A n : Bits(n) \subseteq {0, 1, 2, 3, 4, 5, 6, 7}
  BY DEF Bits
<1>4. /\ Bits(0) = {}
      /\ Bits(1) = {0}
      /\ Bits(2) = {1}
      /\ Bits(3) = {0, 1}
  BY <1>2, <1>3
<1>5. /\ Bits(4) = {2}
      /\ Bits(5) = {0, 2}
      /\ Bits(6) = {1, 2}
      /\ Bits(7) = {0, 1, 2}
  BY <1>2, <1>3
<1>6. /\ Bits(8) = {3}
      /\ Bits(9) = {0, 3}
      /\ Bits(10) = {1, 3}
      /\ Bits(11) = {0, 1, 3}
  BY <1>2, <1>3
<1>7. /\ Bits(12) = {2, 3}
      /\ Bits(13) = {0, 2, 3}
      /\ Bits(14) = {1, 2, 3}
      /\ Bits(15) = {0, 1, 2, 3}
  BY <1>2, <1>3
<1> QED
  BY <1>4, <1>5, <1>6, <1>7

\* Where the bits of each digit are in the word.
LEMMA HexDigits ==
    ASSUME NEW a, NEW b, NEW c, NEW d, NEW e, NEW f, NEW g, NEW h, NEW i \in 0..31
    PROVE  i \in Hex(<<a, b, c, d, e, f, g, h>>) <=>
              \/ i \in 0..3 /\ i \in Bits(h)
              \/ i \in 4..7 /\ i - 4 \in Bits(g)
              \/ i \in 8..11 /\ i - 8 \in Bits(f)
              \/ i \in 12..15 /\ i - 12 \in Bits(e)
              \/ i \in 16..19 /\ i - 16 \in Bits(d)
              \/ i \in 20..23 /\ i - 20 \in Bits(c)
              \/ i \in 24..27 /\ i - 24 \in Bits(b)
              \/ i \in 28..31 /\ i - 28 \in Bits(a)
<1> DEFINE w == <<a, b, c, d, e, f, g, h>>
<1>1. i \in Hex(w) <=> i % 4 \in Bits(w[8 - (i \div 4)])
  BY DEF Hex
<1>2. /\ w[1] = a /\ w[2] = b /\ w[3] = c /\ w[4] = d
      /\ w[5] = e /\ w[6] = f /\ w[7] = g /\ w[8] = h
  OBVIOUS
<1>3. \/ i \in 0..3 /\ i \div 4 = 0 /\ i % 4 = i
      \/ i \in 4..7 /\ i \div 4 = 1 /\ i % 4 = i - 4
      \/ i \in 8..11 /\ i \div 4 = 2 /\ i % 4 = i - 8
      \/ i \in 12..15 /\ i \div 4 = 3 /\ i % 4 = i - 12
      \/ i \in 16..19 /\ i \div 4 = 4 /\ i % 4 = i - 16
      \/ i \in 20..23 /\ i \div 4 = 5 /\ i % 4 = i - 20
      \/ i \in 24..27 /\ i \div 4 = 6 /\ i % 4 = i - 24
      \/ i \in 28..31 /\ i \div 4 = 7 /\ i % 4 = i - 28
  OBVIOUS
<1> HIDE DEF w
<1>4. i \in Hex(w) <=>
              \/ i \in 0..3 /\ i \in Bits(h)
              \/ i \in 4..7 /\ i - 4 \in Bits(g)
              \/ i \in 8..11 /\ i - 8 \in Bits(f)
              \/ i \in 12..15 /\ i - 12 \in Bits(e)
              \/ i \in 16..19 /\ i - 16 \in Bits(d)
              \/ i \in 20..23 /\ i - 20 \in Bits(c)
              \/ i \in 24..27 /\ i - 24 \in Bits(b)
              \/ i \in 28..31 /\ i - 28 \in Bits(a)
  BY <1>1, <1>2, <1>3
<1> QED
  BY <1>4 DEF w

\* The positions of the one bits of the table's words.
LEMMA Words ==
    /\ Hex(<< 0,  0,  0,  0,  0,  0,  0,  0>>) =
          {}
    /\ Hex(<< 1, 13, 11,  7,  1,  0,  6,  4>>) =
          {2, 5, 6, 12, 16, 17, 18, 20, 21, 23, 24, 26, 27, 28}
    /\ Hex(<< 3, 11,  6, 14,  2,  0, 12,  8>>) =
          {3, 6, 7, 13, 17, 18, 19, 21, 22, 24, 25, 27, 28, 29}
    /\ Hex(<< 2,  6, 13,  9,  3,  0, 10, 12>>) =
          {2, 3, 5, 7, 12, 13, 16, 19, 20, 22, 23, 25, 26, 29}
    /\ Hex(<< 7,  6, 13, 12,  4,  1,  9,  0>>) =
          {4, 7, 8, 14, 18, 19, 20, 22, 23, 25, 26, 28, 29, 30}
    /\ Hex(<< 6, 11,  6, 11,  5,  1, 15,  4>>) =
          {2, 4, 5, 6, 7, 8, 12, 14, 16, 17, 19, 21, 22, 24, 25, 27, 29, 30}
    /\ Hex(<< 4, 13, 11,  2,  6,  1,  5,  8>>) =
          {3, 4, 6, 8, 13, 14, 17, 20, 21, 23, 24, 26, 27, 30}
    /\ Hex(<< 5,  0,  0,  5,  7,  1,  3, 12>>) =
          {2, 3, 4, 5, 8, 12, 13, 14, 16, 18, 28, 30}
    /\ Hex(<<14, 13, 11,  8,  8,  3,  2,  0>>) =
          {5, 8, 9, 15, 19, 20, 21, 23, 24, 26, 27, 29, 30, 31}
    /\ Hex(<<15,  0,  0, 15,  9,  3,  4,  4>>) =
          {2, 6, 8, 9, 12, 15, 16, 17, 18, 19, 28, 29, 30, 31}
    /\ Hex(<<13,  6, 13,  6, 10,  3, 14,  8>>) =
          {3, 5, 6, 7, 8, 9, 13, 15, 17, 18, 20, 22, 23, 25, 26, 28, 30, 31}
    /\ Hex(<<12, 11,  6,  1, 11,  3,  8, 12>>) =
          {2, 3, 7, 8, 9, 12, 13, 15, 16, 21, 22, 24, 25, 27, 30, 31}
    /\ Hex(<< 9, 11,  6,  4, 12,  2, 11,  0>>) =
          {4, 5, 7, 9, 14, 15, 18, 21, 22, 24, 25, 27, 28, 31}
    /\ Hex(<< 8,  6, 13,  3, 13,  2, 13,  4>>) =
          {2, 4, 6, 7, 9, 12, 14, 15, 16, 17, 20, 22, 23, 25, 26, 31}
    /\ Hex(<<10,  0,  0, 10, 14,  2,  7,  8>>) =
          {3, 4, 5, 6, 9, 13, 14, 15, 17, 19, 29, 31}
    /\ Hex(<<11, 13, 11, 13, 15,  2,  1, 12>>) =
          {2, 3, 4, 9, 12, 13, 14, 15, 16, 18, 19, 20, 21, 23, 24, 26, 27, 28, 29, 31}
<1>1. \A a, b, c, d, e, f, g, h : Hex(<<a, b, c, d, e, f, g, h>>) \subseteq 0..31
  BY DEF Hex
<1>2. Hex(<< 0,  0,  0,  0,  0,  0,  0,  0>>) =
      {}
  BY <1>1, HexDigits, DigitBits
<1>3. Hex(<< 1, 13, 11,  7,  1,  0,  6,  4>>) =
      {2, 5, 6, 12, 16, 17, 18, 20, 21, 23, 24, 26, 27, 28}
  BY <1>1, HexDigits, DigitBits
<1>4. Hex(<< 3, 11,  6, 14,  2,  0, 12,  8>>) =
      {3, 6, 7, 13, 17, 18, 19, 21, 22, 24, 25, 27, 28, 29}
  BY <1>1, HexDigits, DigitBits
<1>5. Hex(<< 2,  6, 13,  9,  3,  0, 10, 12>>) =
      {2, 3, 5, 7, 12, 13, 16, 19, 20, 22, 23, 25, 26, 29}
  BY <1>1, HexDigits, DigitBits
<1>6. Hex(<< 7,  6, 13, 12,  4,  1,  9,  0>>) =
      {4, 7, 8, 14, 18, 19, 20, 22, 23, 25, 26, 28, 29, 30}
  BY <1>1, HexDigits, DigitBits
<1>7. Hex(<< 6, 11,  6, 11,  5,  1, 15,  4>>) =
      {2, 4, 5, 6, 7, 8, 12, 14, 16, 17, 19, 21, 22, 24, 25, 27, 29, 30}
  BY <1>1, HexDigits, DigitBits
<1>8. Hex(<< 4, 13, 11,  2,  6,  1,  5,  8>>) =
      {3, 4, 6, 8, 13, 14, 17, 20, 21, 23, 24, 26, 27, 30}
  BY <1>1, HexDigits, DigitBits
<1>9. Hex(<< 5,  0,  0,  5,  7,  1,  3, 12>>) =
      {2, 3, 4, 5, 8, 12, 13, 14, 16, 18, 28, 30}
  BY <1>1, HexDigits, DigitBits
<1>10. Hex(<<14, 13, 11,  8,  8,  3,  2,  0>>) =
      {5, 8, 9, 15, 19, 20, 21, 23, 24, 26, 27, 29, 30, 31}
  BY <1>1, HexDigits, DigitBits
<1>11. Hex(<<15,  0,  0, 15,  9,  3,  4,  4>>) =
      {2, 6, 8, 9, 12, 15, 16, 17, 18, 19, 28, 29, 30, 31}
  BY <1>1, HexDigits, DigitBits
<1>12. Hex(<<13,  6, 13,  6, 10,  3, 14,  8>>) =
      {3, 5, 6, 7, 8, 9, 13, 15, 17, 18, 20, 22, 23, 25, 26, 28, 30, 31}
  BY <1>1, HexDigits, DigitBits
<1>13. Hex(<<12, 11,  6,  1, 11,  3,  8, 12>>) =
      {2, 3, 7, 8, 9, 12, 13, 15, 16, 21, 22, 24, 25, 27, 30, 31}
  BY <1>1, HexDigits, DigitBits
<1>14. Hex(<< 9, 11,  6,  4, 12,  2, 11,  0>>) =
      {4, 5, 7, 9, 14, 15, 18, 21, 22, 24, 25, 27, 28, 31}
  BY <1>1, HexDigits, DigitBits
<1>15. Hex(<< 8,  6, 13,  3, 13,  2, 13,  4>>) =
      {2, 4, 6, 7, 9, 12, 14, 15, 16, 17, 20, 22, 23, 25, 26, 31}
  BY <1>1, HexDigits, DigitBits
<1>16. Hex(<<10,  0,  0, 10, 14,  2,  7,  8>>) =
      {3, 4, 5, 6, 9, 13, 14, 15, 17, 19, 29, 31}
  BY <1>1, HexDigits, DigitBits
<1>17. Hex(<<11, 13, 11, 13, 15,  2,  1, 12>>) =
      {2, 3, 4, 9, 12, 13, 14, 15, 16, 18, 19, 20, 21, 23, 24, 26, 27, 28, 29, 31}
  BY <1>1, HexDigits, DigitBits
<1> QED
  BY <1>2, <1>3, <1>4, <1>5, <1>6, <1>7, <1>8, <1>9, <1>10, <1>11, <1>12, <1>13, <1>14, <1>15, <1>16, <1>17

-------------------------------------------------------------------------------
(* CRC-32.                                                                     *)

Poly32 == Hex(<<14, 13, 11, 8, 8, 3, 2, 0>>)

\* The positions of its one bits.
LEMMA PolyHolds == Poly32 = {5, 8, 9, 15, 19, 20, 21, 23, 24, 26, 27, 29, 30, 31}
BY Words DEF Poly32

\* One bit of the division of a word.
Shift32 == [c \in Word(32) |-> Xor(ShiftRight(c, 1), IF 0 \in c THEN Poly32 ELSE {})]

\* The same, position by position.
LEMMA Shift32Holds ==
    /\ Poly32 \subseteq 0..31
    /\ Shift32 \in [Word(32) -> Word(32)]
    /\ \A x \in Word(32), i \in 0..31 :
          i \in Shift32[x] <=> ((i + 1 \in x) # (0 \in x /\ i \in Poly32))
<1>1. Poly32 \subseteq 0..31
  BY DEF Poly32, Hex
<1>2. ASSUME NEW x \in Word(32)
      PROVE  Xor(ShiftRight(x, 1), IF 0 \in x THEN Poly32 ELSE {}) \in Word(32)
  <2>1. ShiftRight(x, 1) \subseteq 0..31
    BY DEF ShiftRight, Word
  <2>2. \A u, v \in SUBSET (0..31) : Xor(u, v) \in SUBSET (0..31)
    BY DEF Xor
  <2> QED
    BY <1>1, <2>1, <2>2 DEF Word
<1>3. ASSUME NEW x \in Word(32), NEW i \in 0..31
      PROVE  i \in ShiftRight(x, 1) <=> i + 1 \in x
  BY DEF ShiftRight, Word
<1>4. ASSUME NEW x \in Word(32), NEW i \in 0..31
      PROVE  i \in Shift32[x] <=> ((i + 1 \in x) # (0 \in x /\ i \in Poly32))
  <2>1. Shift32[x] = Xor(ShiftRight(x, 1), IF 0 \in x THEN Poly32 ELSE {})
    BY DEF Shift32
  <2> QED
    BY <1>3, <2>1 DEF Xor
<1>5. Shift32 \in [Word(32) -> Word(32)]
  BY <1>2 DEF Shift32
<1> QED
  BY <1>1, <1>4, <1>5

\* Division is linear.
LEMMA Shift32Linear ==
    ASSUME NEW x \in Word(32), NEW y \in Word(32)
    PROVE  Xor(x, y) \in Word(32) /\ Shift32[Xor(x, y)] = Xor(Shift32[x], Shift32[y])
<1>1. Xor(x, y) \in Word(32)
  BY DEF Xor, Word
<1>2. Shift32[Xor(x, y)] \subseteq 0..31 /\ Xor(Shift32[x], Shift32[y]) \subseteq 0..31
  BY <1>1, Shift32Holds DEF Xor, Word
<1>3. ASSUME NEW i \in 0..31
      PROVE  i \in Shift32[Xor(x, y)] <=> i \in Xor(Shift32[x], Shift32[y])
  BY <1>1, Shift32Holds DEF Xor
<1> QED
  BY <1>2, <1>3

\* Four bits of it, position by position: the polynomial is not in the way of the next
\* bits, as its own four lowest are zero.
LEMMA FourShifts32 ==
    ASSUME NEW x \in Word(32), NEW i \in 0..31
    PROVE  i \in Shift32[Shift32[Shift32[Shift32[x]]]] <=>
              ((i + 4 \in x) # (((0 \in x /\ i + 3 \in Poly32) # (1 \in x /\ i + 2 \in Poly32))
                              # ((2 \in x /\ i + 1 \in Poly32) # (3 \in x /\ i \in Poly32))))
<1> DEFINE x1 == Shift32[x]
           x2 == Shift32[x1]
           x3 == Shift32[x2]
           x4 == Shift32[x3]
<1>1. x1 \in Word(32) /\ x2 \in Word(32) /\ x3 \in Word(32)
  BY Shift32Holds
<1>2. 0 \notin Poly32 /\ 1 \notin Poly32 /\ 2 \notin Poly32 /\ Poly32 \subseteq 0..31
  BY PolyHolds, Shift32Holds
<1>3. /\ \A j \in Nat : j \in x1 <=> ((j + 1 \in x) # (0 \in x /\ j \in Poly32))
      /\ \A j \in Nat : j \in x2 <=> ((j + 1 \in x1) # (0 \in x1 /\ j \in Poly32))
      /\ \A j \in Nat : j \in x3 <=> ((j + 1 \in x2) # (0 \in x2 /\ j \in Poly32))
      /\ \A j \in Nat : j \in x4 <=> ((j + 1 \in x3) # (0 \in x3 /\ j \in Poly32))
  <2>1. ASSUME NEW y \in Word(32), NEW j \in Nat
        PROVE  j \in Shift32[y] <=> ((j + 1 \in y) # (0 \in y /\ j \in Poly32))
    <3>1. CASE j \in 0..31
      BY <3>1, Shift32Holds
    <3>2. CASE j \notin 0..31
      BY <1>2, <3>2, Shift32Holds DEF Word
    <3> QED
      BY <3>1, <3>2
  <2> QED
    BY <1>1, <2>1
<1> HIDE DEF x1, x2, x3, x4
<1>4. (0 \in x1 <=> 1 \in x) /\ (0 \in x2 <=> 2 \in x) /\ (0 \in x3 <=> 3 \in x)
  <2>1. 0 + 1 = 1 /\ 1 + 1 = 2 /\ 2 + 1 = 3 /\ 0 \in Nat /\ 1 \in Nat /\ 2 \in Nat
    OBVIOUS
  <2>2. (0 \in x1 <=> 1 \in x) /\ (1 \in x1 <=> 2 \in x) /\ (2 \in x1 <=> 3 \in x)
    BY <1>2, <1>3, <2>1
  <2>3. (0 \in x2 <=> 2 \in x) /\ (1 \in x2 <=> 3 \in x)
    BY <1>2, <1>3, <2>1, <2>2
  <2> QED
    BY <1>2, <1>3, <2>1, <2>2, <2>3
<1>5. i \in x4 <=> ((i + 1 \in x3) # (3 \in x /\ i \in Poly32))
  BY <1>3, <1>4
<1>6. i + 1 \in x3 <=> ((i + 2 \in x2) # (2 \in x /\ i + 1 \in Poly32))
  <2>1. i + 1 \in Nat /\ i + 1 + 1 = i + 2
    OBVIOUS
  <2> QED
    BY <1>3, <1>4, <2>1
<1>7. i + 2 \in x2 <=> ((i + 3 \in x1) # (1 \in x /\ i + 2 \in Poly32))
  <2>1. i + 2 \in Nat /\ i + 2 + 1 = i + 3
    OBVIOUS
  <2> QED
    BY <1>3, <1>4, <2>1
<1>8. i + 3 \in x1 <=> ((i + 4 \in x) # (0 \in x /\ i + 3 \in Poly32))
  <2>1. i + 3 \in Nat /\ i + 3 + 1 = i + 4
    OBVIOUS
  <2> QED
    BY <1>3, <1>4, <2>1
<1>9. i \in x4 <=>
              ((i + 4 \in x) # (((0 \in x /\ i + 3 \in Poly32) # (1 \in x /\ i + 2 \in Poly32))
                              # ((2 \in x /\ i + 1 \in Poly32) # (3 \in x /\ i \in Poly32))))
  BY <1>5, <1>6, <1>7, <1>8
<1> QED
  BY <1>9 DEF x1, x2, x3, x4

\* The table's words are what the division makes of the four bits that leave.
LEMMA TableHolds ==
    ASSUME NEW low \in SUBSET (0..3), NEW i \in 0..31
    PROVE  i \in crc32table_le[1 + Number(low)] <=>
              (((0 \in low /\ i + 3 \in Poly32) # (1 \in low /\ i + 2 \in Poly32))
               # ((2 \in low /\ i + 1 \in Poly32) # (3 \in low /\ i \in Poly32)))
<1> DEFINE bit(k, value) == IF k \in low THEN value ELSE 0
<1>1. 4 \notin low /\ 5 \notin low /\ 6 \notin low /\ 7 \notin low
  OBVIOUS
<1>2. Number(low) = bit(0, 1) + bit(1, 2) + bit(2, 4) + bit(3, 8)
  BY <1>1 DEF Number
<1>3. /\ crc32table_le[1] = {}
      /\ crc32table_le[2] = {2, 5, 6, 12, 16, 17, 18, 20, 21, 23, 24, 26, 27, 28}
      /\ crc32table_le[3] = {3, 6, 7, 13, 17, 18, 19, 21, 22, 24, 25, 27, 28, 29}
      /\ crc32table_le[4] = {2, 3, 5, 7, 12, 13, 16, 19, 20, 22, 23, 25, 26, 29}
  BY Words DEF crc32table_le
<1>4. /\ crc32table_le[5] = {4, 7, 8, 14, 18, 19, 20, 22, 23, 25, 26, 28, 29, 30}
      /\ crc32table_le[6] = {2, 4, 5, 6, 7, 8, 12, 14, 16, 17, 19, 21, 22, 24, 25, 27, 29, 30}
      /\ crc32table_le[7] = {3, 4, 6, 8, 13, 14, 17, 20, 21, 23, 24, 26, 27, 30}
      /\ crc32table_le[8] = {2, 3, 4, 5, 8, 12, 13, 14, 16, 18, 28, 30}
  BY Words DEF crc32table_le
<1>5. /\ crc32table_le[9] = {5, 8, 9, 15, 19, 20, 21, 23, 24, 26, 27, 29, 30, 31}
      /\ crc32table_le[10] = {2, 6, 8, 9, 12, 15, 16, 17, 18, 19, 28, 29, 30, 31}
      /\ crc32table_le[11] = {3, 5, 6, 7, 8, 9, 13, 15, 17, 18, 20, 22, 23, 25, 26, 28, 30, 31}
      /\ crc32table_le[12] = {2, 3, 7, 8, 9, 12, 13, 15, 16, 21, 22, 24, 25, 27, 30, 31}
  BY Words DEF crc32table_le
<1>6. /\ crc32table_le[13] = {4, 5, 7, 9, 14, 15, 18, 21, 22, 24, 25, 27, 28, 31}
      /\ crc32table_le[14] = {2, 4, 6, 7, 9, 12, 14, 15, 16, 17, 20, 22, 23, 25, 26, 31}
      /\ crc32table_le[15] = {3, 4, 5, 6, 9, 13, 14, 15, 17, 19, 29, 31}
      /\ crc32table_le[16] = {2, 3, 4, 9, 12, 13, 14, 15, 16, 18, 19, 20, 21, 23, 24, 26, 27, 28, 29, 31}
  BY Words DEF crc32table_le
<1>7. CASE 0 \notin low /\ 1 \notin low /\ 2 \notin low /\ 3 \notin low
  <2>1. 1 + Number(low) = 1
    BY <1>2, <1>7
  <2> QED
    BY <1>3, <1>7, <2>1, PolyHolds
<1>8. CASE 0 \in low /\ 1 \notin low /\ 2 \notin low /\ 3 \notin low
  <2>1. 1 + Number(low) = 2
    BY <1>2, <1>8
  <2> QED
    BY <1>3, <1>8, <2>1, PolyHolds
<1>9. CASE 0 \notin low /\ 1 \in low /\ 2 \notin low /\ 3 \notin low
  <2>1. 1 + Number(low) = 3
    BY <1>2, <1>9
  <2> QED
    BY <1>3, <1>9, <2>1, PolyHolds
<1>10. CASE 0 \in low /\ 1 \in low /\ 2 \notin low /\ 3 \notin low
  <2>1. 1 + Number(low) = 4
    BY <1>2, <1>10
  <2> QED
    BY <1>3, <1>10, <2>1, PolyHolds
<1>11. CASE 0 \notin low /\ 1 \notin low /\ 2 \in low /\ 3 \notin low
  <2>1. 1 + Number(low) = 5
    BY <1>2, <1>11
  <2> QED
    BY <1>4, <1>11, <2>1, PolyHolds
<1>12. CASE 0 \in low /\ 1 \notin low /\ 2 \in low /\ 3 \notin low
  <2>1. 1 + Number(low) = 6
    BY <1>2, <1>12
  <2> QED
    BY <1>4, <1>12, <2>1, PolyHolds
<1>13. CASE 0 \notin low /\ 1 \in low /\ 2 \in low /\ 3 \notin low
  <2>1. 1 + Number(low) = 7
    BY <1>2, <1>13
  <2> QED
    BY <1>4, <1>13, <2>1, PolyHolds
<1>14. CASE 0 \in low /\ 1 \in low /\ 2 \in low /\ 3 \notin low
  <2>1. 1 + Number(low) = 8
    BY <1>2, <1>14
  <2> QED
    BY <1>4, <1>14, <2>1, PolyHolds
<1>15. CASE 0 \notin low /\ 1 \notin low /\ 2 \notin low /\ 3 \in low
  <2>1. 1 + Number(low) = 9
    BY <1>2, <1>15
  <2> QED
    BY <1>5, <1>15, <2>1, PolyHolds
<1>16. CASE 0 \in low /\ 1 \notin low /\ 2 \notin low /\ 3 \in low
  <2>1. 1 + Number(low) = 10
    BY <1>2, <1>16
  <2> QED
    BY <1>5, <1>16, <2>1, PolyHolds
<1>17. CASE 0 \notin low /\ 1 \in low /\ 2 \notin low /\ 3 \in low
  <2>1. 1 + Number(low) = 11
    BY <1>2, <1>17
  <2> QED
    BY <1>5, <1>17, <2>1, PolyHolds
<1>18. CASE 0 \in low /\ 1 \in low /\ 2 \notin low /\ 3 \in low
  <2>1. 1 + Number(low) = 12
    BY <1>2, <1>18
  <2> QED
    BY <1>5, <1>18, <2>1, PolyHolds
<1>19. CASE 0 \notin low /\ 1 \notin low /\ 2 \in low /\ 3 \in low
  <2>1. 1 + Number(low) = 13
    BY <1>2, <1>19
  <2> QED
    BY <1>6, <1>19, <2>1, PolyHolds
<1>20. CASE 0 \in low /\ 1 \notin low /\ 2 \in low /\ 3 \in low
  <2>1. 1 + Number(low) = 14
    BY <1>2, <1>20
  <2> QED
    BY <1>6, <1>20, <2>1, PolyHolds
<1>21. CASE 0 \notin low /\ 1 \in low /\ 2 \in low /\ 3 \in low
  <2>1. 1 + Number(low) = 15
    BY <1>2, <1>21
  <2> QED
    BY <1>6, <1>21, <2>1, PolyHolds
<1>22. CASE 0 \in low /\ 1 \in low /\ 2 \in low /\ 3 \in low
  <2>1. 1 + Number(low) = 16
    BY <1>2, <1>22
  <2> QED
    BY <1>6, <1>22, <2>1, PolyHolds
<1> QED
  BY <1>7, <1>8, <1>9, <1>10, <1>11, <1>12, <1>13, <1>14, <1>15, <1>16, <1>17, <1>18, <1>19, <1>20, <1>21, <1>22

\* Half a byte by the table is four bits of the division.
LEMMA NibbleHolds ==
    ASSUME NEW x \in Word(32)
    PROVE  Nibble[x] = Shift32[Shift32[Shift32[Shift32[x]]]]
<1> DEFINE low   == x \cap 0..3
           entry == crc32table_le[1 + Number(low)]
           x4    == Shift32[Shift32[Shift32[Shift32[x]]]]
<1>1. Nibble[x] = Xor(ShiftRight(x, 4), entry)
  BY DEF Nibble
<1>2. x4 \subseteq 0..31
  <2>1. \A y \in Word(32) : Shift32[y] \in Word(32)
    BY Shift32Holds
  <2>2. x4 \in Word(32)
    BY <2>1
  <2> QED
    BY <2>2 DEF Word
<1>3. ShiftRight(x, 4) \subseteq 0..31 /\ \A i \in 0..31 : i \in ShiftRight(x, 4) <=> i + 4 \in x
  BY DEF ShiftRight, Word
<1>4. entry \subseteq 0..31
  <2>1. \A a, b, c, d, e, f, g, h : Hex(<<a, b, c, d, e, f, g, h>>) \subseteq 0..31
    BY DEF Hex
  <2>2. \A k \in 1..16 : crc32table_le[k] \subseteq 0..31
    BY <2>1 DEF crc32table_le
  <2>3. 1 + Number(low) \in 1..16
    <3>1. 4 \notin low /\ 5 \notin low /\ 6 \notin low /\ 7 \notin low
      OBVIOUS
    <3> QED
      BY <3>1 DEF Number
  <2> QED
    BY <2>2, <2>3
<1>5. ASSUME NEW i \in 0..31 PROVE i \in x4 <=> i \in Xor(ShiftRight(x, 4), entry)
  <2>1. low \in SUBSET (0..3)
    OBVIOUS
  <2>2. /\ 0 \in low <=> 0 \in x
        /\ 1 \in low <=> 1 \in x
        /\ 2 \in low <=> 2 \in x
        /\ 3 \in low <=> 3 \in x
    OBVIOUS
  <2> HIDE DEF low
  <2>3. i \in entry <=>
              (((0 \in low /\ i + 3 \in Poly32) # (1 \in low /\ i + 2 \in Poly32))
               # ((2 \in low /\ i + 1 \in Poly32) # (3 \in low /\ i \in Poly32)))
    BY <2>1, TableHolds
  <2>4. i \in x4 <=>
              ((i + 4 \in x) # (((0 \in x /\ i + 3 \in Poly32) # (1 \in x /\ i + 2 \in Poly32))
                              # ((2 \in x /\ i + 1 \in Poly32) # (3 \in x /\ i \in Poly32))))
    BY FourShifts32
  <2> HIDE DEF entry, x4
  <2>5. i \in Xor(ShiftRight(x, 4), entry) <=> ((i + 4 \in x) # (i \in entry))
    BY <1>3 DEF Xor
  <2> QED
    BY <2>2, <2>3, <2>4, <2>5
<1> HIDE DEF entry, x4
<1>6. Xor(ShiftRight(x, 4), entry) \subseteq 0..31
  BY <1>3, <1>4 DEF Xor
<1>7. Nibble[x] = x4
  BY <1>1, <1>2, <1>5, <1>6
<1> QED
  BY <1>7 DEF x4

\* The steps over a byte: of the code, and of the division.
ByTable32 == [c \in Word(32) |-> [b \in Word(8) |-> Nibble[Nibble[Xor(c, b)]]]]

Bit32 == [c \in Word(32) |-> [one \in BOOLEAN |->
             Xor(ShiftRight(c, 1), IF (0 \in c) # one THEN Poly32 ELSE {})]]

ByBits32 == [c \in Word(32) |-> [b \in Word(8) |->
                BitByBit(Bit32, c, b, [i \in 1..8 |-> i - 1])]]

\* They agree on every byte.
LEMMA Byte32 ==
    ASSUME NEW c \in Word(32), NEW b \in Word(8)
    PROVE  ByTable32[c][b] = ByBits32[c][b] /\ ByTable32[c][b] \in Word(32)
<1> DEFINE order == [i \in 1..8 |-> i - 1]
           rem   == [k \in 0..8 |-> ShiftRight(b, k)]
           W     == Word(32)
<1>1. b \in W /\ {0} \in W /\ {} \in W
  BY DEF Word
<1>2. \A x, y \in W : Xor(x, y) \in W /\ Shift32[Xor(x, y)] = Xor(Shift32[x], Shift32[y])
  BY Shift32Linear
<1>3. \A x \in W : Bit32[x][TRUE] = Shift32[Xor(x, {0})] /\ Bit32[x][FALSE] = Shift32[x]
  <2> SUFFICES ASSUME NEW x \in W
               PROVE  Bit32[x][TRUE] = Shift32[Xor(x, {0})] /\ Bit32[x][FALSE] = Shift32[x]
    OBVIOUS
  <2>1. Bit32[x][FALSE] = Shift32[x]
    <3>1. Bit32[x][FALSE] = Xor(ShiftRight(x, 1), IF (0 \in x) # FALSE THEN Poly32 ELSE {})
      BY DEF Bit32
    <3>2. ((0 \in x) # FALSE) <=> 0 \in x
      <4>1. \A one \in BOOLEAN : (one # FALSE) <=> one
        OBVIOUS
      <4>2. (0 \in x) \in BOOLEAN
        OBVIOUS
      <4> QED
        BY <4>1, <4>2, Zenon
    <3> QED
      BY <3>1, <3>2 DEF Shift32
  <2>2. Bit32[x][TRUE] = Xor(ShiftRight(x, 1), IF 0 \in x THEN {} ELSE Poly32)
    <3>1. \A one \in BOOLEAN : (one # TRUE) <=> ~one
      OBVIOUS
    <3> QED
      BY <3>1 DEF Bit32
  <2>3. Shift32[Xor(x, {0})] =
           Xor(ShiftRight(Xor(x, {0}), 1), IF 0 \in Xor(x, {0}) THEN Poly32 ELSE {})
    BY <1>1, <1>2 DEF Shift32
  <2>4. 0 \in Xor(x, {0}) <=> ~(0 \in x)
    BY DEF Xor
  <2>5. ShiftRight(Xor(x, {0}), 1) = ShiftRight(x, 1)
    BY DEF Xor, ShiftRight
  <2> QED
    BY <2>1, <2>2, <2>3, <2>4, <2>5
<1>4. rem \in [0..8 -> W] /\ rem[8] = {} /\ rem[0] = b
  <2>1. ASSUME NEW k \in 0..8 PROVE ShiftRight(b, k) \in W
    BY ByteRight DEF Word
  <2>2. ShiftRight(b, 8) = {}
    BY ByteRight DEF Word
  <2>3. ShiftRight(b, 0) = b
    <3>1. b \subseteq 0..7
      BY DEF Word
    <3>2. ShiftRight(b, 0) \subseteq 0..7 /\ \A i \in Nat : i \in ShiftRight(b, 0) <=> i + 0 \in b
      BY ByteRight
    <3>3. \A i \in 0..7 : i \in ShiftRight(b, 0) <=> i \in b
      BY <3>2
    <3> QED
      BY <3>1, <3>2, <3>3
  <2> QED
    BY <2>1, <2>2, <2>3
<1>5. \A k \in 0..7 : /\ order[k + 1] \in b <=> 0 \in rem[k]
                      /\ rem[k] \ {0} \in W
                      /\ Shift32[rem[k] \ {0}] = rem[k + 1]
  <2> SUFFICES ASSUME NEW k \in 0..7
               PROVE  /\ order[k + 1] \in b <=> 0 \in rem[k]
                      /\ rem[k] \ {0} \in W
                      /\ Shift32[rem[k] \ {0}] = rem[k + 1]
    OBVIOUS
  <2>1. order[k + 1] = k /\ rem[k] = ShiftRight(b, k) /\ rem[k + 1] = ShiftRight(b, k + 1)
    BY SMT
  <2>2. k \in b <=> 0 \in ShiftRight(b, k)
    BY DEF ShiftRight, Word
  <2>3. ShiftRight(b, k) \ {0} \in W
    BY DEF ShiftRight, Word
  <2>4. Shift32[ShiftRight(b, k) \ {0}] = Xor(ShiftRight(ShiftRight(b, k) \ {0}, 1), {})
    BY <2>3 DEF Shift32
  <2>5. ShiftRight(ShiftRight(b, k) \ {0}, 1) = ShiftRight(b, k + 1)
    <3> DEFINE left == ShiftRight(b, k) \ {0}
    <3>1. ASSUME NEW i \in Nat PROVE i \in ShiftRight(b, k + 1) <=> i + 1 \in left
      <4>1. /\ i + 1 \in Nat /\ i + 1 # 0 /\ i + 1 + k = i + (k + 1)
            /\ k \in 0..8 /\ k + 1 \in 0..8
        OBVIOUS
      <4>2. i + 1 \in ShiftRight(b, k) <=> i + 1 + k \in b
        BY <4>1, ByteRight
      <4>3. i \in ShiftRight(b, k + 1) <=> i + (k + 1) \in b
        BY <4>1, ByteRight
      <4> QED
        BY <4>1, <4>2, <4>3
    <3>2. left \subseteq Nat \ {0} /\ ShiftRight(b, k + 1) \subseteq Nat
      <4>1. k \in 0..8 /\ k + 1 \in 0..8
        OBVIOUS
      <4>2. ShiftRight(b, k) \subseteq 0..7 /\ ShiftRight(b, k + 1) \subseteq 0..7
        BY <4>1, ByteRight
      <4> QED
        BY <4>2
    <3> HIDE DEF left
    <3>3. ShiftRight(left, 1) \subseteq Nat /\ \A i \in Nat : i \in ShiftRight(left, 1) <=> i + 1 \in left
      BY <3>2 DEF ShiftRight
    <3>4. ShiftRight(left, 1) = ShiftRight(b, k + 1)
      BY <3>1, <3>2, <3>3
    <3> QED
      BY <3>4 DEF left
  <2> QED
    BY <2>1, <2>2, <2>3, <2>4, <2>5 DEF Xor
<1> DEFINE y == Xor(c, b)
<1>6. y \in W
  BY <1>1, <1>2
<1> HIDE DEF order, rem, W, y
<1>7. c \in W
  BY DEF W
<1>8. Shift32 \in [W -> W]
  BY Shift32Holds DEF W
<1>9. BitByBit(Bit32, c, b, order) = EightTimes(Shift32, Xor(c, rem[0]))
  <2>1. Divides(W, Shift32, 0, Bit32)
    BY <1>1, <1>2, <1>3, <1>8 DEF Divides
  <2>2. LaidOut(W, Shift32, 0, b, order, rem)
    BY <1>4, <1>5 DEF LaidOut
  <2> QED
    BY <1>7, <2>1, <2>2, EightBits
<1>10. BitByBit(Bit32, c, b, order) =
         Shift32[Shift32[Shift32[Shift32[Shift32[Shift32[Shift32[Shift32[y]]]]]]]]
  BY <1>4, <1>9 DEF y, EightTimes
<1>11. Nibble[y] = Shift32[Shift32[Shift32[Shift32[y]]]] /\ Nibble[y] \in W
  BY <1>6, <1>8, NibbleHolds DEF W
<1>12. Nibble[Nibble[y]] = Shift32[Shift32[Shift32[Shift32[Nibble[y]]]]] /\ Nibble[Nibble[y]] \in W
  BY <1>8, <1>11, NibbleHolds DEF W
<1>13. ByTable32[c][b] = Nibble[Nibble[y]]
  BY DEF ByTable32, y
<1>14. ByBits32[c][b] = BitByBit(Bit32, c, b, order)
  BY DEF ByBits32, order
<1> QED
  BY <1>10, <1>11, <1>12, <1>13, <1>14 DEF W

\* So the table may be used for the division.
LEMMA Bytes32 == Agree(Word(32), ByTable32, ByBits32)
BY Byte32 DEF Agree

\* A word complemented twice.
LEMMA OnesHolds ==
    \A w \in Word(32) : Xor(w, Ones) \in Word(32) /\ Xor(Xor(w, Ones), Ones) = w
BY DEF Xor, Word, Ones

\* CRC_32 is the remainder of the division, for every message.
THEOREM CRC_32Holds == \A message \in Seq(Octet) : CRC_32({}, message) = Crc32ByDivision(message)
<1> SUFFICES ASSUME NEW message \in Seq(Octet)
             PROVE  CRC_32({}, message) = Crc32ByDivision(message)
  OBVIOUS
<1>1. Ones \in Word(32) /\ Xor({}, Ones) = Ones
  BY DEF Xor, Word, Ones
<1>2. Along(ByTable32, Ones, message) = Along(ByBits32, Ones, message)
  BY <1>1, Bytes32, AlongSame
<1>3. CRC_32({}, message) = Xor(Along(ByTable32, Ones, message), Ones)
  BY <1>1 DEF CRC_32, crc32_no_comp, ByTable32
<1>4. Crc32ByDivision(message) = Xor(Along(ByBits32, Ones, message), Ones)
  BY DEF Crc32ByDivision, ByBits32, Bit32, Poly32
<1> QED
  BY <1>2, <1>3, <1>4

\* What was computed for one piece is where the next piece goes on.
THEOREM CRC_32Chains ==
    ASSUME NEW crc \in Word(32), NEW p \in Seq(Octet), NEW q \in Seq(Octet)
    PROVE  CRC_32(CRC_32(crc, p), q) = CRC_32(crc, p \o q)
<1> DEFINE first  == Xor(crc, Ones)
           middle == Along(ByTable32, first, p)
<1>1. first \in Word(32)
  BY OnesHolds
<1>2. middle \in Word(32)
  BY <1>1, Bytes32, AlongSame
<1>3. \A c, m : CRC_32(c, m) = Xor(Along(ByTable32, Xor(c, Ones), m), Ones)
  BY DEF CRC_32, crc32_no_comp, ByTable32
<1> HIDE DEF first, middle
<1>4. CRC_32(crc, p) = Xor(middle, Ones)
  BY <1>3 DEF first, middle
<1>5. Xor(Xor(middle, Ones), Ones) = middle
  BY <1>2, OnesHolds
<1>6. CRC_32(CRC_32(crc, p), q) = Xor(Along(ByTable32, middle, q), Ones)
  BY <1>3, <1>4, <1>5
<1>7. Along(ByTable32, first, p \o q) = Along(ByTable32, middle, q)
  BY AlongConcat DEF middle
<1>8. CRC_32(crc, p \o q) = Xor(Along(ByTable32, first, p \o q), Ones)
  BY <1>3 DEF first
<1> QED
  BY <1>6, <1>7, <1>8

-------------------------------------------------------------------------------
(* CRC-16, whose byte comes in at the other end.                               *)

\* One bit of the division of a word.
Shift16 == [c \in Word(16) |-> Xor(ShiftLeft(c, 1, 16), IF 15 \in c THEN {0, 5, 12} ELSE {})]

\* What is where after a word's shift to the left.
LEMMA WordLeft ==
    ASSUME NEW a \in Word(16), NEW n \in 0..16
    PROVE  /\ ShiftLeft(a, n, 16) \in Word(16)
           /\ \A i \in 0..15 : i \in ShiftLeft(a, n, 16) <=> i >= n /\ i - n \in a
BY DEF ShiftLeft, Word

\* The same, position by position.
LEMMA Shift16Holds ==
    /\ Shift16 \in [Word(16) -> Word(16)]
    /\ \A y \in Word(16), i \in 0..15 :
          i \in Shift16[y] <=> ((i >= 1 /\ i - 1 \in y) # (15 \in y /\ i \in {0, 5, 12}))
<1>1. \A u, v \in SUBSET (0..15) : Xor(u, v) \in SUBSET (0..15)
  BY DEF Xor
<1>2. ASSUME NEW y \in Word(16)
      PROVE  Xor(ShiftLeft(y, 1, 16), IF 15 \in y THEN {0, 5, 12} ELSE {}) \in Word(16)
  <2>1. ShiftLeft(y, 1, 16) \subseteq 0..15
    BY WordLeft DEF Word
  <2> QED
    BY <1>1, <2>1 DEF Word
<1>3. ASSUME NEW y \in Word(16), NEW i \in 0..15
      PROVE  i \in Shift16[y] <=> ((i >= 1 /\ i - 1 \in y) # (15 \in y /\ i \in {0, 5, 12}))
  <2>1. Shift16[y] = Xor(ShiftLeft(y, 1, 16), IF 15 \in y THEN {0, 5, 12} ELSE {})
    BY DEF Shift16
  <2>2. i \in ShiftLeft(y, 1, 16) <=> i >= 1 /\ i - 1 \in y
    BY WordLeft
  <2> QED
    BY <2>1, <2>2 DEF Xor
<1>4. Shift16 \in [Word(16) -> Word(16)]
  BY <1>2 DEF Shift16
<1> QED
  BY <1>3, <1>4

\* The same, written out.
LEMMA OneShift16 ==
    ASSUME NEW x \in Word(16)
    PROVE  /\ Shift16[x] \in Word(16)
           /\ 0 \in Shift16[x] <=> 15 \in x
           /\ 1 \in Shift16[x] <=> 0 \in x
           /\ 2 \in Shift16[x] <=> 1 \in x
           /\ 3 \in Shift16[x] <=> 2 \in x
           /\ 4 \in Shift16[x] <=> 3 \in x
           /\ 5 \in Shift16[x] <=> ((4 \in x) # (15 \in x))
           /\ 6 \in Shift16[x] <=> 5 \in x
           /\ 7 \in Shift16[x] <=> 6 \in x
           /\ 8 \in Shift16[x] <=> 7 \in x
           /\ 9 \in Shift16[x] <=> 8 \in x
           /\ 10 \in Shift16[x] <=> 9 \in x
           /\ 11 \in Shift16[x] <=> 10 \in x
           /\ 12 \in Shift16[x] <=> ((11 \in x) # (15 \in x))
           /\ 13 \in Shift16[x] <=> 12 \in x
           /\ 14 \in Shift16[x] <=> 13 \in x
           /\ 15 \in Shift16[x] <=> 14 \in x
BY Shift16Holds

\* Four bits of it.
LEMMA FourShifts16 ==
    ASSUME NEW x \in Word(16), NEW y, y = Shift16[Shift16[Shift16[Shift16[x]]]]
    PROVE  /\ y \in Word(16)
           /\ 0 \in y <=> 12 \in x
           /\ 1 \in y <=> 13 \in x
           /\ 2 \in y <=> 14 \in x
           /\ 3 \in y <=> 15 \in x
           /\ 4 \in y <=> 0 \in x
           /\ 5 \in y <=> ((1 \in x) # (12 \in x))
           /\ 6 \in y <=> ((2 \in x) # (13 \in x))
           /\ 7 \in y <=> ((3 \in x) # (14 \in x))
           /\ 8 \in y <=> ((4 \in x) # (15 \in x))
           /\ 9 \in y <=> 5 \in x
           /\ 10 \in y <=> 6 \in x
           /\ 11 \in y <=> 7 \in x
           /\ 12 \in y <=> ((8 \in x) # (12 \in x))
           /\ 13 \in y <=> ((9 \in x) # (13 \in x))
           /\ 14 \in y <=> ((10 \in x) # (14 \in x))
           /\ 15 \in y <=> ((11 \in x) # (15 \in x))
<1> DEFINE x1 == Shift16[x]
           x2 == Shift16[x1]
           x3 == Shift16[x2]
<1>1. x1 \in Word(16) /\ x2 \in Word(16) /\ x3 \in Word(16) /\ y \in Word(16)
  BY Shift16Holds
<1>2. /\ 0 \in x1 <=> 15 \in x
      /\ 1 \in x1 <=> 0 \in x
      /\ 2 \in x1 <=> 1 \in x
      /\ 3 \in x1 <=> 2 \in x
      /\ 4 \in x1 <=> 3 \in x
      /\ 5 \in x1 <=> ((4 \in x) # (15 \in x))
      /\ 6 \in x1 <=> 5 \in x
      /\ 7 \in x1 <=> 6 \in x
      /\ 8 \in x1 <=> 7 \in x
      /\ 9 \in x1 <=> 8 \in x
      /\ 10 \in x1 <=> 9 \in x
      /\ 11 \in x1 <=> 10 \in x
      /\ 12 \in x1 <=> ((11 \in x) # (15 \in x))
      /\ 13 \in x1 <=> 12 \in x
      /\ 14 \in x1 <=> 13 \in x
      /\ 15 \in x1 <=> 14 \in x
  BY OneShift16
<1> HIDE DEF x1
<1>3. /\ 0 \in x2 <=> 14 \in x
      /\ 1 \in x2 <=> 15 \in x
      /\ 2 \in x2 <=> 0 \in x
      /\ 3 \in x2 <=> 1 \in x
      /\ 4 \in x2 <=> 2 \in x
      /\ 5 \in x2 <=> ((3 \in x) # (14 \in x))
      /\ 6 \in x2 <=> ((4 \in x) # (15 \in x))
      /\ 7 \in x2 <=> 5 \in x
      /\ 8 \in x2 <=> 6 \in x
      /\ 9 \in x2 <=> 7 \in x
      /\ 10 \in x2 <=> 8 \in x
      /\ 11 \in x2 <=> 9 \in x
      /\ 12 \in x2 <=> ((10 \in x) # (14 \in x))
      /\ 13 \in x2 <=> ((11 \in x) # (15 \in x))
      /\ 14 \in x2 <=> 12 \in x
      /\ 15 \in x2 <=> 13 \in x
  BY <1>1, <1>2, OneShift16
<1> HIDE DEF x2
<1>4. /\ 0 \in x3 <=> 13 \in x
      /\ 1 \in x3 <=> 14 \in x
      /\ 2 \in x3 <=> 15 \in x
      /\ 3 \in x3 <=> 0 \in x
      /\ 4 \in x3 <=> 1 \in x
      /\ 5 \in x3 <=> ((2 \in x) # (13 \in x))
      /\ 6 \in x3 <=> ((3 \in x) # (14 \in x))
      /\ 7 \in x3 <=> ((4 \in x) # (15 \in x))
      /\ 8 \in x3 <=> 5 \in x
      /\ 9 \in x3 <=> 6 \in x
      /\ 10 \in x3 <=> 7 \in x
      /\ 11 \in x3 <=> 8 \in x
      /\ 12 \in x3 <=> ((9 \in x) # (13 \in x))
      /\ 13 \in x3 <=> ((10 \in x) # (14 \in x))
      /\ 14 \in x3 <=> ((11 \in x) # (15 \in x))
      /\ 15 \in x3 <=> 12 \in x
  BY <1>1, <1>3, OneShift16
<1>5. y = Shift16[x3]
  BY DEF x1, x2
<1> HIDE DEF x3
<1> QED
  BY <1>1, <1>4, <1>5, OneShift16

\* A whole byte of it.
LEMMA EightShifts16 ==
    ASSUME NEW x \in Word(16)
    PROVE  /\ EightTimes(Shift16, x) \in Word(16)
           /\ 0 \in EightTimes(Shift16, x) <=> ((8 \in x) # (12 \in x))
           /\ 1 \in EightTimes(Shift16, x) <=> ((9 \in x) # (13 \in x))
           /\ 2 \in EightTimes(Shift16, x) <=> ((10 \in x) # (14 \in x))
           /\ 3 \in EightTimes(Shift16, x) <=> ((11 \in x) # (15 \in x))
           /\ 4 \in EightTimes(Shift16, x) <=> 12 \in x
           /\ 5 \in EightTimes(Shift16, x) <=> ((13 \in x) # ((8 \in x) # (12 \in x)))
           /\ 6 \in EightTimes(Shift16, x) <=> ((14 \in x) # ((9 \in x) # (13 \in x)))
           /\ 7 \in EightTimes(Shift16, x) <=> ((15 \in x) # ((10 \in x) # (14 \in x)))
           /\ 8 \in EightTimes(Shift16, x) <=> ((0 \in x) # ((11 \in x) # (15 \in x)))
           /\ 9 \in EightTimes(Shift16, x) <=> ((1 \in x) # (12 \in x))
           /\ 10 \in EightTimes(Shift16, x) <=> ((2 \in x) # (13 \in x))
           /\ 11 \in EightTimes(Shift16, x) <=> ((3 \in x) # (14 \in x))
           /\ 12 \in EightTimes(Shift16, x) <=> (((4 \in x) # (15 \in x)) # ((8 \in x) # (12 \in x)))
           /\ 13 \in EightTimes(Shift16, x) <=> ((5 \in x) # ((9 \in x) # (13 \in x)))
           /\ 14 \in EightTimes(Shift16, x) <=> ((6 \in x) # ((10 \in x) # (14 \in x)))
           /\ 15 \in EightTimes(Shift16, x) <=> ((7 \in x) # ((11 \in x) # (15 \in x)))
<1> DEFINE y == Shift16[Shift16[Shift16[Shift16[x]]]]
           z == Shift16[Shift16[Shift16[Shift16[y]]]]
<1>1. y \in Word(16)
  BY FourShifts16
<1>2. /\ 0 \in y <=> 12 \in x
      /\ 1 \in y <=> 13 \in x
      /\ 2 \in y <=> 14 \in x
      /\ 3 \in y <=> 15 \in x
      /\ 4 \in y <=> 0 \in x
      /\ 5 \in y <=> ((1 \in x) # (12 \in x))
      /\ 6 \in y <=> ((2 \in x) # (13 \in x))
      /\ 7 \in y <=> ((3 \in x) # (14 \in x))
      /\ 8 \in y <=> ((4 \in x) # (15 \in x))
      /\ 9 \in y <=> 5 \in x
      /\ 10 \in y <=> 6 \in x
      /\ 11 \in y <=> 7 \in x
      /\ 12 \in y <=> ((8 \in x) # (12 \in x))
      /\ 13 \in y <=> ((9 \in x) # (13 \in x))
      /\ 14 \in y <=> ((10 \in x) # (14 \in x))
      /\ 15 \in y <=> ((11 \in x) # (15 \in x))
  BY FourShifts16
<1> HIDE DEF y
<1>3. z \in Word(16)
  BY <1>1, FourShifts16
<1>4. /\ 0 \in z <=> 12 \in y
      /\ 1 \in z <=> 13 \in y
      /\ 2 \in z <=> 14 \in y
      /\ 3 \in z <=> 15 \in y
      /\ 4 \in z <=> 0 \in y
      /\ 5 \in z <=> ((1 \in y) # (12 \in y))
      /\ 6 \in z <=> ((2 \in y) # (13 \in y))
      /\ 7 \in z <=> ((3 \in y) # (14 \in y))
      /\ 8 \in z <=> ((4 \in y) # (15 \in y))
      /\ 9 \in z <=> 5 \in y
      /\ 10 \in z <=> 6 \in y
      /\ 11 \in z <=> 7 \in y
      /\ 12 \in z <=> ((8 \in y) # (12 \in y))
      /\ 13 \in z <=> ((9 \in y) # (13 \in y))
      /\ 14 \in z <=> ((10 \in y) # (14 \in y))
      /\ 15 \in z <=> ((11 \in y) # (15 \in y))
  BY <1>1, FourShifts16
<1>5. EightTimes(Shift16, x) = z
  BY DEF EightTimes, y
<1> HIDE DEF z
<1> QED
  BY <1>2, <1>3, <1>4, <1>5

\* Exclusive or, position by position.
LEMMA XorHolds ==
    ASSUME NEW u, NEW v
    PROVE  /\ Xor(u, v) \subseteq u \cup v
           /\ \A i : i \in Xor(u, v) <=> ((i \in u) # (i \in v))
BY DEF Xor

\* The steps over a byte: of the code, and of the division.
Mix == [cksum \in Word(16) |-> [s \in Word(8) |->
           LET t == Xor(s, ShiftRight(s, 4))
           IN  Xor(Xor(ShiftLeft(cksum, 8, 16), t),
                   Xor(ShiftLeft(t, 5, 16), ShiftLeft(t, 12, 16)))]]

ByMixing == [cksum \in Word(16) |-> [b \in Word(8) |->
                Mix[cksum][Xor(b, ShiftRight(cksum, 8))]]]

Bit16 == [c \in Word(16) |-> [one \in BOOLEAN |->
             Xor(ShiftLeft(c, 1, 16), IF (15 \in c) # one THEN {0, 5, 12} ELSE {})]]

ByBits16 == [c \in Word(16) |-> [b \in Word(8) |->
                BitByBit(Bit16, c, b, [i \in 1..8 |-> 8 - i])]]

\* Mixing is eight bits of the division of the word with the byte over its high half.
LEMMA MixHolds ==
    ASSUME NEW c \in Word(16), NEW b \in Word(8), NEW x \in Word(16),
           x = Xor(c, ShiftLeft(b, 8, 16))
    PROVE  ByMixing[c][b] = EightTimes(Shift16, x)
<1> DEFINE s == Xor(b, ShiftRight(c, 8))
           t == Xor(s, ShiftRight(s, 4))
           y == Xor(Xor(ShiftLeft(c, 8, 16), t), Xor(ShiftLeft(t, 5, 16), ShiftLeft(t, 12, 16)))
<1>1. b \in Word(16) /\ b \subseteq 0..7
  BY DEF Word
<1>2. \A i \in 0..15 : i \in x <=> ((i \in c) # (i >= 8 /\ i - 8 \in b))
  BY <1>1, WordLeft DEF Xor
<1>3. s \in Word(8) /\ \A i \in 0..7 : i \in s <=> i + 8 \in x
  <2>1. ShiftRight(c, 8) \subseteq 0..7 /\ \A i \in 0..7 : i \in ShiftRight(c, 8) <=> i + 8 \in c
    BY DEF ShiftRight, Word
  <2>2. s \subseteq 0..7 /\ \A i \in 0..7 : i \in s <=> ((i \in b) # (i + 8 \in c))
    <3> DEFINE high == ShiftRight(c, 8)
    <3>1. high \subseteq 0..7 /\ \A i \in 0..7 : i \in high <=> i + 8 \in c
      BY <2>1
    <3>2. s = Xor(b, high)
      OBVIOUS
    <3> HIDE DEF high, s
    <3>3. s \subseteq 0..7
      BY <1>1, <3>1, <3>2, XorHolds
    <3>4. \A i : i \in s <=> ((i \in b) # (i \in high))
      BY <3>2, XorHolds
    <3> QED
      BY <3>1, <3>3, <3>4
  <2>3. \A i \in 0..7 : i + 8 \in 0..15 /\ i + 8 >= 8 /\ i + 8 - 8 = i
    OBVIOUS
  <2> HIDE DEF s
  <2> QED
    BY <1>2, <2>2, <2>3 DEF Word
<1> HIDE DEF s
<1>4. /\ t \in Word(8)
      /\ \A i \in 0..3 : i \in t <=> ((i + 8 \in x) # (i + 12 \in x))
      /\ \A i \in 4..7 : i \in t <=> i + 8 \in x
  <2>1. /\ ShiftRight(s, 4) \subseteq 0..3
        /\ \A i \in 0..3 : i \in ShiftRight(s, 4) <=> i + 4 \in s
    BY <1>3 DEF ShiftRight, Word
  <2>2. t \subseteq 0..7
    <3>1. s \subseteq 0..7 /\ ShiftRight(s, 4) \subseteq 0..7
      BY <1>3, <2>1 DEF Word
    <3> QED
      BY <3>1, XorHolds
  <2>3. \A i \in 0..3 : i \in t <=> ((i \in s) # (i + 4 \in s))
    BY <2>1 DEF Xor
  <2>4. \A i \in 4..7 : i \in t <=> i \in s
    BY <2>1 DEF Xor
  <2>5. \A i \in 0..3 : i \in 0..7 /\ i + 4 \in 0..7 /\ i + 4 + 8 = i + 12
    OBVIOUS
  <2> HIDE DEF t
  <2> QED
    BY <1>3, <2>2, <2>3, <2>4, <2>5 DEF Word
<1> HIDE DEF t
<1>5. t \in Word(16) /\ t \subseteq 0..7
  BY <1>4 DEF Word
<1>6. /\ y \in Word(16)
      /\ \A i \in 0..15 : i \in y <=>
            (((i >= 8 /\ i - 8 \in c) # (i \in t)) # ((i >= 5 /\ i - 5 \in t) # (i >= 12 /\ i - 12 \in t)))
  <2> DEFINE p == ShiftLeft(c, 8, 16)
             q == ShiftLeft(t, 5, 16)
             r == ShiftLeft(t, 12, 16)
  <2>1. p \in Word(16) /\ \A i \in 0..15 : i \in p <=> i >= 8 /\ i - 8 \in c
    BY WordLeft
  <2>2. q \in Word(16) /\ \A i \in 0..15 : i \in q <=> i >= 5 /\ i - 5 \in t
    BY <1>5, WordLeft
  <2>3. r \in Word(16) /\ \A i \in 0..15 : i \in r <=> i >= 12 /\ i - 12 \in t
    BY <1>5, WordLeft
  <2> HIDE DEF p, q, r
  <2>4. Xor(Xor(p, t), Xor(q, r)) \in Word(16)
    BY <1>5, <2>1, <2>2, <2>3 DEF Xor, Word
  <2>5. \A i : i \in Xor(Xor(p, t), Xor(q, r)) <=> (((i \in p) # (i \in t)) # ((i \in q) # (i \in r)))
    BY DEF Xor
  <2>6. y = Xor(Xor(p, t), Xor(q, r))
    BY DEF p, q, r
  <2> HIDE DEF y
  <2> QED
    BY <2>1, <2>2, <2>3, <2>4, <2>5, <2>6
<1>7. ByMixing[c][b] = y
  BY <1>3 DEF ByMixing, Mix, s, t
<1> HIDE DEF y
<1> DEFINE z == EightTimes(Shift16, x)
<1>8. z \in Word(16)
  BY EightShifts16
<1>9. \A i \in 0..7 : i \in c <=> i \in x
  BY <1>2
<1>10. ASSUME NEW i \in 0..15 PROVE i \in y <=> i \in z
  <2> HIDE DEF z
  <2>1. /\ 0 \in z <=> ((8 \in x) # (12 \in x))
        /\ 1 \in z <=> ((9 \in x) # (13 \in x))
        /\ 2 \in z <=> ((10 \in x) # (14 \in x))
        /\ 3 \in z <=> ((11 \in x) # (15 \in x))
        /\ 4 \in z <=> 12 \in x
        /\ 5 \in z <=> ((13 \in x) # ((8 \in x) # (12 \in x)))
        /\ 6 \in z <=> ((14 \in x) # ((9 \in x) # (13 \in x)))
        /\ 7 \in z <=> ((15 \in x) # ((10 \in x) # (14 \in x)))
        /\ 8 \in z <=> ((0 \in x) # ((11 \in x) # (15 \in x)))
        /\ 9 \in z <=> ((1 \in x) # (12 \in x))
        /\ 10 \in z <=> ((2 \in x) # (13 \in x))
        /\ 11 \in z <=> ((3 \in x) # (14 \in x))
        /\ 12 \in z <=> (((4 \in x) # (15 \in x)) # ((8 \in x) # (12 \in x)))
        /\ 13 \in z <=> ((5 \in x) # ((9 \in x) # (13 \in x)))
        /\ 14 \in z <=> ((6 \in x) # ((10 \in x) # (14 \in x)))
        /\ 15 \in z <=> ((7 \in x) # ((11 \in x) # (15 \in x)))
    BY EightShifts16 DEF z
  <2>2. /\ 0 \in y <=> ((8 \in x) # (12 \in x))
        /\ 1 \in y <=> ((9 \in x) # (13 \in x))
        /\ 2 \in y <=> ((10 \in x) # (14 \in x))
        /\ 3 \in y <=> ((11 \in x) # (15 \in x))
        /\ 4 \in y <=> 12 \in x
        /\ 5 \in y <=> ((13 \in x) # ((8 \in x) # (12 \in x)))
        /\ 6 \in y <=> ((14 \in x) # ((9 \in x) # (13 \in x)))
        /\ 7 \in y <=> ((15 \in x) # ((10 \in x) # (14 \in x)))
        /\ 8 \in y <=> ((0 \in x) # ((11 \in x) # (15 \in x)))
        /\ 9 \in y <=> ((1 \in x) # (12 \in x))
        /\ 10 \in y <=> ((2 \in x) # (13 \in x))
        /\ 11 \in y <=> ((3 \in x) # (14 \in x))
        /\ 12 \in y <=> (((4 \in x) # (15 \in x)) # ((8 \in x) # (12 \in x)))
        /\ 13 \in y <=> ((5 \in x) # ((9 \in x) # (13 \in x)))
        /\ 14 \in y <=> ((6 \in x) # ((10 \in x) # (14 \in x)))
        /\ 15 \in y <=> ((7 \in x) # ((11 \in x) # (15 \in x)))
    BY <1>4, <1>5, <1>6, <1>9
  <2> QED
    BY <2>1, <2>2
<1>11. y = z
  <2> HIDE DEF z
  <2>1. y \subseteq 0..15 /\ z \subseteq 0..15
    BY <1>6, <1>8 DEF Word
  <2> QED
    BY <1>10, <2>1
<1> QED
  BY <1>7, <1>11

\* They agree on every byte.
LEMMA Byte16 ==
    ASSUME NEW c \in Word(16), NEW b \in Word(8)
    PROVE  ByMixing[c][b] = ByBits16[c][b] /\ ByMixing[c][b] \in Word(16)
<1> DEFINE order == [i \in 1..8 |-> 8 - i]
           rem   == [k \in 0..8 |-> ShiftLeft(b, 8 + k, 16)]
           W     == Word(16)
<1>1. {15} \in W /\ {} \in W /\ b \in W
  BY DEF Word
<1>2. \A x, y \in W : Xor(x, y) \in W /\ Shift16[Xor(x, y)] = Xor(Shift16[x], Shift16[y])
  <2> SUFFICES ASSUME NEW x \in W, NEW y \in W
               PROVE  Xor(x, y) \in W /\ Shift16[Xor(x, y)] = Xor(Shift16[x], Shift16[y])
    OBVIOUS
  <2>1. Xor(x, y) \in W
    <3>1. Xor(x, y) \subseteq x \cup y
      BY XorHolds
    <3> QED
      BY <3>1 DEF Word
  <2>2. Shift16[x] \in W /\ Shift16[y] \in W /\ Shift16[Xor(x, y)] \in W
    BY <2>1, Shift16Holds
  <2>3. Xor(Shift16[x], Shift16[y]) \subseteq 0..15 /\ Shift16[Xor(x, y)] \subseteq 0..15
    BY <2>2, XorHolds DEF Word
  <2>4. ASSUME NEW i \in 0..15
        PROVE  i \in Shift16[Xor(x, y)] <=> i \in Xor(Shift16[x], Shift16[y])
    BY <2>1, Shift16Holds, XorHolds
  <2> QED
    BY <2>1, <2>3, <2>4
<1>3. \A x \in W : Bit16[x][TRUE] = Shift16[Xor(x, {15})] /\ Bit16[x][FALSE] = Shift16[x]
  <2> SUFFICES ASSUME NEW x \in W
               PROVE  Bit16[x][TRUE] = Shift16[Xor(x, {15})] /\ Bit16[x][FALSE] = Shift16[x]
    OBVIOUS
  <2>1. Bit16[x][FALSE] = Shift16[x]
    <3>1. Bit16[x][FALSE] = Xor(ShiftLeft(x, 1, 16), IF (15 \in x) # FALSE THEN {0, 5, 12} ELSE {})
      BY DEF Bit16
    <3>2. ((15 \in x) # FALSE) <=> 15 \in x
      <4>1. \A one \in BOOLEAN : (one # FALSE) <=> one
        OBVIOUS
      <4>2. (15 \in x) \in BOOLEAN
        OBVIOUS
      <4> QED
        BY <4>1, <4>2, Zenon
    <3> QED
      BY <3>1, <3>2 DEF Shift16
  <2>2. Bit16[x][TRUE] = Xor(ShiftLeft(x, 1, 16), IF 15 \in x THEN {} ELSE {0, 5, 12})
    <3>1. \A one \in BOOLEAN : (one # TRUE) <=> ~one
      OBVIOUS
    <3> QED
      BY <3>1 DEF Bit16
  <2>3. Shift16[Xor(x, {15})] =
           Xor(ShiftLeft(Xor(x, {15}), 1, 16), IF 15 \in Xor(x, {15}) THEN {0, 5, 12} ELSE {})
    BY <1>1, <1>2 DEF Shift16
  <2>4. 15 \in Xor(x, {15}) <=> ~(15 \in x)
    BY DEF Xor
  <2>5. ShiftLeft(Xor(x, {15}), 1, 16) = ShiftLeft(x, 1, 16)
    BY DEF Xor, ShiftLeft
  <2> QED
    BY <2>1, <2>2, <2>3, <2>4, <2>5
<1>4. rem \in [0..8 -> W] /\ rem[8] = {} /\ rem[0] = ShiftLeft(b, 8, 16)
  <2>1. ASSUME NEW k \in 0..8 PROVE ShiftLeft(b, 8 + k, 16) \in W
    BY <1>1, WordLeft
  <2>2. ShiftLeft(b, 16, 16) = {}
    BY DEF ShiftLeft, Word
  <2>3. 8 + 8 = 16 /\ 8 + 0 = 8
    OBVIOUS
  <2> QED
    BY <2>1, <2>2, <2>3
<1>5. \A k \in 0..7 : /\ order[k + 1] \in b <=> 15 \in rem[k]
                      /\ rem[k] \ {15} \in W
                      /\ Shift16[rem[k] \ {15}] = rem[k + 1]
  <2> SUFFICES ASSUME NEW k \in 0..7
               PROVE  /\ order[k + 1] \in b <=> 15 \in rem[k]
                      /\ rem[k] \ {15} \in W
                      /\ Shift16[rem[k] \ {15}] = rem[k + 1]
    OBVIOUS
  <2>1. /\ order[k + 1] = 7 - k
        /\ rem[k] = ShiftLeft(b, 8 + k, 16) /\ rem[k + 1] = ShiftLeft(b, 8 + (k + 1), 16)
    BY SMT
  <2> DEFINE now  == ShiftLeft(b, 8 + k, 16)
             next == ShiftLeft(b, 8 + (k + 1), 16)
             left == now \ {15}
  <2>2. now \in W /\ \A i \in 0..15 : i \in now <=> i >= 8 + k /\ i - (8 + k) \in b
    BY <1>1, WordLeft
  <2>3. next \in W /\ \A i \in 0..15 : i \in next <=> i >= 8 + (k + 1) /\ i - (8 + (k + 1)) \in b
    BY <1>1, WordLeft
  <2> HIDE DEF now, next
  <2>4. 7 - k \in b <=> 15 \in now
    BY <2>2
  <2>5. left \in W /\ 15 \notin left
    BY <2>2 DEF Word
  <2>6. Shift16[left] = Xor(ShiftLeft(left, 1, 16), {})
    BY <2>5 DEF Shift16
  <2>7. ShiftLeft(left, 1, 16) = next
    <3>1. /\ ShiftLeft(left, 1, 16) \subseteq 0..15
          /\ \A i \in 0..15 : i \in ShiftLeft(left, 1, 16) <=> i >= 1 /\ i - 1 \in left
      BY <2>5, WordLeft DEF Word
    <3>2. next \subseteq 0..15
      BY <2>3 DEF Word
    <3>3. ASSUME NEW i \in 0..15 PROVE (i >= 1 /\ i - 1 \in left) <=> i \in next
      <4>1. i >= 1 => i - 1 \in 0..15 /\ i - 1 # 15 /\ i - 1 - (8 + k) = i - (8 + (k + 1))
        OBVIOUS
      <4> QED
        BY <2>2, <2>3, <4>1
    <3> QED
      BY <3>1, <3>2, <3>3
  <2> QED
    BY <2>1, <2>4, <2>5, <2>6, <2>7 DEF Xor, now, next
<1> DEFINE x == Xor(c, ShiftLeft(b, 8, 16))
<1>6. x \in W
  BY <1>1, <1>2, WordLeft
<1>7. ByMixing[c][b] = EightTimes(Shift16, x)
  BY <1>6, MixHolds
<1> HIDE DEF order, rem, W, x
<1>8. c \in W /\ Shift16 \in [W -> W]
  BY Shift16Holds DEF W
<1>9. BitByBit(Bit16, c, b, order) = EightTimes(Shift16, Xor(c, rem[0]))
  <2>1. Divides(W, Shift16, 15, Bit16)
    BY <1>1, <1>2, <1>3, <1>8 DEF Divides
  <2>2. LaidOut(W, Shift16, 15, b, order, rem)
    BY <1>4, <1>5 DEF LaidOut
  <2> QED
    BY <1>8, <2>1, <2>2, EightBits
<1>10. ByBits16[c][b] = BitByBit(Bit16, c, b, order)
  BY DEF ByBits16, order
<1>11. EightTimes(Shift16, x) \in Word(16)
  BY <1>6, EightShifts16 DEF W
<1> QED
  BY <1>4, <1>7, <1>9, <1>10, <1>11 DEF x

\* So the mixing may be used for the division.
LEMMA Bytes16 == Agree(Word(16), ByMixing, ByBits16)
BY Byte16 DEF Agree

\* crc16 is the remainder of the division, for every message.
THEOREM Crc16Holds == \A message \in Seq(Octet) : crc16(message) = Crc16ByDivision(message)
<1> SUFFICES ASSUME NEW message \in Seq(Octet)
             PROVE  crc16(message) = Crc16ByDivision(message)
  OBVIOUS
<1>1. {} \in Word(16)
  BY DEF Word
<1>2. Along(ByMixing, {}, message) = Along(ByBits16, {}, message)
  BY <1>1, Bytes16, AlongSame
<1>3. crc16(message) = Along(ByMixing, {}, message)
  BY DEF crc16, ByMixing, Mix
<1>4. Crc16ByDivision(message) = Along(ByBits16, {}, message)
  BY DEF Crc16ByDivision, ByBits16, Bit16
<1> QED
  BY <1>2, <1>3, <1>4

===============================================================================
