-------------------------- MODULE AlgorithmProofs --------------------------
(***************************************************************************)
(* Proofs about the hash of words (Hash79), for every alphabet whose       *)
(* characters have values of their own and words of any length.            *)
(***************************************************************************)
EXTENDS MCAlgorithms, WellFoundedInduction, TLAPS

-----------------------------------------------------------------------------
(* The values of characters *)

\* Every set of naturals has a least element.
LEMMA Least ==
  ASSUME NEW S \in SUBSET Nat, S # {}
  PROVE  \E x \in S : \A y \in S : x <= y
<1> DEFINE R == OpToRel(<, Nat)
<1>1. IsWellFoundedOn(R, Nat)
  BY NatLessThanWellFounded
<1>2. ASSUME NEW x \in Nat, NEW y \in Nat, y < x PROVE <<y, x>> \in R
  BY <1>2 DEF OpToRel
<1> HIDE DEF R
<1>3. PICK x \in S : \A y \in S : <<y, x>> \notin R
  BY <1>1, WFMin
<1>4. ASSUME NEW y \in S PROVE x <= y
  <2>1. x \in Nat /\ y \in Nat
    OBVIOUS
  <2>2. ~ (y < x)
    BY <1>2, <1>3, <2>1
  <2> QED
    BY <2>1, <2>2
<1> QED
  BY <1>4

\* The ranges of hb79_r follow each other, and so do their values.
Lim(i) == hb79_r[i].lim
Val(i) == hb79_r[i].val
Flag(i) == hb79_r[i].flag

RangeTypes == \A i \in 1 .. 15 : Lim(i) \in Int /\ Val(i) \in 0 .. 78
RangesGrow == \A i \in 1 .. 14 : Lim(i) < Lim(i + 1)
RangesApart ==
  \A i \in 2 .. 14 : Val(i) + (IF Flag(i) = 0 THEN 0 ELSE Lim(i) - Lim(i - 1) - 1) < Val(i + 1)
RangeEnds == Lim(1) = 1 /\ Val(2) = 1 /\ Lim(15) = 256 /\ Val(15) = 78 /\ Flag(15) = 0

LEMMA Ranges == RangeTypes /\ RangesGrow /\ RangesApart /\ RangeEnds /\ DOMAIN hb79_r = 1 .. 15
<1> DEFINE r == hb79_r
<1>1. DOMAIN hb79_r = 1 .. 15
  BY DEF hb79_r
<1>2. /\ r[1] = Range79(1, 0, 0) /\ r[2] = Range79(32, 1, 0) /\ r[3] = Range79(34, 2, 1)
      /\ r[4] = Range79(40, 4, 0) /\ r[5] = Range79(42, 5, 1) /\ r[6] = Range79(45, 7, 0)
      /\ r[7] = Range79(58, 8, 1) /\ r[8] = Range79(65, 21, 0) /\ r[9] = Range79(91, 22, 1)
      /\ r[10] = Range79(94, 48, 0) /\ r[11] = Range79(97, 49, 0) /\ r[12] = Range79(123, 50, 1)
      /\ r[13] = Range79(125, 76, 0) /\ r[14] = Range79(127, 77, 0) /\ r[15] = Range79(256, 78, 0)
  BY DEF hb79_r
<1>3. \A i \in 1 .. 15 : Lim(i) = r[i].lim /\ Val(i) = r[i].val /\ Flag(i) = r[i].flag
  BY DEF Lim, Val, Flag
<1> HIDE DEF r
<1>4. /\ Lim(1) = 1 /\ Lim(2) = 32 /\ Lim(3) = 34 /\ Lim(4) = 40 /\ Lim(5) = 42 /\ Lim(6) = 45
      /\ Lim(7) = 58 /\ Lim(8) = 65 /\ Lim(9) = 91 /\ Lim(10) = 94 /\ Lim(11) = 97
      /\ Lim(12) = 123 /\ Lim(13) = 125 /\ Lim(14) = 127 /\ Lim(15) = 256
  BY <1>2, <1>3 DEF Range79
<1>5. /\ Val(1) = 0 /\ Val(2) = 1 /\ Val(3) = 2 /\ Val(4) = 4 /\ Val(5) = 5 /\ Val(6) = 7
      /\ Val(7) = 8 /\ Val(8) = 21 /\ Val(9) = 22 /\ Val(10) = 48 /\ Val(11) = 49
      /\ Val(12) = 50 /\ Val(13) = 76 /\ Val(14) = 77 /\ Val(15) = 78
  BY <1>2, <1>3 DEF Range79
<1>6. /\ Flag(1) = 0 /\ Flag(2) = 0 /\ Flag(3) = 1 /\ Flag(4) = 0 /\ Flag(5) = 1 /\ Flag(6) = 0
      /\ Flag(7) = 1 /\ Flag(8) = 0 /\ Flag(9) = 1 /\ Flag(10) = 0 /\ Flag(11) = 0
      /\ Flag(12) = 1 /\ Flag(13) = 0 /\ Flag(14) = 0 /\ Flag(15) = 0
  BY <1>2, <1>3 DEF Range79
<1>7. \A i \in 1 .. 15 : i = 1 \/ i = 2 \/ i = 3 \/ i = 4 \/ i = 5 \/ i = 6 \/ i = 7 \/ i = 8
         \/ i = 9 \/ i = 10 \/ i = 11 \/ i = 12 \/ i = 13 \/ i = 14 \/ i = 15
  OBVIOUS
<1>8. RangeTypes
  BY <1>4, <1>5, <1>7 DEF RangeTypes
<1>9. RangesGrow
  BY <1>4, <1>7 DEF RangesGrow
<1>10. RangesApart
  BY <1>4, <1>5, <1>6, <1>7 DEF RangesApart
<1>11. RangeEnds
  BY <1>4, <1>5, <1>6 DEF RangeEnds
<1> QED
  BY <1>1, <1>8, <1>9, <1>10, <1>11

InRange(c, i) == c < Lim(i) /\ \A j \in 1 .. i - 1 : c >= Lim(j)
ValueIn(c, i) ==
  /\ InRange(c, i)
  /\ ascii_2_mx79(c) = Val(i) + IF Flag(i) = 0 THEN 0 ELSE c - (IF i = 1 THEN 0 ELSE Lim(i - 1))

\* ascii_2_mx79 finds the first range above the character.
LEMMA ValueIs ==
  ASSUME NEW c \in 0 .. 255
  PROVE  \E i \in 1 .. 15 : ValueIn(c, i)
<1> DEFINE S == {i \in 1 .. 15 : c < Lim(i)}
<1>1. S \in SUBSET Nat /\ 15 \in S
  BY Ranges DEF RangeTypes, RangeEnds
<1> HIDE DEF S
<1>2. PICK m \in S : \A j \in S : m <= j
  BY <1>1, Least
<1>3. m \in 1 .. 15 /\ c < Lim(m)
  BY <1>2 DEF S
<1>4. ASSUME NEW j \in 1 .. m - 1 PROVE c >= Lim(j)
  <2>1. j \in 1 .. 15 /\ ~ (m <= j)
    BY <1>3
  <2>2. j \notin S
    BY <1>2, <2>1
  <2>3. Lim(j) \in Int
    BY <2>1, Ranges DEF RangeTypes
  <2> QED
    BY <2>1, <2>2, <2>3 DEF S
<1> DEFINE P(i) == c < hb79_r[i].lim /\ \A j \in 1 .. i - 1 : c >= hb79_r[j].lim
<1>5. \E i \in DOMAIN hb79_r : P(i)
  BY <1>3, <1>4, Ranges DEF Lim
<1>6. PICK i \in 1 .. 15 : P(i) /\ i = CHOOSE k \in DOMAIN hb79_r : P(k)
  <2> HIDE DEF P
  <2> QED
    BY <1>5, Ranges
<1>7. ascii_2_mx79(c) = Val(i) + IF Flag(i) = 0 THEN 0 ELSE c - (IF i = 1 THEN 0 ELSE Lim(i - 1))
  BY <1>6 DEF ascii_2_mx79, Lim, Val, Flag
<1>8. InRange(c, i)
  BY <1>6 DEF InRange, Lim
<1> QED
  BY <1>7, <1>8 DEF ValueIn

\* The values of the ranges go up, ...
LEMMA RangesUp ==
  ASSUME NEW i \in 2 .. 15, NEW k \in i .. 15
  PROVE  Val(i) <= Val(k)
<1> DEFINE Bad == {n \in i .. 15 : ~ (Val(i) <= Val(n))}
<1>1. SUFFICES ASSUME Bad # {} PROVE FALSE
  OBVIOUS
<1>2. PICK n \in Bad : \A m \in Bad : n <= m
  <2>1. Bad \in SUBSET Nat
    OBVIOUS
  <2> HIDE DEF Bad
  <2> QED
    BY <1>1, <2>1, Least
<1>3. n \in i .. 15 /\ ~ (Val(i) <= Val(n)) /\ Val(i) \in Int /\ Val(n) \in Int
  BY <1>2, Ranges DEF RangeTypes
<1>4. PICK m \in i .. 14 : n = m + 1
  <2>1. n # i
    BY <1>3
  <2>2. n - 1 \in i .. 14 /\ n = (n - 1) + 1
    BY <1>3, <2>1
  <2> QED
    BY <2>2
<1>5. Val(i) <= Val(m)
  BY <1>2, <1>4
<1>6. m \in 2 .. 14 /\ m \in 1 .. 15 /\ m - 1 \in 1 .. 15
  BY <1>4
<1>7. Val(m) \in Int /\ Lim(m) \in Int /\ Lim(m - 1) \in Int /\ Lim(m - 1) < Lim(m)
  BY <1>6, Ranges DEF RangeTypes, RangesGrow
<1>8. Val(m) + (IF Flag(m) = 0 THEN 0 ELSE Lim(m) - Lim(m - 1) - 1) < Val(m + 1)
  BY <1>6, Ranges DEF RangesApart
<1> QED
  BY <1>3, <1>4, <1>5, <1>7, <1>8

\* A character but NUL is in the second range or later, and its value is below
\* those of the next range.
LEMMA Within ==
  ASSUME NEW c \in 1 .. 255, NEW i \in 1 .. 15, ValueIn(c, i)
  PROVE  /\ i \in 2 .. 15
         /\ ascii_2_mx79(c) \in Val(i) .. 78
         /\ i # 15 => ascii_2_mx79(c) < Val(i + 1)
         /\ Lim(i - 1) <= c /\ c < Lim(i)
<1>1. i # 1
  BY Ranges DEF RangeEnds, ValueIn, InRange
<1>2. i \in 2 .. 15 /\ i - 1 \in 1 .. i - 1 /\ i - 1 \in 1 .. 15
  BY <1>1
<1>3. /\ Lim(i) \in Int /\ Lim(i - 1) \in Int /\ Val(i) \in 0 .. 78
      /\ Lim(i - 1) < Lim(i)
  BY <1>2, Ranges DEF RangeTypes, RangesGrow
<1>4. Lim(i - 1) <= c /\ c < Lim(i)
  BY <1>2, <1>3 DEF ValueIn, InRange
<1>5. ascii_2_mx79(c) = Val(i) + IF Flag(i) = 0 THEN 0 ELSE c - Lim(i - 1)
  BY <1>1 DEF ValueIn
<1>6. CASE i = 15
  BY <1>2, <1>3, <1>4, <1>5, <1>6, Ranges DEF RangeEnds
<1>7. CASE i # 15
  <2>1. i \in 2 .. 14 /\ i + 1 \in 1 .. 15
    BY <1>2, <1>7
  <2>2. Val(i) + (IF Flag(i) = 0 THEN 0 ELSE Lim(i) - Lim(i - 1) - 1) < Val(i + 1)
    BY <2>1, Ranges DEF RangesApart
  <2>3. Val(i + 1) \in 0 .. 78
    BY <2>1, Ranges DEF RangeTypes
  <2> QED
    BY <1>2, <1>3, <1>4, <1>5, <2>2, <2>3
<1> QED
  BY <1>6, <1>7

\* ... and those of the characters: only NUL has the value 0.
LEMMA ValuesUp ==
  ASSUME NEW c \in 1 .. 255, NEW d \in 1 .. 255
  PROVE  /\ ascii_2_mx79(c) \in 1 .. 78
         /\ c <= d => ascii_2_mx79(c) <= ascii_2_mx79(d)
<1>1. PICK i \in 1 .. 15 : ValueIn(c, i)
  BY ValueIs
<1>2. PICK k \in 1 .. 15 : ValueIn(d, k)
  BY ValueIs
<1>3. /\ i \in 2 .. 15 /\ k \in 2 .. 15
      /\ ascii_2_mx79(c) \in Val(i) .. 78 /\ ascii_2_mx79(d) \in Val(k) .. 78
      /\ i # 15 => ascii_2_mx79(c) < Val(i + 1)
  BY <1>1, <1>2, Within
<1>4. Val(i) \in Int /\ Val(k) \in Int /\ 2 \in 2 .. 15 /\ i \in 2 .. 15
  BY <1>3, Ranges DEF RangeTypes
<1>5. Val(2) <= Val(i)
  BY <1>4, RangesUp
<1>6. ascii_2_mx79(c) \in 1 .. 78
  BY <1>3, <1>4, <1>5, Ranges DEF RangeEnds
<1>7. ASSUME c <= d PROVE ascii_2_mx79(c) <= ascii_2_mx79(d)
  <2>1. i <= k
    <3>1. SUFFICES ASSUME k < i PROVE FALSE
      OBVIOUS
    <3>2. k \in 1 .. i - 1 /\ Lim(k) \in Int
      BY <3>1, Ranges DEF RangeTypes
    <3>3. c >= Lim(k) /\ d < Lim(k)
      BY <1>1, <1>2, <3>2 DEF ValueIn, InRange
    <3> QED
      BY <1>7, <3>2, <3>3
  <2>2. CASE i = k
    <3>1. /\ ascii_2_mx79(c) = Val(i) + IF Flag(i) = 0 THEN 0 ELSE c - Lim(i - 1)
          /\ ascii_2_mx79(d) = Val(i) + IF Flag(i) = 0 THEN 0 ELSE d - Lim(i - 1)
      BY <1>1, <1>2, <1>3, <2>2 DEF ValueIn
    <3>2. Lim(i - 1) \in Int
      BY <1>3, Ranges DEF RangeTypes
    <3> QED
      BY <1>4, <1>7, <3>1, <3>2
  <2>3. CASE i # k
    <3>1. i # 15 /\ i + 1 \in 2 .. 15 /\ k \in i + 1 .. 15
      BY <1>3, <2>1, <2>3
    <3>2. Val(i + 1) <= Val(k) /\ Val(i + 1) \in Int
      BY <3>1, RangesUp, Ranges DEF RangeTypes
    <3> QED
      BY <1>3, <1>4, <3>1, <3>2
  <2> QED
    BY <2>2, <2>3
<1> QED
  BY <1>6, <1>7

-----------------------------------------------------------------------------
(* A hash is a number, its limbs are its digits to the base 65536 *)

Limb == {n \in Nat : n < 65536}
Pair(low, high) == low + 65536 * high
NumberOf(g1, g2, g3, g4) == Pair(g1, Pair(g2, Pair(g3, g4)))
Number(g) == NumberOf(g[1], g[2], g[3], g[4])
Above(q) == 65536 * (65536 * (65536 * (65536 * q)))
Word64 == Above(1)

LEMMA LimbType == \A n \in Limb : n \in Nat /\ n < 65536
BY DEF Limb

\* m[i] is 79^i.
Bounds(m) ==
  /\ m \in [0 .. 10 -> Nat] /\ m[0] = 1
  /\ \A i \in 1 .. 10 : m[i] = 79 * m[i - 1] /\ m[i] <= Word64

\* 79^5 < 2^32, and so 79^10 < 2^64: no literal of that size is needed.
LEMMA FiveDigits ==
  ASSUME NEW a \in Nat, NEW b \in Nat, a = 65536 * 1, b = 65536 * a,
         NEW m1 \in Nat, NEW m2 \in Nat, NEW m3 \in Nat, NEW m4 \in Nat, NEW m5 \in Nat,
         m1 = 79 * 1, m2 = 79 * m1, m3 = 79 * m2, m4 = 79 * m3, m5 = 79 * m4
  PROVE  m5 <= b
OBVIOUS

LEMMA TenOfFive ==
  ASSUME NEW b \in Nat, NEW c \in Nat, NEW e \in Nat, c = 65536 * b, e = 65536 * c,
         NEW m5 \in Nat, NEW m6 \in Nat, NEW m7 \in Nat, NEW m8 \in Nat, NEW m9 \in Nat,
         NEW m10 \in Nat, m5 <= b,
         m6 = 79 * m5, m7 = 79 * m6, m8 = 79 * m7, m9 = 79 * m8, m10 = 79 * m9
  PROVE  m10 <= e
OBVIOUS

LEMMA TenDigits == \E m : Bounds(m)
<1>1. PICK a \in Nat : a = 65536 * 1
  OBVIOUS
<1>2. PICK b \in Nat : b = 65536 * a
  OBVIOUS
<1>3. PICK c \in Nat : c = 65536 * b
  OBVIOUS
<1>4. PICK e \in Nat : e = 65536 * c
  OBVIOUS
<1>5. Word64 = e
  BY <1>1, <1>2, <1>3, <1>4 DEF Word64, Above
<1>6. PICK m1 \in Nat : m1 = 79 * 1
  OBVIOUS
<1>7. PICK m2 \in Nat : m2 = 79 * m1
  OBVIOUS
<1>8. PICK m3 \in Nat : m3 = 79 * m2
  OBVIOUS
<1>9. PICK m4 \in Nat : m4 = 79 * m3
  OBVIOUS
<1>10. PICK m5 \in Nat : m5 = 79 * m4
  OBVIOUS
<1>11. PICK m6 \in Nat : m6 = 79 * m5
  OBVIOUS
<1>12. PICK m7 \in Nat : m7 = 79 * m6
  OBVIOUS
<1>13. PICK m8 \in Nat : m8 = 79 * m7
  OBVIOUS
<1>14. PICK m9 \in Nat : m9 = 79 * m8
  OBVIOUS
<1>15. PICK m10 \in Nat : m10 = 79 * m9
  OBVIOUS
<1>16. m10 <= e
  <2>1. m5 <= b
    BY <1>1, <1>2, <1>6, <1>7, <1>8, <1>9, <1>10, FiveDigits
  <2> QED
    BY <1>3, <1>4, <1>11, <1>12, <1>13, <1>14, <1>15, <2>1, TenOfFive
<1>17. m1 <= e /\ m2 <= e /\ m3 <= e /\ m4 <= e /\ m5 <= e /\ m6 <= e /\ m7 <= e /\ m8 <= e /\ m9 <= e
  BY <1>7, <1>8, <1>9, <1>10, <1>11, <1>12, <1>13, <1>14, <1>15, <1>16
<1> DEFINE m == [i \in 0 .. 10 |-> CASE i = 0 -> 1 [] i = 1 -> m1 [] i = 2 -> m2 [] i = 3 -> m3
                   [] i = 4 -> m4 [] i = 5 -> m5 [] i = 6 -> m6 [] i = 7 -> m7 [] i = 8 -> m8
                   [] i = 9 -> m9 [] i = 10 -> m10]
<1>18. /\ m[0] = 1 /\ m[1] = m1 /\ m[2] = m2 /\ m[3] = m3 /\ m[4] = m4 /\ m[5] = m5
       /\ m[6] = m6 /\ m[7] = m7 /\ m[8] = m8 /\ m[9] = m9 /\ m[10] = m10
  OBVIOUS
<1>19. DOMAIN m = 0 .. 10 /\ m = [i \in 0 .. 10 |-> m[i]]
  OBVIOUS
<1> HIDE DEF m
<1>20. \A i \in 1 .. 10 : i = 1 \/ i = 2 \/ i = 3 \/ i = 4 \/ i = 5 \/ i = 6 \/ i = 7 \/ i = 8
         \/ i = 9 \/ i = 10
  OBVIOUS
<1>21. ASSUME NEW i \in 1 .. 10 PROVE m[i] \in Nat /\ m[i] = 79 * m[i - 1] /\ m[i] <= Word64
  <2>1. CASE i = 1
    BY <1>5, <1>6, <1>16, <1>17, <1>18, <2>1
  <2>2. CASE i = 2
    BY <1>5, <1>7, <1>16, <1>17, <1>18, <2>2
  <2>3. CASE i = 3
    BY <1>5, <1>8, <1>16, <1>17, <1>18, <2>3
  <2>4. CASE i = 4
    BY <1>5, <1>9, <1>16, <1>17, <1>18, <2>4
  <2>5. CASE i = 5
    BY <1>5, <1>10, <1>16, <1>17, <1>18, <2>5
  <2>6. CASE i = 6
    BY <1>5, <1>11, <1>16, <1>17, <1>18, <2>6
  <2>7. CASE i = 7
    BY <1>5, <1>12, <1>16, <1>17, <1>18, <2>7
  <2>8. CASE i = 8
    BY <1>5, <1>13, <1>16, <1>17, <1>18, <2>8
  <2>9. CASE i = 9
    BY <1>5, <1>14, <1>16, <1>17, <1>18, <2>9
  <2>10. CASE i = 10
    BY <1>5, <1>15, <1>16, <1>17, <1>18, <2>10
  <2> QED
    BY <1>20, <2>1, <2>2, <2>3, <2>4, <2>5, <2>6, <2>7, <2>8, <2>9, <2>10
<1>22. \A i \in 0 .. 10 : m[i] \in Nat
  <2>1. \A i \in 0 .. 10 : i = 0 \/ i \in 1 .. 10
    OBVIOUS
  <2> QED
    BY <1>18, <1>21, <2>1
<1> QED
  BY <1>18, <1>19, <1>21, <1>22 DEF Bounds

\* A limb, and what is handed on to the next.
LEMMA Split ==
  ASSUME NEW n \in Nat
  PROVE  /\ n \div 65536 \in Nat /\ n % 65536 \in Limb
         /\ n = 65536 * (n \div 65536) + (n % 65536)
<1>1. n % 65536 \in Limb
  BY DEF Limb
<1>2. n \div 65536 \in Nat
  OBVIOUS
<1>3. n = 65536 * (n \div 65536) + (n % 65536)
  OBVIOUS
<1> QED
  BY <1>1, <1>2, <1>3

\* What one limb hands on to the next is taken away from it.
Passes(g, in, out, r) == g * 79 + in = 65536 * out + r
Carries(g, in, r, out) == 79 * g + in = r + Above(out)

LEMMA Carried ==
  ASSUME NEW g1 \in Nat, NEW g2 \in Nat, NEW g3 \in Nat, NEW g4 \in Nat, NEW c \in Nat,
         NEW q1 \in Nat, NEW q2 \in Nat, NEW q3 \in Nat, NEW q4 \in Nat,
         NEW r1 \in Nat, NEW r2 \in Nat, NEW r3 \in Nat, NEW r4 \in Nat,
         Passes(g1, c, q1, r1), Passes(g2, q1, q2, r2),
         Passes(g3, q2, q3, r3), Passes(g4, q3, q4, r4)
  PROVE  Carries(NumberOf(g1, g2, g3, g4), c, NumberOf(r1, r2, r3, r4), q4)
<1>1. PICK G3 \in Nat, R3 \in Nat, Q3 \in Nat :
        G3 = g3 + 65536 * g4 /\ R3 = r3 + 65536 * r4 /\ Q3 = 65536 * q4
  OBVIOUS
<1>2. 79 * G3 + q2 = R3 + 65536 * Q3
  BY <1>1 DEF Passes
<1>3. PICK G2 \in Nat, R2 \in Nat, Q2 \in Nat :
        G2 = g2 + 65536 * G3 /\ R2 = r2 + 65536 * R3 /\ Q2 = 65536 * Q3
  OBVIOUS
<1>4. 79 * G2 + q1 = R2 + 65536 * Q2
  BY <1>2, <1>3 DEF Passes
<1>5. PICK G1 \in Nat, R1 \in Nat, Q1 \in Nat :
        G1 = g1 + 65536 * G2 /\ R1 = r1 + 65536 * R2 /\ Q1 = 65536 * Q2
  OBVIOUS
<1>6. 79 * G1 + c = R1 + 65536 * Q1
  BY <1>4, <1>5 DEF Passes
<1>7. G1 = NumberOf(g1, g2, g3, g4) /\ R1 = NumberOf(r1, r2, r3, r4)
  BY <1>1, <1>3, <1>5 DEF NumberOf, Pair
<1>8. Above(q4) = 65536 * Q1
  BY <1>1, <1>3, <1>5 DEF Above
<1> QED
  BY <1>6, <1>7, <1>8 DEF Carries

LEMMA NoCarry ==
  ASSUME NEW n \in Nat, NEW r \in Nat, NEW q \in Nat, n = r + Above(q), n < Word64
  PROVE  q = 0 /\ n = r
BY DEF Word64, Above

\* Shifted is 79 * h + cc as long as that fits 64 bits.
LEMMA ShiftedIs ==
  ASSUME NEW g \in [1 .. 4 -> Limb], NEW c \in 0 .. 78, 79 * Number(g) + c < Word64
  PROVE  Shifted(g, c) \in [1 .. 4 -> Limb] /\ Number(Shifted(g, c)) = 79 * Number(g) + c
<1>1. PICK g1 \in Nat, g2 \in Nat, g3 \in Nat, g4 \in Nat :
        g1 = g[1] /\ g2 = g[2] /\ g3 = g[3] /\ g4 = g[4]
  <2>1. g[1] \in Limb /\ g[2] \in Limb /\ g[3] \in Limb /\ g[4] \in Limb
    OBVIOUS
  <2>2. Limb \subseteq Nat
    BY LimbType
  <2> QED
    BY <2>1, <2>2
<1>2. PICK s1 \in Nat, q1 \in Nat, r1 \in Limb :
        s1 = g1 * 79 + c /\ q1 = s1 \div 65536 /\ r1 = s1 % 65536 /\ s1 = 65536 * q1 + r1
  BY Split
<1>3. PICK s2 \in Nat, q2 \in Nat, r2 \in Limb :
        s2 = g2 * 79 + q1 /\ q2 = s2 \div 65536 /\ r2 = s2 % 65536 /\ s2 = 65536 * q2 + r2
  BY Split
<1>4. PICK s3 \in Nat, q3 \in Nat, r3 \in Limb :
        s3 = g3 * 79 + q2 /\ q3 = s3 \div 65536 /\ r3 = s3 % 65536 /\ s3 = 65536 * q3 + r3
  BY Split
<1>5. PICK s4 \in Nat, q4 \in Nat, r4 \in Limb :
        s4 = g4 * 79 + q3 /\ q4 = s4 \div 65536 /\ r4 = s4 % 65536 /\ s4 = 65536 * q4 + r4
  BY Split
<1> DEFINE s == [i \in 1 .. 4 |-> IF i = 1 THEN s1 ELSE IF i = 2 THEN s2 ELSE IF i = 3 THEN s3 ELSE s4]
           Sums(f) == f = [i \in 1 .. Limbs |-> g[i] * 79 + IF i = 1 THEN c ELSE f[i - 1] \div 65536]
           sum == CHOOSE f : Sums(f)
<1>6. Sums(s)
  <2>1. s[1] = s1 /\ s[2] = s2 /\ s[3] = s3 /\ s[4] = s4
    OBVIOUS
  <2>2. \A i \in 1 .. 4 : i = 1 \/ i = 2 \/ i = 3 \/ i = 4
    OBVIOUS
  <2>3. ASSUME NEW i \in 1 .. 4
        PROVE  s[i] = g[i] * 79 + IF i = 1 THEN c ELSE s[i - 1] \div 65536
    <3> HIDE DEF s
    <3>1. CASE i = 1
      BY <1>1, <1>2, <2>1, <3>1
    <3>2. CASE i = 2
      BY <1>1, <1>2, <1>3, <2>1, <3>2
    <3>3. CASE i = 3
      BY <1>1, <1>3, <1>4, <2>1, <3>3
    <3>4. CASE i = 4
      BY <1>1, <1>4, <1>5, <2>1, <3>4
    <3> QED
      BY <2>2, <3>1, <3>2, <3>3, <3>4
  <2>4. s = [i \in 1 .. 4 |-> s[i]]
    OBVIOUS
  <2> HIDE DEF s
  <2> QED
    BY <2>3, <2>4 DEF Limbs
<1>7. Sums(sum)
  <2> HIDE DEF s, Sums
  <2> QED
    BY <1>6
<1>8. Shifted(g, c) = [i \in 1 .. Limbs |-> sum[i] % 65536]
  BY DEF Shifted
<1> HIDE DEF sum, s
<1>9. sum[1] = s1
  BY <1>1, <1>2, <1>7 DEF Limbs
<1>10. sum[2] = s2
  BY <1>1, <1>2, <1>3, <1>7, <1>9 DEF Limbs
<1>11. sum[3] = s3
  BY <1>1, <1>3, <1>4, <1>7, <1>10 DEF Limbs
<1>12. sum[4] = s4
  BY <1>1, <1>4, <1>5, <1>7, <1>11 DEF Limbs
<1>13. /\ Shifted(g, c) = [i \in 1 .. 4 |-> sum[i] % 65536]
       /\ Shifted(g, c)[1] = r1 /\ Shifted(g, c)[2] = r2
       /\ Shifted(g, c)[3] = r3 /\ Shifted(g, c)[4] = r4
  BY <1>2, <1>3, <1>4, <1>5, <1>8, <1>9, <1>10, <1>11, <1>12 DEF Limbs
<1>14. Shifted(g, c) \in [1 .. 4 -> Limb]
  <2>1. \A i \in 1 .. 4 : i = 1 \/ i = 2 \/ i = 3 \/ i = 4
    OBVIOUS
  <2> QED
    BY <1>13, <2>1
<1>15. Number(Shifted(g, c)) = NumberOf(r1, r2, r3, r4) /\ Number(g) = NumberOf(g1, g2, g3, g4)
  BY <1>1, <1>13 DEF Number
<1>16. r1 \in Nat /\ r2 \in Nat /\ r3 \in Nat /\ r4 \in Nat /\ c \in Nat
  <2>1. Limb \subseteq Nat
    BY LimbType
  <2> QED
    BY <2>1
<1>17. 79 * Number(g) + c = Number(Shifted(g, c)) + Above(q4)
  <2>1. Passes(g1, c, q1, r1)
    BY <1>2 DEF Passes
  <2>2. Passes(g2, q1, q2, r2)
    BY <1>3 DEF Passes
  <2>3. Passes(g3, q2, q3, r3)
    BY <1>4 DEF Passes
  <2>4. Passes(g4, q3, q4, r4)
    BY <1>5 DEF Passes
  <2>5. Carries(NumberOf(g1, g2, g3, g4), c, NumberOf(r1, r2, r3, r4), q4)
    BY <1>16, <2>1, <2>2, <2>3, <2>4, Carried
  <2> QED
    BY <1>15, <2>5 DEF Carries
<1>18. Number(g) \in Nat /\ Number(Shifted(g, c)) \in Nat
  BY <1>15, <1>16 DEF NumberOf, Pair
<1>19. 79 * Number(g) + c = Number(Shifted(g, c))
  <2>1. PICK n \in Nat, r \in Nat : n = 79 * Number(g) + c /\ r = Number(Shifted(g, c))
    BY <1>16, <1>18
  <2> QED
    BY <1>17, <2>1, NoCarry
<1> QED
  BY <1>14, <1>19

\* The highest limbs that differ decide.
TopDecides(g1, g2, g3, g4, h1, h2, h3, h4) ==
  NumberOf(g1, g2, g3, g4) < NumberOf(h1, h2, h3, h4) <=>
    \/ g4 < h4
    \/ g4 = h4 /\ g3 < h3
    \/ g4 = h4 /\ g3 = h3 /\ g2 < h2
    \/ g4 = h4 /\ g3 = h3 /\ g2 = h2 /\ g1 < h1

LEMMA FromTop ==
  ASSUME NEW g1 \in Limb, NEW g2 \in Limb, NEW g3 \in Limb, NEW g4 \in Limb,
         NEW h1 \in Limb, NEW h2 \in Limb, NEW h3 \in Limb, NEW h4 \in Limb
  PROVE  TopDecides(g1, g2, g3, g4, h1, h2, h3, h4)
<1>1. /\ g1 \in Nat /\ g2 \in Nat /\ g3 \in Nat /\ g4 \in Nat
      /\ h1 \in Nat /\ h2 \in Nat /\ h3 \in Nat /\ h4 \in Nat
      /\ g1 < 65536 /\ g2 < 65536 /\ g3 < 65536 /\ g4 < 65536
      /\ h1 < 65536 /\ h2 < 65536 /\ h3 < 65536 /\ h4 < 65536
  BY LimbType
<1>2. /\ Pair(g3, g4) < Pair(h3, h4) <=> g4 < h4 \/ (g4 = h4 /\ g3 < h3)
      /\ Pair(g3, g4) = Pair(h3, h4) <=> g4 = h4 /\ g3 = h3
      /\ Pair(g3, g4) \in Nat /\ Pair(h3, h4) \in Nat
  BY <1>1 DEF Pair
<1>3. PICK G3 \in Nat, H3 \in Nat : G3 = Pair(g3, g4) /\ H3 = Pair(h3, h4)
  BY <1>2
<1>4. /\ Pair(g2, G3) < Pair(h2, H3) <=> G3 < H3 \/ (G3 = H3 /\ g2 < h2)
      /\ Pair(g2, G3) = Pair(h2, H3) <=> G3 = H3 /\ g2 = h2
      /\ Pair(g2, G3) \in Nat /\ Pair(h2, H3) \in Nat
  BY <1>1 DEF Pair
<1>5. PICK G2 \in Nat, H2 \in Nat : G2 = Pair(g2, G3) /\ H2 = Pair(h2, H3)
  BY <1>4
<1>6. Pair(g1, G2) < Pair(h1, H2) <=> G2 < H2 \/ (G2 = H2 /\ g1 < h1)
  BY <1>1 DEF Pair
<1>7. NumberOf(g1, g2, g3, g4) = Pair(g1, G2) /\ NumberOf(h1, h2, h3, h4) = Pair(h1, H2)
  BY <1>3, <1>5 DEF NumberOf
<1> QED
  BY <1>2, <1>3, <1>4, <1>5, <1>6, <1>7 DEF TopDecides

\* Less compares the numbers.
LEMMA LessIs ==
  ASSUME NEW g \in [1 .. 4 -> Limb], NEW h \in [1 .. 4 -> Limb]
  PROVE  Less(g, h) <=> Number(g) < Number(h)
<1>1. Less(g, h) <=> \/ g[4] < h[4]
                     \/ g[4] = h[4] /\ g[3] < h[3]
                     \/ g[4] = h[4] /\ g[3] = h[3] /\ g[2] < h[2]
                     \/ g[4] = h[4] /\ g[3] = h[3] /\ g[2] = h[2] /\ g[1] < h[1]
  <2>1. 1 .. 4 = {1, 2, 3, 4}
    OBVIOUS
  <2>2. /\ 4 + 1 .. 4 = {} /\ 3 + 1 .. 4 = {4} /\ 2 + 1 .. 4 = {3, 4} /\ 1 + 1 .. 4 = {2, 3, 4}
    OBVIOUS
  <2>3. Less(g, h) <=> \E i \in {1, 2, 3, 4} : g[i] < h[i] /\ \A j \in i + 1 .. 4 : g[j] = h[j]
    BY <2>1 DEF Less, Limbs
  <2>4. Less(g, h) <=> \/ g[4] < h[4] /\ \A j \in 4 + 1 .. 4 : g[j] = h[j]
                       \/ g[3] < h[3] /\ \A j \in 3 + 1 .. 4 : g[j] = h[j]
                       \/ g[2] < h[2] /\ \A j \in 2 + 1 .. 4 : g[j] = h[j]
                       \/ g[1] < h[1] /\ \A j \in 1 + 1 .. 4 : g[j] = h[j]
    BY <2>3
  <2> QED
    BY <2>2, <2>4
<1> QED
  <2>1. g[1] \in Limb /\ g[2] \in Limb /\ g[3] \in Limb /\ g[4] \in Limb
    OBVIOUS
  <2>2. h[1] \in Limb /\ h[2] \in Limb /\ h[3] \in Limb /\ h[4] \in Limb
    OBVIOUS
  <2>3. TopDecides(g[1], g[2], g[3], g[4], h[1], h[2], h[3], h[4])
    BY <2>1, <2>2, FromTop
  <2> QED
    BY <1>1, <2>3 DEF Number, TopDecides

-----------------------------------------------------------------------------
(* The hash of a word, digit by digit *)

Zero == [k \in 1 .. Limbs |-> 0]
Steps(d, n, h) == h = [i \in 0 .. n |-> IF i = 0 THEN Zero ELSE Shifted(h[i - 1], d[i])]

\* The recursion of hash_b79 is well defined, ...
LEMMA StepsExist ==
  ASSUME NEW d, NEW n \in Nat
  PROVE  \E h : Steps(d, n, h)
<1> DEFINE Bad == {k \in Nat : ~ \E h : Steps(d, k, h)}
<1>1. SUFFICES ASSUME Bad # {} PROVE FALSE
  OBVIOUS
<1>2. PICK k \in Bad : \A m \in Bad : k <= m
  <2>1. Bad \in SUBSET Nat
    OBVIOUS
  <2> HIDE DEF Bad
  <2> QED
    BY <1>1, <2>1, Least
<1>3. CASE k = 0
  <2> DEFINE h == [i \in 0 .. 0 |-> Zero]
  <2>1. h = [i \in 0 .. 0 |-> IF i = 0 THEN Zero ELSE Shifted(h[i - 1], d[i])]
    OBVIOUS
  <2> QED
    BY <1>2, <1>3, <2>1 DEF Steps
<1>4. CASE k # 0
  <2>1. k \in Nat /\ k - 1 \in Nat /\ ~ (k <= k - 1)
    BY <1>4
  <2>2. PICK g : Steps(d, k - 1, g)
    BY <1>2, <2>1
  <2> DEFINE h == [i \in 0 .. k |-> IF i = 0 THEN Zero ELSE Shifted(g[i - 1], d[i])]
  <2>3. ASSUME NEW i \in 0 .. k - 1 PROVE h[i] = g[i]
    BY <2>1, <2>2 DEF Steps
  <2>4. ASSUME NEW i \in 0 .. k, i # 0 PROVE h[i - 1] = g[i - 1]
    <3>1. i - 1 \in 0 .. k - 1
      BY <2>4
    <3> HIDE DEF h
    <3> QED
      BY <2>3, <3>1
  <2>5. h = [i \in 0 .. k |-> IF i = 0 THEN Zero ELSE Shifted(h[i - 1], d[i])]
    <3>1. h = [i \in 0 .. k |-> IF i = 0 THEN Zero ELSE Shifted(g[i - 1], d[i])]
      OBVIOUS
    <3> HIDE DEF h
    <3> QED
      BY <2>4, <3>1
  <2> HIDE DEF h
  <2> QED
    BY <1>2, <2>5 DEF Steps
<1> QED
  BY <1>3, <1>4

Char == 1 .. 255
Digits79(s) == [i \in 1 .. 10 |-> IF i <= Len(s) THEN ascii_2_mx79(s[i]) ELSE 0]

\* Digits are below the base.
LEMMA DigitsAre ==
  ASSUME NEW s \in Seq(Char)
  PROVE  Digits79(s) \in [1 .. 10 -> 0 .. 78]
<1>1. ASSUME NEW i \in 1 .. 10 PROVE (IF i <= Len(s) THEN ascii_2_mx79(s[i]) ELSE 0) \in 0 .. 78
  <2>1. CASE i <= Len(s)
    <3>1. s[i] \in 1 .. 255
      <4>1. i \in 1 .. Len(s) /\ Len(s) \in Nat
        BY <2>1
      <4>2. s[i] \in Char
        BY <4>1
      <4> QED
        BY <4>2 DEF Char
    <3>2. ascii_2_mx79(s[i]) \in 1 .. 78
      BY <3>1, ValuesUp
    <3> QED
      BY <2>1, <3>2
  <2>2. CASE ~ (i <= Len(s))
    BY <2>2
  <2> QED
    BY <2>1, <2>2
<1> QED
  BY <1>1 DEF Digits79

\* ... and its tenth step is the hash.
LEMMA Hashed ==
  ASSUME NEW s
  PROVE  \E h : Steps(Digits79(s), 10, h) /\ hash_b79(s) = h[10]
<1> DEFINE digit(i) == IF i <= Len(s) THEN ascii_2_mx79(s[i]) ELSE 0
           H(f) == f = [i \in 0 .. 10 |-> IF i = 0 THEN [k \in 1 .. Limbs |-> 0] ELSE Shifted(f[i - 1], digit(i))]
           h == CHOOSE f : H(f)
<1>1. hash_b79(s) = h[10]
  BY DEF hash_b79
<1>2. \A i \in 1 .. 10 : Digits79(s)[i] = digit(i)
  BY DEF Digits79
<1>3. ASSUME NEW f PROVE Steps(Digits79(s), 10, f) <=> H(f)
  <2> HIDE DEF digit
  <2>1. \A i \in 0 .. 10 : i = 0 \/ i \in 1 .. 10
    OBVIOUS
  <2>2. [i \in 0 .. 10 |-> IF i = 0 THEN Zero ELSE Shifted(f[i - 1], Digits79(s)[i])]
         = [i \in 0 .. 10 |-> IF i = 0 THEN Zero ELSE Shifted(f[i - 1], digit(i))]
    BY <1>2, <2>1
  <2> QED
    BY <2>2 DEF Steps, Zero
<1>4. PICK f : Steps(Digits79(s), 10, f)
  BY StepsExist
<1>5. H(h)
  <2> HIDE DEF H
  <2> QED
    BY <1>3, <1>4
<1> HIDE DEF h, H
<1> QED
  BY <1>1, <1>3, <1>5

\* None of the ten steps leaves the 64 bits.
LEMMA StepsAre ==
  ASSUME NEW d \in [1 .. 10 -> 0 .. 78], NEW h, Steps(d, 10, h)
  PROVE  /\ Number(h[0]) = 0
         /\ \A i \in 0 .. 10 : h[i] \in [1 .. 4 -> Limb] /\ Number(h[i]) \in Nat
         /\ \A i \in 1 .. 10 : Number(h[i]) = 79 * Number(h[i - 1]) + d[i]
<1> DEFINE Good(i, max) == h[i] \in [1 .. 4 -> Limb] /\ Number(h[i]) \in Nat /\ Number(h[i]) < max
           Follows(i) == Number(h[i]) = 79 * Number(h[i - 1]) + d[i]
<1>1. h[0] = Zero /\ \A i \in 1 .. 10 : h[i] = Shifted(h[i - 1], d[i])
  BY DEF Steps
<1>2. Number(h[0]) = 0 /\ Good(0, 1)
  <2>1. Zero = [k \in 1 .. 4 |-> 0] /\ 0 \in Limb
    BY DEF Zero, Limbs, Limb
  <2>2. Number(Zero) = 0
    BY <2>1 DEF Number, NumberOf, Pair
  <2> QED
    BY <1>1, <2>1, <2>2
<1>3. ASSUME NEW i \in 1 .. 10, NEW m \in Nat, NEW n \in Nat, Good(i - 1, m),
             79 * m = n, n <= Word64
      PROVE  Good(i, n) /\ Follows(i)
  <2>1. PICK x \in Nat : x = Number(h[i - 1]) /\ x < m
    BY <1>3
  <2>2. PICK c \in 0 .. 78 : c = d[i]
    OBVIOUS
  <2>3. 79 * x + c < n
    BY <1>3, <2>1
  <2>4. 79 * x + c < Word64
    BY <1>3, <2>3 DEF Word64, Above
  <2>5. h[i] = Shifted(h[i - 1], c)
    BY <1>1, <2>2
  <2>6. h[i] \in [1 .. 4 -> Limb] /\ Number(h[i]) = 79 * x + c
    BY <1>3, <2>1, <2>4, <2>5, ShiftedIs
  <2> QED
    BY <2>1, <2>2, <2>3, <2>6
<1> HIDE DEF Good, Follows
<1>4. PICK m : Bounds(m)
  BY TenDigits
<1>5. Good(0, m[0])
  BY <1>2, <1>4 DEF Bounds
<1>6. ASSUME NEW i \in 1 .. 10, Good(i - 1, m[i - 1]) PROVE Good(i, m[i]) /\ Follows(i)
  <2>1. i - 1 \in 0 .. 10 /\ i \in 0 .. 10
    OBVIOUS
  <2>2. m[i - 1] \in Nat /\ m[i] \in Nat /\ m[i] = 79 * m[i - 1] /\ m[i] <= Word64
    BY <1>4, <2>1 DEF Bounds
  <2> QED
    BY <1>3, <1>6, <2>2
<1>7. ASSUME NEW i \in 0 .. 10 PROVE Good(i, m[i])
  <2> DEFINE Bad == {k \in 0 .. 10 : ~ Good(k, m[k])}
  <2>1. SUFFICES ASSUME Bad # {} PROVE FALSE
    OBVIOUS
  <2>2. PICK k \in Bad : \A l \in Bad : k <= l
    <3>1. Bad \in SUBSET Nat
      OBVIOUS
    <3> HIDE DEF Bad
    <3> QED
      BY <2>1, <3>1, Least
  <2>3. k \in 1 .. 10 /\ k - 1 \in 0 .. 10 /\ ~ (k <= k - 1)
    BY <1>5, <2>2
  <2>4. Good(k - 1, m[k - 1])
    BY <2>2, <2>3
  <2> QED
    BY <1>6, <2>2, <2>3, <2>4
<1>8. ASSUME NEW i \in 1 .. 10 PROVE Follows(i)
  <2>1. i - 1 \in 0 .. 10
    OBVIOUS
  <2> QED
    BY <1>6, <1>7, <2>1
<1> QED
  BY <1>2, <1>7, <1>8 DEF Good, Follows

-----------------------------------------------------------------------------
(* Words and their digits *)

Lex(d, e) == \E i \in 1 .. 10 : d[i] < e[i] /\ \A j \in 1 .. i - 1 : d[j] = e[j]

\* Of two rows of digits one is less, or they are equal.
LEMMA Trichotomy ==
  ASSUME NEW d \in [1 .. 10 -> 0 .. 78], NEW e \in [1 .. 10 -> 0 .. 78]
  PROVE  Lex(d, e) \/ Lex(e, d) \/ \A i \in 1 .. 10 : d[i] = e[i]
<1> DEFINE S == {i \in 1 .. 10 : d[i] # e[i]}
<1>1. SUFFICES ASSUME S # {} PROVE Lex(d, e) \/ Lex(e, d)
  OBVIOUS
<1>2. PICK i \in S : \A j \in S : i <= j
  <2>1. S \in SUBSET Nat
    OBVIOUS
  <2> HIDE DEF S
  <2> QED
    BY <1>1, <2>1, Least
<1>3. i \in 1 .. 10 /\ d[i] # e[i] /\ d[i] \in Int /\ e[i] \in Int
  BY <1>2
<1>4. ASSUME NEW j \in 1 .. i - 1 PROVE d[j] = e[j]
  <2>1. j \in 1 .. 10 /\ ~ (i <= j)
    BY <1>3
  <2> QED
    BY <1>2, <2>1
<1>5. d[i] < e[i] \/ e[i] < d[i]
  BY <1>3
<1> QED
  BY <1>3, <1>4, <1>5 DEF Lex

\* The hashes that follow from digits: a part of StepsAre.
Follows79(d, x) ==
  /\ x \in [0 .. 10 -> Nat] /\ x[0] = 0
  /\ \A i \in 1 .. 10 : x[i] = 79 * x[i - 1] + d[i]

Agree(d, e, n) == \A j \in 1 .. n : d[j] = e[j]

\* Equal digits lead to equal numbers, ...
LEMMA SameSteps ==
  ASSUME NEW d \in [1 .. 10 -> 0 .. 78], NEW e \in [1 .. 10 -> 0 .. 78], NEW x, NEW y,
         Follows79(d, x), Follows79(e, y),
         NEW n \in 0 .. 10, Agree(d, e, n)
  PROVE  x[n] = y[n]
<1> DEFINE Bad == {k \in 0 .. n : x[k] # y[k]}
<1>1. SUFFICES ASSUME Bad # {} PROVE FALSE
  OBVIOUS
<1>2. PICK k \in Bad : \A l \in Bad : k <= l
  <2>1. Bad \in SUBSET Nat
    OBVIOUS
  <2> HIDE DEF Bad
  <2> QED
    BY <1>1, <2>1, Least
<1>3. k # 0
  BY <1>2 DEF Follows79
<1>4. k \in 1 .. n /\ k \in 1 .. 10 /\ k - 1 \in 0 .. n /\ ~ (k <= k - 1)
  BY <1>2, <1>3
<1>5. x[k - 1] = y[k - 1]
  BY <1>2, <1>4
<1>6. x[k] = 79 * x[k - 1] + d[k] /\ y[k] = 79 * y[k - 1] + e[k] /\ d[k] = e[k]
  BY <1>4 DEF Follows79, Agree
<1> QED
  BY <1>2, <1>5, <1>6

\* ... and a lesser row of digits to a lesser number.
LEMMA LessSteps ==
  ASSUME NEW d \in [1 .. 10 -> 0 .. 78], NEW e \in [1 .. 10 -> 0 .. 78], NEW x, NEW y,
         Follows79(d, x), Follows79(e, y), Lex(d, e)
  PROVE  x[10] < y[10]
<1>1. PICK i \in 1 .. 10 : d[i] < e[i] /\ \A j \in 1 .. i - 1 : d[j] = e[j]
  BY DEF Lex
<1>2. x[i - 1] = y[i - 1]
  <2>1. i - 1 \in 0 .. 10 /\ Agree(d, e, i - 1)
    BY <1>1 DEF Agree
  <2> QED
    BY <2>1, SameSteps
<1>3. \A k \in 0 .. 10 : x[k] \in Nat /\ y[k] \in Nat
  BY DEF Follows79
<1>4. x[i] < y[i]
  <2>1. i - 1 \in 0 .. 10 /\ d[i] \in Nat /\ e[i] \in Nat
    OBVIOUS
  <2>2. x[i] = 79 * x[i - 1] + d[i] /\ y[i] = 79 * y[i - 1] + e[i]
    BY DEF Follows79
  <2> QED
    BY <1>1, <1>2, <1>3, <2>1, <2>2
<1> DEFINE Bad == {k \in i .. 10 : ~ (x[k] < y[k])}
<1>5. SUFFICES ASSUME Bad # {} PROVE FALSE
  <2>1. 10 \in i .. 10
    OBVIOUS
  <2> QED
    BY <2>1
<1>6. PICK k \in Bad : \A l \in Bad : k <= l
  <2>1. Bad \in SUBSET Nat
    OBVIOUS
  <2> HIDE DEF Bad
  <2> QED
    BY <1>5, <2>1, Least
<1>7. k # i
  BY <1>4, <1>6
<1>8. k \in 1 .. 10 /\ k - 1 \in i .. 10 /\ k - 1 \in 0 .. 10 /\ ~ (k <= k - 1)
  BY <1>6, <1>7
<1>9. x[k - 1] < y[k - 1]
  BY <1>6, <1>8
<1>10. x[k] = 79 * x[k - 1] + d[k] /\ y[k] = 79 * y[k - 1] + e[k]
  BY <1>8 DEF Follows79
<1>11. d[k] \in 0 .. 78 /\ e[k] \in 0 .. 78
  BY <1>8
<1>12. x[k] < y[k]
  BY <1>3, <1>8, <1>9, <1>10, <1>11
<1> QED
  BY <1>6, <1>12

LEMMA StepsSort ==
  ASSUME NEW d \in [1 .. 10 -> 0 .. 78], NEW e \in [1 .. 10 -> 0 .. 78], NEW x, NEW y,
         Follows79(d, x), Follows79(e, y)
  PROVE  x[10] < y[10] <=> Lex(d, e)
<1>1. Lex(d, e) => x[10] < y[10]
  BY LessSteps
<1>2. Lex(e, d) => y[10] < x[10]
  BY LessSteps
<1>3. ASSUME \A i \in 1 .. 10 : d[i] = e[i] PROVE x[10] = y[10]
  <2>1. 10 \in 0 .. 10 /\ Agree(d, e, 10)
    BY <1>3 DEF Agree
  <2> QED
    BY <2>1, SameSteps
<1>4. Lex(d, e) \/ Lex(e, d) \/ \A i \in 1 .. 10 : d[i] = e[i]
  BY Trichotomy
<1>5. PICK m \in Nat, n \in Nat : m = x[10] /\ n = y[10]
  BY DEF Follows79
<1>6. ~ (n < m /\ m < n) /\ ~ (m = n /\ m < n)
  OBVIOUS
<1> QED
  BY <1>1, <1>2, <1>3, <1>4, <1>5, <1>6

\* Hashes sort as their ten digits do.
LEMMA HashesSort ==
  ASSUME NEW s \in Seq(Char), NEW t \in Seq(Char)
  PROVE  Less(hash_b79(s), hash_b79(t)) <=> Lex(Digits79(s), Digits79(t))
<1> DEFINE d == Digits79(s)
           e == Digits79(t)
<1>1. d \in [1 .. 10 -> 0 .. 78] /\ e \in [1 .. 10 -> 0 .. 78]
  BY DigitsAre
<1>2. PICK g : Steps(d, 10, g) /\ hash_b79(s) = g[10]
  BY Hashed
<1>3. PICK h : Steps(e, 10, h) /\ hash_b79(t) = h[10]
  BY Hashed
<1> HIDE DEF d, e
<1> DEFINE x == [i \in 0 .. 10 |-> Number(g[i])]
           y == [i \in 0 .. 10 |-> Number(h[i])]
<1>4. Follows79(d, x) /\ g[10] \in [1 .. 4 -> Limb] /\ x[10] = Number(g[10])
  <2>1. /\ Number(g[0]) = 0
        /\ \A i \in 0 .. 10 : g[i] \in [1 .. 4 -> Limb] /\ Number(g[i]) \in Nat
        /\ \A i \in 1 .. 10 : Number(g[i]) = 79 * Number(g[i - 1]) + d[i]
    BY <1>1, <1>2, StepsAre
  <2>2. \A i \in 1 .. 10 : i - 1 \in 0 .. 10 /\ i \in 0 .. 10
    OBVIOUS
  <2> QED
    BY <2>1, <2>2 DEF Follows79
<1>5. Follows79(e, y) /\ h[10] \in [1 .. 4 -> Limb] /\ y[10] = Number(h[10])
  <2>1. /\ Number(h[0]) = 0
        /\ \A i \in 0 .. 10 : h[i] \in [1 .. 4 -> Limb] /\ Number(h[i]) \in Nat
        /\ \A i \in 1 .. 10 : Number(h[i]) = 79 * Number(h[i - 1]) + e[i]
    BY <1>1, <1>3, StepsAre
  <2>2. \A i \in 1 .. 10 : i - 1 \in 0 .. 10 /\ i \in 0 .. 10
    OBVIOUS
  <2> QED
    BY <2>1, <2>2 DEF Follows79
<1> HIDE DEF x, y
<1>6. Less(g[10], h[10]) <=> x[10] < y[10]
  BY <1>4, <1>5, LessIs
<1>7. x[10] < y[10] <=> Lex(d, e)
  BY <1>1, <1>4, <1>5, StepsSort
<1> QED
  BY <1>2, <1>3, <1>6, <1>7 DEF d, e

\* The characters of words, and the ones the hash looks at.
Alphabet == Codes \cup {Begin}
Ten(s) == IF Len(s) > 10 THEN SubSeq(s, 1, 10) ELSE s

\* The first ten characters of a word, or all of a shorter one.
LEMMA TenIs ==
  ASSUME NEW s \in Seq(Alphabet)
  PROVE  /\ Ten(s) \in Seq(Alphabet)
         /\ Len(Ten(s)) <= 10 /\ Len(Ten(s)) <= Len(s)
         /\ \A i \in 1 .. 10 : i <= Len(s) <=> i \in 1 .. Len(Ten(s))
         /\ \A i \in 1 .. Len(Ten(s)) : Ten(s)[i] = s[i] /\ s[i] \in Alphabet
<1>1. Len(s) \in Nat /\ \A i \in 1 .. Len(s) : s[i] \in Alphabet
  OBVIOUS
<1>2. CASE Len(s) > 10
  <2>1. SubSeq(s, 1, 10) \in Seq(Alphabet) /\ Len(SubSeq(s, 1, 10)) = 10
    BY <1>1, <1>2
  <2>2. \A i \in 1 .. 10 : SubSeq(s, 1, 10)[i] = s[i]
    BY <1>1, <1>2
  <2> QED
    BY <1>1, <1>2, <2>1, <2>2 DEF Ten
<1>3. CASE ~ (Len(s) > 10)
  BY <1>1, <1>3 DEF Ten
<1> QED
  BY <1>2, <1>3

LEMMA DigitIs ==
  ASSUME NEW s \in Seq(Alphabet), NEW i \in 1 .. 10
  PROVE  Digits79(s)[i] = IF i <= Len(s) THEN ascii_2_mx79(s[i]) ELSE 0
BY DEF Digits79

LEMMA DigitsOf ==
  ASSUME NEW s \in Seq(Alphabet)
  PROVE  s \in Seq(Char) /\ \A i \in 1 .. 10 : Digits79(s)[i] \in 0 .. 78
<1>1. Alphabet \subseteq Char
  BY WordsAssumption DEF Alphabet, Char
<1>2. s \in Seq(Char)
  BY <1>1
<1> QED
  BY <1>2, DigitsAre

\* Characters of the alphabet compare as their values do.
LEMMA OneLetter ==
  ASSUME NEW c \in Alphabet, NEW d \in Alphabet
  PROVE  /\ c \in Char /\ d \in Char
         /\ ascii_2_mx79(c) \in 1 .. 78
         /\ c < d <=> ascii_2_mx79(c) < ascii_2_mx79(d)
         /\ c = d <=> ascii_2_mx79(c) = ascii_2_mx79(d)
<1>1. c \in 1 .. 255 /\ d \in 1 .. 255
  BY WordsAssumption DEF Alphabet
<1>2. /\ ascii_2_mx79(c) \in 1 .. 78 /\ ascii_2_mx79(d) \in 1 .. 78
      /\ c <= d => ascii_2_mx79(c) <= ascii_2_mx79(d)
      /\ d <= c => ascii_2_mx79(d) <= ascii_2_mx79(c)
  <2>1. ascii_2_mx79(c) \in 1 .. 78 /\ (c <= d => ascii_2_mx79(c) <= ascii_2_mx79(d))
    BY ONLY <1>1, ValuesUp
  <2>2. ascii_2_mx79(d) \in 1 .. 78 /\ (d <= c => ascii_2_mx79(d) <= ascii_2_mx79(c))
    BY ONLY <1>1, ValuesUp
  <2> QED
    BY <2>1, <2>2
<1>3. ascii_2_mx79(c) = ascii_2_mx79(d) => c = d
  BY WordsAssumption DEF Alphabet
<1>4. PICK m \in 1 .. 78, n \in 1 .. 78 : m = ascii_2_mx79(c) /\ n = ascii_2_mx79(d)
  BY <1>2
<1>5. (c <= d => m <= n) /\ (d <= c => n <= m) /\ (m = n => c = d)
  BY <1>2, <1>3, <1>4
<1>6. (c < d <=> m < n) /\ (c = d => m = n)
  <2>1. c = d => m = n
    BY <1>4
  <2> QED
    BY <1>1, <1>5, <2>1
<1> QED
  BY <1>1, <1>2, <1>4, <1>5, <1>6 DEF Char

\* m characters, and the digits of their values.
Spelt(v, m, d) ==
  \A i \in 1 .. 10 :
    /\ i \in 1 .. m => v[i] \in Alphabet /\ d[i] = ascii_2_mx79(v[i])
    /\ ~ (i \in 1 .. m) => d[i] = 0

LEMMA ZeroBelow ==
  ASSUME NEW x, x = 0, NEW y \in 1 .. 78
  PROVE  x # y /\ x < y
OBVIOUS

\* Words compare as their digits do: a shorter one has a 0 where the longer
\* one has a character, whose value is not 0.
LEMMA SpeltSort ==
  ASSUME NEW v, NEW w, NEW m \in 0 .. 10, NEW n \in 0 .. 10,
         NEW d \in [1 .. 10 -> 0 .. 78], NEW e \in [1 .. 10 -> 0 .. 78],
         DOMAIN v = 1 .. m, Len(w) = n, Spelt(v, m, d), Spelt(w, n, e)
  PROVE  Before(v, w) <=> Lex(d, e)
<1>1. ASSUME NEW i \in 1 .. 10, i \in 1 .. n
      PROVE  /\ d[i] = e[i] <=> i \in 1 .. m /\ v[i] = w[i]
             /\ d[i] < e[i] <=> (i \in 1 .. m => v[i] < w[i])
  <2>1. w[i] \in Alphabet /\ e[i] = ascii_2_mx79(w[i]) /\ e[i] \in 1 .. 78
    BY <1>1, OneLetter DEF Spelt
  <2>2. CASE i \in 1 .. m
    <3>1. v[i] \in Alphabet /\ d[i] = ascii_2_mx79(v[i])
      BY <2>2 DEF Spelt
    <3>2. (v[i] < w[i] <=> d[i] < e[i]) /\ (v[i] = w[i] <=> d[i] = e[i])
      BY <2>1, <3>1, OneLetter
    <3> QED
      BY <2>2, <3>2
  <2>3. CASE ~ (i \in 1 .. m)
    <3>1. d[i] = 0
      BY <2>3 DEF Spelt
    <3>2. d[i] # e[i] /\ d[i] < e[i]
      BY ONLY <2>1, <3>1, ZeroBelow
    <3> QED
      BY <2>3, <3>2
  <2> QED
    BY <2>2, <2>3
<1>2. ASSUME NEW i \in 1 .. 10, d[i] < e[i] PROVE i \in 1 .. n
  <2>1. SUFFICES ASSUME ~ (i \in 1 .. n) PROVE FALSE
    OBVIOUS
  <2>2. e[i] = 0
    BY <2>1 DEF Spelt
  <2>3. PICK x \in 0 .. 78 : x = d[i]
    OBVIOUS
  <2>4. x < 0
    BY <1>2, <2>2, <2>3
  <2> QED
    BY <2>4
<1>3. ASSUME NEW i \in 1 .. n
      PROVE  (\A j \in 1 .. i - 1 : d[j] = e[j])
               <=> (\A j \in 1 .. i - 1 : j \in 1 .. m /\ v[j] = w[j])
  <2>1. ASSUME NEW j \in 1 .. i - 1 PROVE d[j] = e[j] <=> j \in 1 .. m /\ v[j] = w[j]
    <3>1. j \in 1 .. 10 /\ j \in 1 .. n
      OBVIOUS
    <3> QED
      BY <1>1, <3>1
  <2> QED
    BY <2>1
<1>4. ASSUME NEW i \in 1 .. n
      PROVE  i \in 1 .. 10 /\ (d[i] < e[i] <=> (i \in 1 .. m => v[i] < w[i]))
  <2>1. i \in 1 .. 10
    OBVIOUS
  <2> QED
    BY <1>1, <2>1
<1>5. Lex(d, e) <=> \E i \in 1 .. n : d[i] < e[i] /\ \A j \in 1 .. i - 1 : d[j] = e[j]
  BY <1>2, <1>4 DEF Lex
<1> DEFINE First(i) == /\ \A j \in 1 .. i - 1 : j \in 1 .. m /\ v[j] = w[j]
                       /\ i \in 1 .. m => v[i] < w[i]
<1>6. Before(v, w) <=> \E i \in 1 .. n : First(i)
  BY DEF Before
<1>7. \A i \in 1 .. n : First(i) <=> d[i] < e[i] /\ \A j \in 1 .. i - 1 : d[j] = e[j]
  BY <1>3, <1>4
<1> HIDE DEF First
<1> QED
  BY <1>5, <1>6, <1>7

LEMMA UpToTen == \A m \in Nat : m <= 10 => m \in 0 .. 10
OBVIOUS

LEMMA TenSpelt ==
  ASSUME NEW s \in Seq(Alphabet)
  PROVE  \E m \in 0 .. 10 : /\ DOMAIN Ten(s) = 1 .. m /\ Len(Ten(s)) = m
                           /\ Spelt(Ten(s), m, Digits79(s))
<1>1. Ten(s) \in Seq(Alphabet) /\ Len(Ten(s)) <= 10
  BY TenIs
<1>2. PICK m \in 0 .. 10 : m = Len(Ten(s)) /\ DOMAIN Ten(s) = 1 .. m
  <2>1. Len(Ten(s)) \in Nat /\ DOMAIN Ten(s) = 1 .. Len(Ten(s))
    BY <1>1
  <2>2. PICK m \in Nat : m = Len(Ten(s)) /\ m <= 10
    BY <1>1, <2>1
  <2>3. m \in 0 .. 10
    BY <2>2, UpToTen
  <2> QED
    BY <2>1, <2>2, <2>3
<1>3. Spelt(Ten(s), m, Digits79(s))
  BY <1>2, TenIs, DigitIs DEF Spelt
<1> QED
  BY <1>2, <1>3

\* Words sort as their ten digits do.
LEMMA WordsSortAsDigits ==
  ASSUME NEW s \in Seq(Alphabet), NEW t \in Seq(Alphabet)
  PROVE  Before(Ten(s), Ten(t)) <=> Lex(Digits79(s), Digits79(t))
<1>1. Digits79(s) \in [1 .. 10 -> 0 .. 78] /\ Digits79(t) \in [1 .. 10 -> 0 .. 78]
  BY DigitsOf, DigitsAre
<1>2. PICK m \in 0 .. 10 : /\ DOMAIN Ten(s) = 1 .. m /\ Len(Ten(s)) = m
                          /\ Spelt(Ten(s), m, Digits79(s))
  BY TenSpelt
<1>3. PICK n \in 0 .. 10 : /\ DOMAIN Ten(t) = 1 .. n /\ Len(Ten(t)) = n
                          /\ Spelt(Ten(t), n, Digits79(t))
  BY TenSpelt
<1> QED
  BY ONLY <1>1, <1>2, <1>3, SpeltSort

-----------------------------------------------------------------------------
(* The words of the runs *)

\* They begin alike, and end with the characters of the alphabet.
WordsInv == kind = "words" => input \in [n : Begins, v : Seq(Codes), w : Seq(Codes)]

LEMMA WordsStay == Spec => []WordsInv
<1>1. Init => WordsInv
  <2>1. <<>> \in Seq(Codes)
    OBVIOUS
  <2> SUFFICES ASSUME Init, kind = "words"
               PROVE  input \in [n : Begins, v : Seq(Codes), w : Seq(Codes)]
    BY DEF WordsInv
  <2>2. PICK n \in Begins : input = [n |-> n, v |-> <<>>, w |-> <<>>]
    BY DEF Init
  <2> QED
    BY <2>1, <2>2
<1>2. ASSUME WordsInv, [Next]_vars PROVE WordsInv'
  <2>1. ASSUME NEW t \in Tokens, NEW blank \in {<<>>, <<" ">>}, WriteToken(t, blank) PROVE WordsInv'
    BY <1>2, <2>1 DEF WriteToken, WordsInv
  <2>2. ASSUME NEW b \in Bytes \cup {Filler}, AddByte(b) PROVE WordsInv'
    BY <1>2, <2>2 DEF AddByte, WordsInv
  <2>3. ASSUME NEW c \in Codes, AddLetter(c) PROVE WordsInv'
    <3>1. kind = "words" /\ kind' = "words" /\ input \in [n : Begins, v : Seq(Codes), w : Seq(Codes)]
      BY <1>2, <2>3 DEF AddLetter, WordsInv
    <3>2. Append(input.v, c) \in Seq(Codes) /\ Append(input.w, c) \in Seq(Codes)
      <4>1. input.v \in Seq(Codes) /\ input.w \in Seq(Codes)
        BY <3>1
      <4> QED
        BY <4>1
    <3>3. CASE input' = [input EXCEPT !.v = Append(@, c)]
      BY <3>1, <3>2, <3>3 DEF WordsInv
    <3>4. CASE input' = [input EXCEPT !.w = Append(@, c)]
      BY <3>1, <3>2, <3>4 DEF WordsInv
    <3> QED
      BY <2>3, <3>3, <3>4 DEF AddLetter
  <2>4. CASE UNCHANGED vars
    BY <1>2, <2>4 DEF vars, WordsInv
  <2> QED
    BY <1>2, <2>1, <2>2, <2>3, <2>4 DEF Next
<1> QED
  BY <1>1, <1>2, PTL DEF Spec

\* For every alphabet whose characters have values of their own, and words of
\* every length: they sort as their hashes do, up to ten characters.
THEOREM WordsSort == Spec => []HashOrders
<1> DEFINE AllOf(s) == [i \in 1 .. input.n |-> Begin] \o s
<1>1. ASSUME WordsInv, kind = "words", NEW s \in Seq(Codes) PROVE AllOf(s) \in Seq(Alphabet)
  <2>1. input.n \in Nat
    BY <1>1, WordsAssumption DEF WordsInv
  <2>2. Begin \in Alphabet /\ Codes \subseteq Alphabet
    BY DEF Alphabet
  <2>3. [i \in 1 .. input.n |-> Begin] \in Seq(Alphabet)
    BY <2>1, <2>2
  <2>4. s \in Seq(Alphabet)
    BY <2>2
  <2> QED
    BY <2>3, <2>4
<1>2. ASSUME NEW s \in Seq(Alphabet) PROVE s \in Seq(Char)
  BY DigitsOf
<1>3. ASSUME WordsInv, kind = "words"
      PROVE  Before(Ten(AllOf(input.v)), Ten(AllOf(input.w)))
               <=> Less(hash_b79(AllOf(input.v)), hash_b79(AllOf(input.w)))
  <2>1. input.v \in Seq(Codes) /\ input.w \in Seq(Codes)
    BY <1>3 DEF WordsInv
  <2>2. AllOf(input.v) \in Seq(Alphabet) /\ AllOf(input.w) \in Seq(Alphabet)
    BY <1>1, <1>3, <2>1
  <2> HIDE DEF AllOf
  <2>3. AllOf(input.v) \in Seq(Char) /\ AllOf(input.w) \in Seq(Char)
    BY <1>2, <2>2
  <2> QED
    BY <2>2, <2>3, WordsSortAsDigits, HashesSort
<1>4. WordsInv => HashOrders
  BY <1>3 DEF HashOrders, Ten
<1> QED
  BY <1>4, WordsStay, PTL
=============================================================================
