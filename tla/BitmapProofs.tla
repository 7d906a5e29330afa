---------------------------- MODULE BitmapProofs ----------------------------
(***************************************************************************)
(* Proofs about Bitmap, for bitmaps of any size and bytes of any width.    *)
(* They come in two layers.  The first needs only that an address and a    *)
(* length never add up to more than a uint64_t holds (CallsFit): whatever  *)
(* the functions are asked for, they stay inside the bitmap and a change   *)
(* is exact.  The second says what they answer, and needs that sizes are   *)
(* ints (IntsFit), which is what the byte primitives take.                 *)
(***************************************************************************)
EXTENDS Bitmap, FiniteSetTheorems, WellFoundedInduction, TLAPS

\* What callers keep to: the end of a range is a uint64_t.
CallsFit == \A a \in Addresses, n \in Counts : a + n < Word

\* Sizes are ints.
HalfInt == IntWord \div 2
IntsFit == \A n \in Counts \cup Gaps : n < HalfInt

-----------------------------------------------------------------------------
(* Numbers *)

LEMMA Numbers ==
  /\ Bits \in Nat /\ Bits > 0 /\ Total \in Nat /\ Total > 0
  /\ Word \in Nat /\ Word > Total + Bits
  /\ IntWord \in Nat /\ IntWord > 4 * Bits
  /\ 0 \in Positions /\ \A p \in Positions : p \in Nat /\ p < Bits
BY BitmapAssumption DEF BitmapAssumption, Positions

\* A later multiple of w is at least w further on.
LEMMA Further ==
  ASSUME NEW w \in Nat, w > 0, NEW l \in Int, NEW m \in Int, l < m
  PROVE  l * w + w <= m * w
OBVIOUS

LEMMA DivMod ==
  ASSUME NEW w \in Nat, w > 0, NEW b \in Nat
  PROVE  /\ b \div w \in Nat /\ b % w \in 0 .. w - 1
         /\ b = (b \div w) * w + (b % w)
OBVIOUS

LEMMA DivModUnique ==
  ASSUME NEW w \in Nat, w > 0, NEW l \in Nat, NEW p \in 0 .. w - 1
  PROVE  (l * w + p) \div w = l /\ (l * w + p) % w = p
<1> DEFINE b == l * w + p
<1>1. l * w \in Nat /\ b \in Nat
  OBVIOUS
<1>2. /\ b \div w \in Nat /\ b % w \in 0 .. w - 1
      /\ b = (b \div w) * w + (b % w)
  BY <1>1, DivMod
<1>3. ~ (b \div w < l) /\ ~ (l < b \div w)
  BY <1>1, <1>2, Further
<1> QED
  BY <1>1, <1>2, <1>3

\* The bytes hold all bits, and the last one holds at least one.
LEMMA ByteCount ==
  /\ NBytes \in Nat /\ NBytes > 0 /\ NBytes * Bits \in Nat
  /\ Total <= NBytes * Bits /\ NBytes * Bits < Total + Bits
<1> DEFINE b == Total + Bits - 1
<1>1. /\ b \in Nat /\ Bits \in Nat /\ Bits > 0 /\ Total \in Nat /\ Total > 0
  BY Numbers
<1>2. /\ b \div Bits \in Nat /\ b % Bits \in 0 .. Bits - 1
      /\ b = (b \div Bits) * Bits + (b % Bits)
  BY <1>1, DivMod
<1>3. NBytes = b \div Bits
  BY DEF NBytes
<1> QED
  BY <1>1, <1>2, <1>3

LEMMA ByteInside ==
  ASSUME NEW l \in Nat, l * Bits < Total
  PROVE  l \in 0 .. NBytes - 1 /\ l * Bits + Bits <= NBytes * Bits
<1>1. ~ (NBytes <= l)
  <2>1. NBytes = l \/ NBytes < l => NBytes * Bits <= l * Bits
    BY Numbers, ByteCount, Further
  <2> QED
    BY <2>1, Numbers, ByteCount
<1> QED
  BY <1>1, Numbers, ByteCount, Further

LEMMA Least ==
  ASSUME NEW S \in SUBSET Nat, S # {}
  PROVE  \E x \in S : \A y \in S : x <= y
<1> DEFINE R == OpToRel(<, Nat)
<1>1. IsWellFoundedOn(R, Nat)
  BY NatLessThanWellFounded
<1>2. ASSUME NEW x \in Nat, NEW y \in Nat, y < x PROVE <<y, x>> \in R
  BY <1>2 DEF OpToRel
<1> HIDE DEF R
<1>3. PICK x \in S : \A y \in S : <<y, x>> \notin R
  BY <1>1, WFMin
<1>4. ASSUME NEW y \in S PROVE x <= y
  <2>1. x \in Nat /\ y \in Nat
    OBVIOUS
  <2>2. ~ (y < x)
    BY <1>2, <1>3, <2>1
  <2> QED
    BY <2>1, <2>2
<1> QED
  BY <1>4

\* The conversions: a uint64_t keeps what is one, an int what is below its sign.
LEMMA Conversions ==
  /\ \A x \in Nat : x < Word => U64(x) = x
  /\ \A x \in Nat : U64(x) \in 0 .. Word - 1
  /\ \A x \in Nat : ToInt(x) \in Int /\ ToInt(x) <= x
  /\ \A x \in Nat : x < HalfInt => ToInt(x) = x
  /\ \A x \in Nat : ToInt(x) > 0 => ToInt(x) = x \/ x >= IntWord + ToInt(x)
  /\ \A x \in Nat : ToInt(x) > 0 => x - ToInt(x) \in Nat /\ ToInt(x - ToInt(x)) = 0
<1>1. Word \in Nat /\ Word > 0 /\ IntWord \in Nat /\ IntWord > 1
  BY Numbers
<1>2. ASSUME NEW x \in Nat PROVE U64(x) \in 0 .. Word - 1 /\ (x < Word => U64(x) = x)
  BY <1>1 DEF U64
<1>3. ASSUME NEW x \in Nat
      PROVE  /\ ToInt(x) \in Int /\ ToInt(x) <= x
             /\ x < HalfInt => ToInt(x) = x
             /\ ToInt(x) > 0 => ToInt(x) = x \/ x >= IntWord + ToInt(x)
             /\ ToInt(x) > 0 => x - ToInt(x) \in Nat /\ ToInt(x - ToInt(x)) = 0
  <2> DEFINE y == x % IntWord
  <2> DEFINE q == x \div IntWord
  <2>1. q \in Nat /\ y \in 0 .. IntWord - 1 /\ x = q * IntWord + y /\ q * IntWord \in Nat
    BY <1>1
  <2>2. IntWord \div 2 \in Nat /\ IntWord \div 2 > 0 /\ IntWord \div 2 <= IntWord
    BY <1>1
  <2>3. x < IntWord => y = x
    BY <1>1
  <2>4. ToInt(x) = IF y < IntWord \div 2 THEN y ELSE y - IntWord
    BY DEF ToInt
  <2>5. ToInt(x) > 0 => ToInt(x) = y
    BY <1>1, <2>1, <2>2, <2>4
  <2>6. q = 0 \/ q * IntWord >= IntWord
    BY <1>1, <2>1
  <2>7. (q * IntWord) % IntWord = 0
    <3>1. ASSUME NEW k \in Nat PROVE (k * IntWord) % IntWord = 0
      <4>1. 0 \in 0 .. IntWord - 1 /\ k * IntWord + 0 = k * IntWord
        BY <1>1
      <4>2. (k * IntWord + 0) % IntWord = 0
        BY <1>1, <4>1, DivModUnique
      <4> QED
        BY <4>1, <4>2
    <3> QED
      BY <2>1, <3>1
  <2>8. ToInt(q * IntWord) = 0
    BY <1>1, <2>2, <2>7 DEF ToInt
  <2>9. ToInt(x) > 0 => x - ToInt(x) = q * IntWord
    BY <2>1, <2>5
  <2> HIDE DEF q, y
  <2>10. ToInt(x) \in Int /\ ToInt(x) <= x
    BY <1>1, <2>1, <2>2, <2>4
  <2>11. x < HalfInt => ToInt(x) = x
    BY <1>1, <2>2, <2>3, <2>4 DEF HalfInt
  <2>12. ToInt(x) > 0 => ToInt(x) = x \/ x >= IntWord + ToInt(x)
    BY <1>1, <2>1, <2>5, <2>6
  <2> QED
    BY <2>1, <2>8, <2>9, <2>10, <2>11, <2>12
<1> QED
  BY <1>2, <1>3

-----------------------------------------------------------------------------
(* Bits and bytes *)

\* Ones, of any bitmap m.
OnesOf(m) == {b \in 0 .. NBytes * Bits - 1 : b % Bits \in m[b \div Bits]}

LEMMA OnesNow == Ones = OnesOf(bm) /\ Ones' = OnesOf(bm')
BY DEF Ones, OnesOf

BitmapType == bm \in [0 .. NBytes - 1 -> SUBSET Positions]

\* Bit p of byte l is one of them.
LEMMA OnesAt ==
  ASSUME NEW m, NEW l \in 0 .. NBytes - 1, NEW p \in Positions
  PROVE  /\ l * Bits + p \in 0 .. NBytes * Bits - 1
         /\ l * Bits + p \in OnesOf(m) <=> p \in m[l]
<1> DEFINE b == l * Bits + p
<1>1. /\ NBytes \in Nat /\ Bits \in Nat /\ Bits > 0 /\ l \in Nat
      /\ l * Bits \in Nat /\ p \in 0 .. Bits - 1 /\ NBytes * Bits \in Nat
  BY Numbers, ByteCount DEF Positions
<1>2. l * Bits + Bits <= NBytes * Bits
  BY <1>1, Further
<1>3. b \in 0 .. NBytes * Bits - 1
  BY <1>1, <1>2
<1>4. b \div Bits = l /\ b % Bits = p
  BY <1>1, DivModUnique
<1> HIDE DEF b
<1>5. b \in OnesOf(m) <=> p \in m[l]
  BY <1>3, <1>4 DEF OnesOf
<1> QED
  BY <1>3, <1>5 DEF b

\* Every bit is one of some byte.
LEMMA BitIn ==
  ASSUME NEW b \in 0 .. NBytes * Bits - 1
  PROVE  \E l \in 0 .. NBytes - 1, p \in Positions : b = l * Bits + p
<1>1. b \in Nat /\ Bits \in Nat /\ Bits > 0 /\ NBytes \in Nat /\ NBytes * Bits \in Nat
  BY Numbers, ByteCount
<1>2. b \div Bits \in Nat /\ b % Bits \in 0 .. Bits - 1 /\ b = (b \div Bits) * Bits + (b % Bits)
  BY <1>1, DivMod
<1>3. ~ (NBytes <= b \div Bits)
  <2>1. NBytes = b \div Bits \/ NBytes < b \div Bits => NBytes * Bits <= (b \div Bits) * Bits
    BY <1>1, <1>2, Further
  <2> QED
    BY <1>1, <1>2, <2>1
<1>4. b \div Bits \in 0 .. NBytes - 1 /\ b % Bits \in Positions
  BY <1>1, <1>2, <1>3 DEF Positions
<1> QED
  BY <1>2, <1>4

\* The bits of a byte from position s on, as addresses.
LEMMA ByteRange ==
  ASSUME NEW l \in 0 .. NBytes - 1, NEW s \in Nat, NEW e \in Int, e < Bits,
         NEW b \in l * Bits + s .. l * Bits + e
  PROVE  /\ b - l * Bits \in Positions /\ b - l * Bits \in s .. e
         /\ b \in Ones <=> b - l * Bits \in bm[l]
<1>1. /\ l \in Nat /\ Bits \in Nat /\ l * Bits \in Nat
  BY Numbers, ByteCount
<1>2. b - l * Bits \in Positions /\ b - l * Bits \in s .. e /\ b = l * Bits + (b - l * Bits)
  BY <1>1 DEF Positions
<1>3. l * Bits + (b - l * Bits) \in Ones <=> b - l * Bits \in bm[l]
  BY <1>2, OnesAt, OnesNow
<1> QED
  BY <1>2, <1>3

\* S after the bits from..to-1 were given value v.
Applied(S, from, to, v) == IF v = 1 THEN S \cup (from .. to - 1) ELSE S \ (from .. to - 1)

\* Bytes that are changed from bit at to bit end, and nowhere else, change Ones
\* there and nowhere else.
LEMMA Changed ==
  ASSUME BitmapType, BitmapType', NEW at \in Nat, NEW end \in Nat, NEW v \in {0, 1},
         end <= NBytes * Bits,
         \A l \in 0 .. NBytes - 1 : \A p \in Positions :
           p \in bm'[l] <=> IF l * Bits + p \in at .. end - 1 THEN v = 1 ELSE p \in bm[l]
  PROVE  Ones' = Applied(Ones, at, end, v)
<1> DEFINE all == 0 .. NBytes * Bits - 1
<1>1. Ones \subseteq all /\ Ones' \subseteq all /\ at .. end - 1 \subseteq all
  BY ByteCount DEF Ones
<1>2. ASSUME NEW b \in all
      PROVE  b \in Ones' <=> IF b \in at .. end - 1 THEN v = 1 ELSE b \in Ones
  <2>1. PICK l \in 0 .. NBytes - 1, p \in Positions : b = l * Bits + p
    BY BitIn
  <2>2. b \in Ones <=> p \in bm[l]
    BY <2>1, OnesAt, OnesNow
  <2>3. b \in Ones' <=> p \in bm'[l]
    BY <2>1, OnesAt, OnesNow
  <2> QED
    BY <2>1, <2>2, <2>3
<1> HIDE DEF all
<1> QED
  BY <1>1, <1>2 DEF Applied

-----------------------------------------------------------------------------
(* What the byte primitives return *)

\* The numbers a, a + 1, ... that agree with v as to being in S, up to e - 1.
Agree(S, v, a, e) == \A q \in a .. e - 1 : q \in S <=> v = 1

\* They end at some u.
LEMMA AgreeEnds ==
  ASSUME NEW S, NEW v, NEW a \in Nat, NEW e \in Nat, a <= e
  PROVE  \E u \in a .. e : /\ Agree(S, v, a, u)
                           /\ u < e => ~ (u \in S <=> v = 1)
<1> DEFINE T == {u \in a .. e : u < e => ~ (u \in S <=> v = 1)}
<1>1. T \in SUBSET Nat /\ e \in T
  OBVIOUS
<1>2. PICK u \in T : \A t \in T : u <= t
  BY <1>1, Least
<1>3. \A q \in a .. u - 1 : q \notin T
  BY <1>1, <1>2
<1>4. Agree(S, v, a, u)
  BY <1>1, <1>2, <1>3 DEF Agree
<1> QED
  BY <1>2, <1>4

\* They are counted by their last ones.
LEMMA CountAgree ==
  ASSUME NEW S, NEW v, NEW a \in Nat, NEW e \in Nat, NEW u \in a .. e,
         Agree(S, v, a, u), u < e => ~ (u \in S <=> v = 1)
  PROVE  Cardinality({p \in a .. e - 1 : \A q \in a .. p : q \in S <=> v = 1}) = u - a
<1> DEFINE T == {p \in a .. e - 1 : \A q \in a .. p : q \in S <=> v = 1}
<1>1. T = a .. u - 1
  <2>1. ASSUME NEW p \in a .. u - 1 PROVE p \in T
    BY <2>1 DEF Agree
  <2>2. ASSUME NEW p \in T PROVE p \in a .. u - 1
    <3>1. ~ (u <= p)
      BY DEF Agree
    <3> QED
      BY <3>1
  <2> QED
    BY <2>1, <2>2
<1>2. Cardinality(a .. u - 1) = u - a
  <2>1. a \in Int /\ u - 1 \in Int /\ u \in Int /\ a <= u
    OBVIOUS
  <2>2. Cardinality(a .. u - 1) = IF a > u - 1 THEN 0 ELSE (u - 1) - a + 1
    BY <2>1, FS_Interval
  <2> QED
    BY <2>1, <2>2
<1> HIDE DEF T
<1> QED
  BY <1>1, <1>2 DEF T

\* RunOf, of any set of bits.
RunIn(S, a, n, v) ==
  Cardinality({k \in 1 .. n : \A b \in a .. a + k - 1 : b \in S <=> v = 1})

LEMMA RunNow ==
  ASSUME NEW a, NEW n, NEW v
  PROVE  RunOf(a, n, v) = RunIn(Ones, a, n, v)
BY DEF RunOf, RunIn

\* A run is as long as its bits agree.
LEMMA RunLength ==
  ASSUME NEW S, NEW v, NEW a \in Nat, NEW n \in Nat, NEW m \in 0 .. n,
         Agree(S, v, a, a + m), m < n => ~ (a + m \in S <=> v = 1)
  PROVE  RunIn(S, a, n, v) = m
<1> DEFINE T == {k \in 1 .. n : \A b \in a .. a + k - 1 : b \in S <=> v = 1}
<1>1. T = 1 .. m
  <2>1. ASSUME NEW k \in 1 .. m PROVE k \in T
    BY <2>1 DEF Agree
  <2>2. ASSUME NEW k \in T PROVE k \in 1 .. m
    <3>1. ~ (m < k)
      BY DEF Agree
    <3> QED
      BY <3>1
  <2> QED
    BY <2>1, <2>2
<1>2. Cardinality(1 .. m) = m
  BY FS_Interval
<1> HIDE DEF T
<1> QED
  BY <1>1, <1>2 DEF RunIn, T

\* and there is such a length.
LEMMA RunExists ==
  ASSUME NEW S, NEW v, NEW a \in Nat, NEW n \in Nat
  PROVE  /\ RunIn(S, a, n, v) \in 0 .. n
         /\ Agree(S, v, a, a + RunIn(S, a, n, v))
         /\ RunIn(S, a, n, v) < n => ~ (a + RunIn(S, a, n, v) \in S <=> v = 1)
<1>1. PICK u \in a .. a + n : /\ Agree(S, v, a, u)
                              /\ u < a + n => ~ (u \in S <=> v = 1)
  <2>1. a + n \in Nat /\ a <= a + n
    OBVIOUS
  <2> QED
    BY <2>1, AgreeEnds
<1> DEFINE m == u - a
<1>2. m \in 0 .. n /\ a + m = u /\ (m < n <=> u < a + n)
  OBVIOUS
<1> HIDE DEF m
<1>3. RunIn(S, a, n, v) = m
  BY <1>1, <1>2, RunLength
<1> QED
  BY <1>1, <1>2, <1>3

LEMMA ByteCountBits ==
  ASSUME NEW s \in Positions, NEW k \in Int, NEW byte, NEW v
  PROVE  LET c == byte_count_bits(s, k, byte, v)
         IN /\ c \in Nat /\ s + c <= Bits /\ (c <= k \/ c = 0)
            /\ k >= 0 /\ s + k <= Bits =>
                 /\ Agree(byte, v, s, s + c)
                 /\ c < k => ~ (s + c \in byte <=> v = 1)
            /\ k >= 0 /\ s + k > Bits =>
                 /\ Agree(byte, v, s, s + c)
                 /\ s + c < Bits => ~ (s + c \in byte <=> v = 1)
<1> DEFINE e == Below(s + k, Bits)
<1> DEFINE T == {p \in s .. e - 1 : \A q \in s .. p : q \in byte <=> v = 1}
<1>1. s \in Nat /\ s < Bits /\ Bits \in Nat /\ e \in Int /\ e <= Bits /\ e <= s + k
  BY Numbers DEF Below
<1>2. byte_count_bits(s, k, byte, v) = Cardinality(T)
  BY DEF byte_count_bits
<1>3. CASE e < s
  <2>1. T = {}
    BY <1>1, <1>3
  <2>2. Cardinality(T) = 0 /\ k < 0
    <3>1. Cardinality(T) = 0
      BY <2>1, FS_EmptySet
    <3> QED
      BY <1>1, <1>3, <3>1 DEF Below
  <2> HIDE DEF T
  <2> QED
    BY <1>1, <1>2, <2>2
<1>4. CASE e >= s
  <2>1. e \in Nat
    BY <1>1, <1>4
  <2> HIDE DEF e
  <2>2. PICK u \in s .. e : Agree(byte, v, s, u) /\ (u < e => ~ (u \in byte <=> v = 1))
    BY <1>1, <1>4, <2>1, AgreeEnds
  <2>3. Cardinality(T) = u - s
    BY <1>1, <2>1, <2>2, CountAgree
  <2> HIDE DEF T
  <2>4. s + k <= Bits => e = s + k
    BY <1>1 DEF e, Below
  <2>5. s + k > Bits => e = Bits
    BY <1>1 DEF e, Below
  <2> DEFINE c == u - s
  <2>6. c \in Nat /\ s + c = u
    BY <1>1, <2>1
  <2> QED
    BY <1>1, <1>2, <2>1, <2>2, <2>3, <2>4, <2>5, <2>6
<1> QED
  BY <1>1, <1>3, <1>4

\* byte_find_gap: the first gap of n, or the zeros the byte ends with.
LEMMA ByteFindGap ==
  ASSUME NEW s \in Positions, NEW n \in Int, NEW byte
  PROVE  LET g == byte_find_gap(s, n, byte)
         IN /\ g.rc \in Int /\ g.rc >= -2 /\ g.count \in Nat
            /\ g.rc >= 0 => /\ n > 0 /\ g.count = n
                            /\ g.rc \in s .. Bits - n
                            /\ Clear(byte, g.rc, g.rc + n - 1)
                            /\ \A p \in s .. g.rc - 1 : ~ Clear(byte, p, p + n - 1)
            /\ g.rc = -1 => g.count = 0
            /\ g.rc = -1 /\ n > 0 =>
                 \A p \in s .. Bits - 1 : ~ Clear(byte, p, Bits - 1)
            /\ g.rc < 0 /\ n > 0 =>
                 \A p \in s .. Bits - n : ~ Clear(byte, p, p + n - 1)
            /\ g.rc = -2 => /\ n > 0 /\ g.count \in 1 .. Bits - s /\ g.count < n
                            /\ Clear(byte, Bits - g.count, Bits - 1)
                            /\ \A p \in s .. Bits - g.count - 1 : ~ Clear(byte, p, Bits - 1)
<1> DEFINE g == byte_find_gap(s, n, byte)
<1> DEFINE found == {p \in s .. Bits - n : Clear(byte, p, p + n - 1)}
<1> DEFINE ends == {p \in s .. Bits - 1 : Clear(byte, p, Bits - 1)}
<1>1. s \in Nat /\ s < Bits /\ Bits \in Nat
  BY Numbers
<1>2. g = IF n <= 0
          THEN [rc |-> -1, count |-> 0]
          ELSE IF found # {}
          THEN [rc |-> CHOOSE p \in found : \A q \in found : p <= q, count |-> n]
          ELSE [rc |-> IF Cardinality(ends) = 0 THEN -1 ELSE -2, count |-> Cardinality(ends)]
  BY DEF byte_find_gap
<1>3. CASE n <= 0
  <2>1. g.rc = -1 /\ g.count = 0
    BY <1>2, <1>3
  <2> HIDE DEF g
  <2> QED
    BY <1>3, <2>1 DEF g
<1>4. CASE n > 0 /\ found # {}
  <2>1. found \in SUBSET Nat
    BY <1>1
  <2>2. \E p \in found : \A q \in found : p <= q
    BY <1>4, <2>1, Least
  <2> DEFINE m == CHOOSE p \in found : \A q \in found : p <= q
  <2>3. m \in found /\ \A q \in found : m <= q
    BY <2>2
  <2>4. g.rc = m /\ g.count = n
    BY <1>2, <1>4
  <2> HIDE DEF m
  <2>5. m \in s .. Bits - n /\ Clear(byte, m, m + n - 1) /\ m \in Nat
    BY <1>1, <2>1, <2>3
  <2>6. ASSUME NEW p \in s .. m - 1 PROVE ~ Clear(byte, p, p + n - 1)
    <3>1. p \notin found
      BY <1>1, <2>3, <2>5
    <3> QED
      BY <1>1, <2>5, <3>1
  <2> HIDE DEF g, found
  <2> QED
    BY <1>4, <2>4, <2>5, <2>6 DEF g
<1>5. CASE n > 0 /\ found = {}
  <2>1. g.rc = (IF Cardinality(ends) = 0 THEN -1 ELSE -2) /\ g.count = Cardinality(ends)
    BY <1>2, <1>5
  <2>2. \A p \in s .. Bits - n : ~ Clear(byte, p, p + n - 1)
    BY <1>5
  <2>3. IsFiniteSet(ends)
    <3>1. IsFiniteSet(s .. Bits - 1) /\ ends \in SUBSET (s .. Bits - 1)
      BY <1>1, FS_Interval
    <3> QED
      BY <3>1, FS_Subset
  <2>4. CASE ends = {}
    <3>1. g.rc = -1 /\ g.count = 0
      BY <2>1, <2>4, FS_EmptySet
    <3>2. \A p \in s .. Bits - 1 : ~ Clear(byte, p, Bits - 1)
      BY <2>4
    <3> HIDE DEF g, found, ends
    <3> QED
      BY <1>5, <2>2, <3>1, <3>2 DEF g
  <2>5. CASE ends # {}
    <3>1. ends \in SUBSET Nat
      BY <1>1
    <3>2. PICK m \in ends : \A q \in ends : m <= q
      BY <2>5, <3>1, Least
    <3>3. ends = m .. Bits - 1
      <4>1. ASSUME NEW q \in m .. Bits - 1 PROVE q \in ends
        BY <1>1 DEF Clear
      <4> QED
        BY <1>1, <3>2, <4>1
    <3>4. Cardinality(ends) = Bits - m /\ Bits - m > 0 /\ m \in Nat /\ m >= s
      <4>1. m \in s .. Bits - 1
        OBVIOUS
      <4>2. m \in Int /\ Bits - 1 \in Int /\ m <= Bits - 1
        BY <1>1, <4>1
      <4>3. Cardinality(m .. Bits - 1) = (Bits - 1) - m + 1
        BY <4>2, FS_Interval
      <4> HIDE DEF ends
      <4> QED
        BY <1>1, <3>3, <4>1, <4>2, <4>3
    <3>5. g.rc = -2 /\ g.count = Bits - m
      BY <2>1, <3>4
    <3>6. Clear(byte, m, Bits - 1) /\ \A p \in s .. m - 1 : ~ Clear(byte, p, Bits - 1)
      BY <1>1, <3>2, <3>4
    <3>7. Bits - m < n
      <4>1. SUFFICES ASSUME Bits - m >= n PROVE FALSE
        BY <1>1, <1>5, <3>4
      <4>2. m \in s .. Bits - n /\ Clear(byte, m, m + n - 1)
        BY <1>1, <1>5, <3>4, <3>6, <4>1 DEF Clear
      <4> QED
        BY <2>2, <4>2
    <3>8. Bits - (Bits - m) = m
      BY <1>1, <3>4
    <3> HIDE DEF g, found, ends
    <3> QED
      BY <1>1, <1>5, <2>2, <3>4, <3>5, <3>6, <3>7, <3>8 DEF g
  <2> QED
    BY <2>4, <2>5
<1> QED
  BY <1>3, <1>4, <1>5

-----------------------------------------------------------------------------
(* What changes the bitmap *)

LEMMA ByteSetBits ==
  ASSUME NEW s \in Positions, NEW n \in Nat, n > 0, NEW byte \in SUBSET Positions,
         NEW v \in {0, 1}
  PROVE  /\ byte_set_bits(s, n, byte, v) \in SUBSET Positions
         /\ \A p \in Positions :
              p \in byte_set_bits(s, n, byte, v) <=>
                IF p \in s .. s + n - 1 THEN v = 1 ELSE p \in byte
<1> DEFINE mask == s .. Below(s + n, Bits) - 1
<1>1. s \in Nat /\ Bits \in Nat /\ Positions = 0 .. Bits - 1
  BY Numbers DEF Positions
<1>2. mask \subseteq Positions /\ \A p \in Positions : p \in mask <=> p \in s .. s + n - 1
  BY <1>1 DEF Below
<1>3. byte_set_bits(s, n, byte, v) = IF v = 1 THEN byte \cup mask ELSE byte \ mask
  BY DEF byte_set_bits
<1> HIDE DEF mask
<1> QED
  BY <1>2, <1>3

\* A part of one byte.
LEMMA SetPart ==
  ASSUME BitmapType, NEW l \in 0 .. NBytes - 1, NEW s \in Positions, NEW n \in Nat,
         n > 0, s + n <= Bits, NEW v \in {0, 1},
         bm' = [bm EXCEPT ![l] = byte_set_bits(s, n, @, v)]
  PROVE  BitmapType' /\ Ones' = Applied(Ones, l * Bits + s, l * Bits + s + n, v)
<1> DEFINE new == byte_set_bits(s, n, bm[l], v)
<1> DEFINE at == l * Bits + s
<1> DEFINE end == l * Bits + s + n
<1>1. /\ l \in Nat /\ l \in Int /\ Bits \in Nat /\ Bits > 0 /\ s \in Nat /\ l * Bits \in Nat
      /\ NBytes \in Nat /\ NBytes * Bits \in Nat /\ l * Bits + Bits <= NBytes * Bits
  BY Numbers, ByteCount, Further
<1>2. /\ new \in SUBSET Positions
      /\ \A p \in Positions : p \in new <=> IF p \in s .. s + n - 1 THEN v = 1 ELSE p \in bm[l]
  BY ByteSetBits DEF BitmapType
<1>3. bm' = [bm EXCEPT ![l] = new]
  OBVIOUS
<1> HIDE DEF new
<1>4. BitmapType'
  BY <1>2, <1>3 DEF BitmapType
<1>5. ASSUME NEW m \in 0 .. NBytes - 1, NEW p \in Positions
      PROVE  p \in bm'[m] <=> IF m * Bits + p \in at .. end - 1
                              THEN v = 1 ELSE p \in bm[m]
  <2>1. p \in Nat /\ p < Bits /\ m \in Nat /\ m \in Int /\ m * Bits \in Nat
    BY <1>1, Numbers
  <2>2. CASE m = l
    <3>1. bm'[m] = new
      BY <1>3, <2>2 DEF BitmapType
    <3>2. m * Bits + p \in at .. end - 1 <=> p \in s .. s + n - 1
      BY <1>1, <2>1, <2>2
    <3> HIDE DEF at, end
    <3> QED
      BY <1>2, <2>2, <3>1, <3>2
  <2>3. CASE m # l
    <3>1. bm'[m] = bm[m]
      BY <1>3, <2>3 DEF BitmapType
    <3>2. m * Bits + Bits <= l * Bits \/ l * Bits + Bits <= m * Bits
      BY <1>1, <2>1, <2>3, Further
    <3>3. m * Bits + p \notin at .. end - 1
      BY <1>1, <2>1, <3>2
    <3> HIDE DEF at, end
    <3> QED
      BY <3>1, <3>3
  <2> QED
    BY <2>2, <2>3
<1>6. at \in Nat /\ end \in Nat /\ end <= NBytes * Bits
  BY <1>1
<1> HIDE DEF at, end
<1>7. Ones' = Applied(Ones, at, end, v)
  BY <1>4, <1>5, <1>6, Changed
<1> QED
  BY <1>4, <1>7 DEF at, end

\* Whole bytes.
LEMMA SetBytes ==
  ASSUME BitmapType, NEW l \in Nat, NEW k \in Nat, l + k <= NBytes, NEW v \in {0, 1},
         bm' = [m \in DOMAIN bm |->
                  IF m \notin l .. l + k - 1 THEN bm[m]
                  ELSE IF v = 0 THEN {} ELSE Positions]
  PROVE  /\ BitmapType'
         /\ Ones' = Applied(Ones, l * Bits, l * Bits + k * Bits, v)
<1> DEFINE at == l * Bits
<1> DEFINE end == l * Bits + k * Bits
<1>1. /\ Bits \in Nat /\ Bits > 0 /\ l * Bits \in Nat /\ k * Bits \in Nat
      /\ NBytes \in Nat /\ NBytes * Bits \in Nat /\ (l + k) * Bits = l * Bits + k * Bits
      /\ l \in Int /\ l + k \in Int /\ DOMAIN bm = 0 .. NBytes - 1
  BY Numbers, ByteCount DEF BitmapType
<1>2. l * Bits + k * Bits <= NBytes * Bits
  <2>1. l + k = NBytes \/ l + k < NBytes
    BY <1>1
  <2>2. l + k < NBytes => (l + k) * Bits + Bits <= NBytes * Bits
    BY <1>1, Further
  <2> QED
    BY <1>1, <2>1, <2>2
<1>3. BitmapType'
  BY <1>1 DEF BitmapType
<1>4. ASSUME NEW m \in 0 .. NBytes - 1, NEW p \in Positions
      PROVE  p \in bm'[m] <=> IF m * Bits + p \in at .. end - 1
                              THEN v = 1 ELSE p \in bm[m]
  <2>1. p \in Nat /\ p < Bits /\ m \in Nat /\ m \in Int /\ m * Bits \in Nat
    BY <1>1, Numbers
  <2>2. CASE m \in l .. l + k - 1
    <3>1. bm'[m] = IF v = 0 THEN {} ELSE Positions
      BY <1>1, <2>2
    <3>2. l * Bits <= m * Bits /\ m * Bits + Bits <= l * Bits + k * Bits
      <4>1. m = l \/ l < m
        BY <2>2
      <4>2. l < m => l * Bits + Bits <= m * Bits
        BY <1>1, <2>1, Further
      <4>3. m < l + k
        BY <2>2
      <4>4. m * Bits + Bits <= (l + k) * Bits
        BY <1>1, <2>1, <4>3, Further
      <4> QED
        BY <1>1, <2>1, <4>1, <4>2, <4>4
    <3>3. m * Bits + p \in at .. end - 1
      BY <1>1, <2>1, <3>2
    <3> HIDE DEF at, end
    <3> QED
      BY <3>1, <3>3
  <2>3. CASE m \notin l .. l + k - 1
    <3>1. bm'[m] = bm[m]
      BY <1>1, <2>3
    <3>2. m * Bits + Bits <= l * Bits \/ l * Bits + k * Bits <= m * Bits
      <4>1. m < l \/ l + k = m \/ l + k < m
        BY <2>1, <2>3
      <4>2. m < l => m * Bits + Bits <= l * Bits
        BY <1>1, <2>1, Further
      <4>3. l + k < m => (l + k) * Bits + Bits <= m * Bits
        BY <1>1, <2>1, Further
      <4> QED
        BY <1>1, <2>1, <4>1, <4>2, <4>3
    <3>3. m * Bits + p \notin at .. end - 1
      BY <1>1, <2>1, <3>2
    <3> HIDE DEF at, end
    <3> QED
      BY <3>1, <3>3
  <2> QED
    BY <2>2, <2>3
<1>5. at \in Nat /\ end \in Nat /\ end <= NBytes * Bits
  BY <1>1, <1>2
<1> HIDE DEF at, end
<1>6. Ones' = Applied(Ones, at, end, v)
  BY <1>3, <1>4, <1>5, Changed
<1> QED
  BY <1>3, <1>6 DEF at, end

\* bm_set_bit, which bm_set_extent calls for one bit.
LEMMA SetOne ==
  ASSUME BitmapType, NEW a \in Nat, a < Total, NEW v \in {0, 1}, SetBit(a, v)
  PROVE  BitmapType' /\ Ones' = Applied(Ones, a, a + 1, v)
<1> DEFINE l == a \div Bits
<1> DEFINE s == a % Bits
<1>1. /\ l \in Nat /\ s \in Positions /\ a = l * Bits + s /\ Bits \in Nat /\ Bits > 0
      /\ l * Bits \in Nat /\ Total \in Nat
  BY Numbers, DivMod DEF Positions
<1>2. bm' = [bm EXCEPT ![l] = byte_set_bits(s, 1, @, v)]
  BY DEF SetBit
<1> HIDE DEF l, s
<1>3. s \in Nat /\ s + 1 <= Bits
  BY <1>1, Numbers
<1>4. l \in 0 .. NBytes - 1
  BY <1>1, <1>3, ByteInside
<1> DEFINE n == 1
<1>5. n \in Nat /\ n > 0 /\ s + n <= Bits /\ bm' = [bm EXCEPT ![l] = byte_set_bits(s, n, @, v)]
  BY <1>2, <1>3
<1> HIDE DEF n
<1>6. BitmapType' /\ Ones' = Applied(Ones, l * Bits + s, l * Bits + s + n, v)
  BY <1>1, <1>4, <1>5, SetPart
<1> QED
  BY <1>1, <1>6 DEF n

\* Two changes side by side are one, and stay inside the bits there are.
LEMMA AppliedOn ==
  ASSUME NEW S, NEW a \in Nat, NEW b \in Nat, NEW c \in Nat, a <= b, b <= c, NEW v
  PROVE  Applied(Applied(S, a, b, v), b, c, v) = Applied(S, a, c, v)
BY DEF Applied

LEMMA AppliedInside ==
  ASSUME NEW S \in SUBSET (0 .. Total - 1), NEW a \in Nat, NEW b \in Nat, b <= Total, NEW v
  PROVE  Applied(S, a, b, v) \subseteq 0 .. Total - 1
BY Numbers DEF Applied

LEMMA AppliedNone ==
  ASSUME NEW S, NEW a \in Nat, NEW v
  PROVE  Applied(S, a, a, v) = S
BY DEF Applied

-----------------------------------------------------------------------------
(* The first layer: nothing outside the bitmap, and changes are exact *)

Args == [addr : 0 .. Word - 1, n : 0 .. Word - 1, gap : 0 .. Word - 1, v : {0, 1}]
Codes == {-5, -3, -2, -1, 0, 1}

Typed ==
  /\ BitmapType
  /\ Ones \subseteq 0 .. Total - 1
  /\ pc \in {"idle", "head", "body", "tail", "count", "find", "done"}
  /\ op \in {"none", "set_bit", "get_bit", "zero", "fill", "popcount",
             "set_extent", "count", "can_grow", "find"}
  /\ arg \in Args
  /\ frame.loc \in Nat
  /\ rc \in Codes

\* The bits before the position a call has come to are changed, the pending ones
\* are those after it.
ExtentInv ==
  pc \in {"head", "body", "tail"} =>
    /\ op = "set_extent"
    /\ frame \in [loc : Nat, pending : Nat]
    /\ arg.addr + arg.n <= Total
    /\ frame.pending > 0
    /\ pc = "head" => /\ frame.loc * Bits + (arg.addr % Bits) = arg.addr
                      /\ frame.pending = arg.n
                      /\ Ones = old
    /\ pc # "head" => /\ arg.addr <= frame.loc * Bits
                      /\ frame.loc * Bits + frame.pending = arg.addr + arg.n
                      /\ Ones = Applied(old, arg.addr, frame.loc * Bits, arg.v)
    /\ pc = "tail" => frame.pending < Bits

\* The bits still to be counted are in the bitmap.
CountInv ==
  pc = "count" =>
    /\ frame \in [loc : Nat, skip : Positions, acc : Nat, pending : Nat, n : Nat,
                  v : {0, 1}, for : {"count", "zeros", "ones", "rest"}]
    /\ op = IF frame.for = "count" THEN "count" ELSE "can_grow"
    /\ arg.addr + arg.n <= Total
    /\ frame.n <= arg.n
    /\ frame.for # "rest" => frame.n = arg.n
    /\ frame.pending > 0
    /\ frame.acc + frame.pending = frame.n
    /\ frame.skip # 0 => frame.acc = 0
    /\ frame.loc * Bits + frame.skip + frame.pending <= Total

\* The bits still to be searched are in the bitmap.  They hold what is missing
\* of a run that was begun, unless that is a multiple of 2^32 and the search
\* begins anew.
FindInv ==
  pc = "find" =>
    /\ frame \in [loc : Nat, skip : Positions, count : Nat, need : Nat,
                  more : BOOLEAN, found : Nat]
    /\ op = "find"
    /\ arg.gap > 0
    /\ frame.count > 0
    /\ frame.loc * Bits + frame.skip + frame.count <= Total
    /\ frame.need > 0 /\ frame.need <= arg.gap
    /\ frame.more => /\ frame.skip = 0
                     /\ frame.need <= frame.count \/ ToInt(frame.need) <= 0

SafeInv == Typed /\ ExtentInv /\ CountInv /\ FindInv /\ ExtentExact

LEMMA NoArgType ==
  /\ NoArg \in Args
  /\ \A a \in 0 .. Word - 1, n \in 0 .. Word - 1, v \in {0, 1}, g \in 0 .. Word - 1 :
       /\ [NoArg EXCEPT !.addr = a, !.n = n, !.v = v] \in Args
       /\ [NoArg EXCEPT !.addr = a, !.n = n] \in Args
       /\ [NoArg EXCEPT !.addr = a, !.n = n, !.gap = g] \in Args
       /\ [NoArg EXCEPT !.addr = a] \in Args
<1>1. 0 \in 0 .. Word - 1
  BY Numbers
<1> QED
  BY <1>1 DEF NoArg, Args

\* The range a call is given is accepted just if it lies in the bitmap.
LEMMA RangeFits ==
  ASSUME NEW a \in Nat, NEW n \in Nat, a + n < Word
  PROVE  ~ OutOfRange(a, n) <=> a < Total /\ a + n <= Total
BY Numbers, Conversions DEF OutOfRange

LEMMA InitSafe == Init => SafeInv
<1> SUFFICES ASSUME Init PROVE SafeInv
  OBVIOUS
<1>1. BitmapType
  BY DEF Init, BitmapType
<1>2. Ones = {}
  <2>1. ASSUME NEW b \in Ones PROVE FALSE
    <3>1. PICK l \in 0 .. NBytes - 1, p \in Positions : b = l * Bits + p
      BY BitIn DEF Ones
    <3>2. p \in bm[l]
      BY <2>1, <3>1, OnesAt, OnesNow
    <3> QED
      BY <3>2 DEF Init
  <2> QED
    BY <2>1
<1>3. Typed
  BY <1>1, <1>2, NoArgType DEF Init, Typed, NoFrame, Codes
<1> QED
  BY <1>3 DEF Init, SafeInv, ExtentInv, CountInv, FindInv, ExtentExact

\* A call that returns at once.
LEMMA CallDone ==
  ASSUME Typed, NEW f, NEW a \in Args, NEW r \in Codes, NEW o, Call(f, a), Finish(r, o),
         f \in {"set_bit", "get_bit", "zero", "fill", "popcount",
                "set_extent", "count", "can_grow", "find"},
         BitmapType', Ones' \subseteq 0 .. Total - 1,
         f \in {"set_extent", "set_bit"} =>
           /\ r = IF a.addr .. a.addr + a.n - 1 \subseteq 0 .. Total - 1 /\ a.addr < Total
                  THEN 0 ELSE -1
           /\ Ones' = IF r = -1 THEN Ones ELSE Applied(Ones, a.addr, a.addr + a.n, a.v)
  PROVE  SafeInv'
<1>1. /\ pc' = "done" /\ op' = f /\ arg' = a /\ old' = Ones /\ rc' = r /\ frame' = NoFrame
  BY DEF Call, Finish
<1>2. Typed'
  BY <1>1 DEF Typed, NoFrame
<1>3. ExtentInv' /\ CountInv' /\ FindInv'
  BY <1>1 DEF ExtentInv, CountInv, FindInv
<1>4. ExtentExact'
  <2> SUFFICES ASSUME f \in {"set_extent", "set_bit"} PROVE ExtentExact'
    BY <1>1 DEF ExtentExact
  <2> DEFINE extent == a.addr .. a.addr + a.n - 1
  <2>1. Applied(Ones, a.addr, a.addr + a.n, a.v) =
          IF a.v = 1 THEN Ones \cup extent ELSE Ones \ extent
    <3>1. a.addr \in Nat /\ a.n \in Nat
      BY DEF Args
    <3>2. a.addr + a.n - 1 = (a.addr + a.n) - 1
      BY <3>1
    <3> QED
      BY <3>2 DEF Applied
  <2> HIDE DEF extent
  <2>2. /\ rc' = IF extent \subseteq 0 .. Total - 1 /\ a.addr < Total THEN 0 ELSE -1
        /\ Ones' = IF rc' = -1 THEN old'
                   ELSE IF a.v = 1 THEN old' \cup extent ELSE old' \ extent
    BY <1>1, <2>1 DEF extent
  <2> QED
    BY <1>1, <2>2 DEF ExtentExact, extent
<1> QED
  BY <1>2, <1>3, <1>4 DEF SafeInv

\* A call that reads is at its end.
LEMMA ReadDone ==
  ASSUME SafeInv, NEW r \in Codes, NEW o, Finish(r, o), UNCHANGED <<bm, op, arg, old>>,
         op \notin {"set_extent", "set_bit"}
  PROVE  SafeInv'
<1>1. pc' = "done" /\ rc' = r /\ frame' = NoFrame
  BY DEF Finish
<1>2. Ones' = Ones
  BY DEF Ones
<1>3. Typed'
  BY <1>1, <1>2 DEF SafeInv, Typed, NoFrame, BitmapType
<1> QED
  BY <1>1, <1>3 DEF SafeInv, ExtentInv, CountInv, FindInv, ExtentExact

LEMMA Same == bm' = bm => Ones' = Ones /\ (BitmapType => BitmapType')
BY DEF Ones, BitmapType

LEMMA SetBitSafe ==
  ASSUME SafeInv, NEW a \in 0 .. Word - 1, NEW v \in {0, 1}, bm_set_bit(a, v)
  PROVE  SafeInv'
<1> DEFINE b == [NoArg EXCEPT !.addr = a, !.n = 1, !.v = v]
<1>0. /\ a \in Nat /\ Total \in Nat /\ 1 \in 0 .. Word - 1 /\ -1 \in Codes /\ 0 \in Codes
  BY Numbers DEF Codes
<1>1. b \in Args /\ b.addr = a /\ b.n = 1 /\ b.v = v
  BY <1>0, NoArgType DEF NoArg
<1>2. Typed /\ BitmapType /\ Ones \subseteq 0 .. Total - 1 /\ Call("set_bit", b)
  BY DEF SafeInv, Typed, bm_set_bit
<1> HIDE DEF b
<1>3. CASE a >= Total /\ Finish(-1, 0) /\ UNCHANGED bm
  <2>1. BitmapType' /\ Ones' = Ones /\ ~ (b.addr < Total)
    BY <1>0, <1>1, <1>2, <1>3, Same
  <2> QED
    BY <1>0, <1>1, <1>2, <1>3, <2>1, CallDone
<1>4. CASE a < Total /\ SetBit(a, v) /\ Finish(0, 0)
  <2>1. BitmapType' /\ Ones' = Applied(Ones, a, a + 1, v)
    BY <1>0, <1>2, <1>4, SetOne
  <2>2. Ones' \subseteq 0 .. Total - 1
    BY <1>0, <1>2, <1>4, <2>1, AppliedInside
  <2>3. a .. a + 1 - 1 \subseteq 0 .. Total - 1
    BY <1>0, <1>4
  <2> QED
    BY <1>0, <1>1, <1>2, <1>4, <2>1, <2>2, <2>3, CallDone
<1> QED
  BY <1>3, <1>4 DEF bm_set_bit

LEMMA GetBitSafe ==
  ASSUME SafeInv, NEW a \in 0 .. Word - 1, bm_get_bit(a)
  PROVE  SafeInv'
<1> DEFINE b == [NoArg EXCEPT !.addr = a]
<1>1. b \in Args /\ {-1, 0, 1} \subseteq Codes
  BY NoArgType DEF Codes
<1>2. /\ Typed /\ BitmapType /\ Ones \subseteq 0 .. Total - 1 /\ Call("get_bit", b)
      /\ BitmapType' /\ Ones' = Ones
  BY Same DEF SafeInv, Typed, bm_get_bit
<1>3. \E r \in Codes : Finish(r, 0)
  BY <1>1 DEF bm_get_bit
<1> HIDE DEF b
<1> QED
  BY <1>1, <1>2, <1>3, CallDone

LEMMA WholeSafe ==
  ASSUME SafeInv, bm_zero \/ bm_fill \/ bm_popcount
  PROVE  SafeInv'
<1>0. NoArg \in Args /\ 0 \in Codes /\ Typed /\ BitmapType
  BY NoArgType DEF Codes, SafeInv, Typed
<1>1. CASE bm_zero \/ bm_fill
  <2>1. BitmapType'
    BY <1>0, <1>1, Numbers DEF bm_zero, bm_fill, BitmapType, Filled
  <2>2. ASSUME NEW b \in Ones' PROVE b \in 0 .. Total - 1
    <3>1. PICK l \in 0 .. NBytes - 1, p \in Positions : b = l * Bits + p
      BY <2>2, BitIn, OnesNow DEF OnesOf
    <3>2. p \in bm'[l]
      BY <2>2, <3>1, OnesAt, OnesNow
    <3>3. l * Bits + p < Total
      BY <1>0, <1>1, <3>2 DEF bm_zero, bm_fill, BitmapType, Filled
    <3> QED
      BY <3>1, <3>3, Numbers
  <2> QED
    BY <1>0, <1>1, <2>1, <2>2, CallDone DEF bm_zero, bm_fill
<1>2. CASE bm_popcount
  <2>1. BitmapType' /\ Ones' \subseteq 0 .. Total - 1
    BY <1>0, <1>2, Same DEF bm_popcount, Typed
  <2> QED
    BY <1>0, <1>2, <2>1, CallDone DEF bm_popcount
<1> QED
  BY <1>1, <1>2

LEMMA ReturnSafe ==
  ASSUME SafeInv, Return
  PROVE  SafeInv'
<1>1. Ones' = Ones /\ BitmapType'
  BY Same DEF SafeInv, Typed, Return
<1>2. Typed'
  BY <1>1, NoArgType DEF SafeInv, Typed, Return, Codes
<1> QED
  BY <1>2 DEF SafeInv, Return, ExtentInv, CountInv, FindInv, ExtentExact

-----------------------------------------------------------------------------
(* bm_set_extent *)

LEMMA SetExtentSafe ==
  ASSUME SafeInv, NEW a \in 0 .. Word - 1, NEW n \in 0 .. Word - 1, a + n < Word,
         NEW v \in {0, 1}, bm_set_extent(a, n, v)
  PROVE  SafeInv'
<1> DEFINE b == [NoArg EXCEPT !.addr = a, !.n = n, !.v = v]
<1>0. /\ a \in Nat /\ n \in Nat /\ Total \in Nat /\ -1 \in Codes /\ 0 \in Codes
  BY Numbers DEF Codes
<1>1. b \in Args /\ b.addr = a /\ b.n = n /\ b.v = v
  BY <1>0, NoArgType DEF NoArg
<1>2. Typed /\ BitmapType /\ Ones \subseteq 0 .. Total - 1 /\ Call("set_extent", b)
  BY DEF SafeInv, Typed, bm_set_extent
<1>3. /\ ~ OutOfRange(a, n) <=> a < Total /\ a + n <= Total
      /\ a < Total /\ a + n <= Total => a .. a + n - 1 \subseteq 0 .. Total - 1
  BY <1>0, RangeFits
<1> HIDE DEF b
<1>4. CASE OutOfRange(a, n) /\ Finish(-1, 0) /\ UNCHANGED bm
  <2>1. BitmapType' /\ Ones' = Ones
    BY <1>2, <1>4, Same
  <2>2. ~ (a .. a + n - 1 \subseteq 0 .. Total - 1 /\ a < Total)
    <3>1. SUFFICES ASSUME a < Total, a + n > Total PROVE a + n - 1 \in a .. a + n - 1 /\ a + n - 1 \notin 0 .. Total - 1
      BY <1>0, <1>3, <1>4
    <3> QED
      BY <1>0, <3>1
  <2> QED
    BY <1>0, <1>1, <1>2, <1>4, <2>1, <2>2, CallDone
<1>5. CASE ~ OutOfRange(a, n) /\ n = 0 /\ Finish(0, 0) /\ UNCHANGED bm
  <2>1. BitmapType' /\ Ones' = Ones /\ Applied(Ones, a, a + n, v) = Ones
    BY <1>0, <1>2, <1>5, Same, AppliedNone
  <2> QED
    BY <1>0, <1>1, <1>2, <1>3, <1>5, <2>1, CallDone
<1>6. CASE ~ OutOfRange(a, n) /\ n = 1 /\ SetBit(a, v) /\ Finish(0, 0)
  <2>1. BitmapType' /\ Ones' = Applied(Ones, a, a + n, v)
    BY <1>0, <1>2, <1>3, <1>6, SetOne
  <2>2. Ones' \subseteq 0 .. Total - 1
    BY <1>0, <1>2, <1>3, <1>6, <2>1, AppliedInside
  <2> QED
    BY <1>0, <1>1, <1>2, <1>3, <1>6, <2>1, <2>2, CallDone
<1>7. CASE /\ ~ OutOfRange(a, n) /\ n > 1
           /\ Goto(IF a % Bits = 0 THEN "body" ELSE "head", [loc |-> a \div Bits, pending |-> n])
           /\ UNCHANGED bm
  <2> DEFINE l == a \div Bits
  <2> DEFINE s == a % Bits
  <2>1. l \in Nat /\ s \in Nat /\ a = l * Bits + s /\ l * Bits \in Nat
    BY <1>0, Numbers, DivMod
  <2>2. /\ BitmapType' /\ Ones' = Ones /\ op' = "set_extent" /\ arg' = b /\ old' = Ones
        /\ rc' = rc /\ frame' = [loc |-> l, pending |-> n]
        /\ pc' = IF s = 0 THEN "body" ELSE "head"
    BY <1>2, <1>7, Same DEF Call, Goto
  <2> HIDE DEF l, s
  <2>3. Typed'
    BY <1>1, <1>2, <2>1, <2>2 DEF Typed
  <2>4. ExtentInv'
    <3>1. CASE s = 0
      <4>1. Ones' = Applied(old', arg'.addr, frame'.loc * Bits, arg'.v)
        BY <1>0, <1>1, <2>1, <2>2, <3>1, AppliedNone
      <4> QED
        BY <1>0, <1>1, <1>3, <1>7, <2>1, <2>2, <3>1, <4>1 DEF ExtentInv
    <3>2. CASE s # 0
      BY <1>0, <1>1, <1>3, <1>7, <2>1, <2>2, <3>2 DEF ExtentInv, s
    <3> QED
      BY <3>1, <3>2
  <2> QED
    BY <2>2, <2>3, <2>4 DEF SafeInv, CountInv, FindInv, ExtentExact
<1> QED
  BY <1>4, <1>5, <1>6, <1>7 DEF bm_set_extent

\* An extent is changed to its end.
LEMMA ExtentDone ==
  ASSUME SafeInv, pc \in {"head", "body", "tail"}, Finish(0, 0), UNCHANGED <<op, arg, old>>,
         BitmapType', Ones' = Applied(old, arg.addr, arg.addr + arg.n, arg.v),
         Ones' \subseteq 0 .. Total - 1
  PROVE  SafeInv'
<1>1. /\ pc' = "done" /\ rc' = 0 /\ frame' = NoFrame /\ op = "set_extent"
      /\ arg \in Args /\ arg.addr \in Nat /\ arg.n \in Nat /\ Total \in Nat
      /\ arg.addr + arg.n <= Total
  BY Numbers DEF Finish, SafeInv, Typed, Args, ExtentInv
<1>2. Typed'
  BY <1>1 DEF SafeInv, Typed, NoFrame, Codes
<1>3. ExtentExact'
  <2> DEFINE extent == arg.addr .. arg.addr + arg.n - 1
  <2>1. Ones' = IF arg.v = 1 THEN old \cup extent ELSE old \ extent
    <3>1. arg.addr + arg.n - 1 = (arg.addr + arg.n) - 1
      BY <1>1
    <3> QED
      BY <3>1 DEF Applied
  <2>2. extent \subseteq 0 .. Total - 1 /\ arg.addr < Total
    <3>1. arg.n > 0
      BY <1>1, Numbers DEF SafeInv, ExtentInv
    <3> QED
      BY <1>1, <3>1
  <2> HIDE DEF extent
  <2>3. /\ rc' = IF extent \subseteq 0 .. Total - 1 /\ arg.addr < Total THEN 0 ELSE -1
        /\ Ones' = IF rc' = -1 THEN old ELSE IF arg.v = 1 THEN old \cup extent ELSE old \ extent
    <3>1. rc' = 0 /\ rc' # -1
      BY <1>1
    <3> QED
      BY <2>1, <2>2, <3>1
  <2>4. op' = op /\ arg' = arg /\ old' = old
    OBVIOUS
  <2> QED
    BY <2>3, <2>4 DEF ExtentExact, extent
<1> QED
  BY <1>1, <1>2, <1>3 DEF SafeInv, ExtentInv, CountInv, FindInv

LEMMA ExtentHeadSafe ==
  ASSUME SafeInv, ExtentHead
  PROVE  SafeInv'
<1> DEFINE s == arg.addr % Bits
<1> DEFINE k == AtStart(s, arg.n)
<1> DEFINE l == frame.loc
<1>1. /\ pc = "head" /\ op = "set_extent" /\ arg \in Args /\ arg.v \in {0, 1}
      /\ arg.addr \in Nat /\ arg.n \in Nat /\ l \in Nat /\ l * Bits \in Nat
      /\ arg.addr + arg.n <= Total /\ arg.n > 0 /\ frame.pending = arg.n
      /\ l * Bits + s = arg.addr /\ Ones = old
      /\ BitmapType /\ Ones \subseteq 0 .. Total - 1
      /\ Total \in Nat /\ Bits \in Nat /\ Bits > 0
  BY Numbers DEF SafeInv, Typed, Args, ExtentInv, ExtentHead
<1>2. s \in Positions /\ s \in Nat /\ s < Bits
  BY <1>1, DivMod DEF Positions
<1>3. /\ bm' = [bm EXCEPT ![l] = byte_set_bits(s, k, @, arg.v)]
      /\ op' = op /\ arg' = arg /\ old' = old
      /\ IF arg.n = k
         THEN Finish(0, 0)
         ELSE Goto("body", [loc |-> l + 1, pending |-> arg.n - k])
  BY <1>1 DEF ExtentHead
<1> HIDE DEF s
<1>4. k \in Nat /\ k > 0 /\ s + k <= Bits /\ k <= arg.n /\ (k # arg.n => s + k = Bits)
  BY <1>1, <1>2 DEF AtStart
<1> HIDE DEF k, l
<1>5. l \in 0 .. NBytes - 1
  BY <1>1, <1>2, ByteInside
<1>6. BitmapType' /\ Ones' = Applied(old, arg.addr, arg.addr + k, arg.v)
  <2>1. BitmapType' /\ Ones' = Applied(Ones, l * Bits + s, l * Bits + s + k, arg.v)
    BY <1>1, <1>2, <1>3, <1>4, <1>5, SetPart
  <2> QED
    BY <1>1, <2>1
<1>7. Ones' \subseteq 0 .. Total - 1
  BY <1>1, <1>4, <1>6, AppliedInside
<1>8. CASE arg.n = k
  BY <1>1, <1>3, <1>6, <1>7, <1>8, ExtentDone
<1>9. CASE arg.n # k
  <2>1. /\ pc' = "body" /\ frame' = [loc |-> l + 1, pending |-> arg.n - k] /\ rc' = rc
    BY <1>3, <1>9 DEF Goto
  <2>2. Typed'
    BY <1>1, <1>3, <1>6, <1>7, <2>1 DEF SafeInv, Typed
  <2>3. (l + 1) * Bits = arg.addr + k
    <3>1. (l + 1) * Bits = l * Bits + Bits
      BY <1>1
    <3> QED
      BY <1>1, <1>2, <1>4, <1>9, <3>1
  <2>4. ExtentInv'
    <3>1. Ones' = Applied(old', arg'.addr, frame'.loc * Bits, arg'.v)
      BY <1>3, <1>6, <2>1, <2>3
    <3> QED
      BY <1>1, <1>3, <1>4, <1>9, <2>1, <2>3, <3>1 DEF ExtentInv
  <2> QED
    BY <2>1, <2>2, <2>4 DEF SafeInv, CountInv, FindInv, ExtentExact
<1> QED
  BY <1>8, <1>9

\* The whole bytes of a range are bytes of the bitmap.
LEMMA BytesInside ==
  ASSUME NEW l \in Nat, NEW n \in Nat, l * Bits + n <= Total
  PROVE  l + n \div Bits <= NBytes
<1> DEFINE k == n \div Bits
<1>1. /\ Bits \in Nat /\ Bits > 0 /\ Total \in Nat /\ l * Bits \in Nat
      /\ NBytes \in Nat /\ NBytes * Bits \in Nat /\ Total <= NBytes * Bits
  BY Numbers, ByteCount
<1>2. k \in Nat /\ n % Bits \in Nat /\ n = k * Bits + (n % Bits)
  BY <1>1, DivMod
<1> HIDE DEF k
<1>3. (l + k) * Bits = l * Bits + k * Bits /\ k * Bits \in Nat /\ l + k \in Int
  BY <1>1, <1>2
<1>4. NBytes < l + k => NBytes * Bits + Bits <= (l + k) * Bits
  BY <1>1, <1>3, Further
<1>5. l + k <= NBytes
  BY <1>1, <1>2, <1>3, <1>4
<1> QED
  BY <1>5 DEF k

LEMMA ExtentBodySafe ==
  ASSUME SafeInv, ExtentBody
  PROVE  SafeInv'
<1> DEFINE l == frame.loc
<1> DEFINE k == frame.pending \div Bits
<1> DEFINE end == arg.addr + arg.n
<1>1. /\ pc = "body" /\ op = "set_extent" /\ arg \in Args /\ arg.v \in {0, 1}
      /\ arg.addr \in Nat /\ arg.n \in Nat /\ l \in Nat /\ l * Bits \in Nat
      /\ end <= Total /\ frame.pending \in Nat /\ frame.pending > 0
      /\ arg.addr <= l * Bits /\ l * Bits + frame.pending = end
      /\ Ones = Applied(old, arg.addr, l * Bits, arg.v)
      /\ BitmapType /\ Ones \subseteq 0 .. Total - 1
      /\ Total \in Nat /\ Bits \in Nat /\ Bits > 0
  BY Numbers DEF SafeInv, Typed, Args, ExtentInv, ExtentBody
<1>2. /\ k \in Nat /\ k * Bits \in Nat /\ k * Bits <= frame.pending
      /\ frame.pending - k * Bits \in Nat /\ frame.pending - k * Bits < Bits
  <2>1. k \in Nat /\ frame.pending % Bits \in 0 .. Bits - 1
        /\ frame.pending = k * Bits + (frame.pending % Bits)
    BY <1>1, DivMod
  <2> HIDE DEF k
  <2>2. k * Bits \in Nat
    BY <1>1, <2>1
  <2> QED
    BY <1>1, <2>1, <2>2
<1>3. /\ bm' = [m \in DOMAIN bm |->
                  IF m \notin l .. l + k - 1 THEN bm[m]
                  ELSE IF arg.v = 0 THEN {} ELSE Positions]
      /\ op' = op /\ arg' = arg /\ old' = old
      /\ IF frame.pending = k * Bits
         THEN Finish(0, 0)
         ELSE Goto("tail", [loc |-> l + k, pending |-> frame.pending - k * Bits])
  BY DEF ExtentBody
<1> HIDE DEF k, l
<1>4. l + k <= NBytes
  BY <1>1, BytesInside DEF k
<1>5. BitmapType' /\ Ones' = Applied(old, arg.addr, l * Bits + k * Bits, arg.v)
  <2>1. BitmapType' /\ Ones' = Applied(Ones, l * Bits, l * Bits + k * Bits, arg.v)
    BY <1>1, <1>2, <1>3, <1>4, SetBytes
  <2> QED
    BY <1>1, <1>2, <2>1, AppliedOn
<1>6. Ones' \subseteq 0 .. Total - 1
  <2>1. Ones' = Applied(Ones, l * Bits, l * Bits + k * Bits, arg.v)
    BY <1>1, <1>2, <1>3, <1>4, SetBytes
  <2> QED
    BY <1>1, <1>2, <2>1, AppliedInside
<1>7. CASE frame.pending = k * Bits
  BY <1>1, <1>3, <1>4, <1>5, <1>6, <1>7, ExtentDone DEF k, l
<1>8. CASE frame.pending # k * Bits
  <2>1. /\ pc' = "tail" /\ frame' = [loc |-> l + k, pending |-> frame.pending - k * Bits]
        /\ rc' = rc
    BY <1>3, <1>8 DEF Goto
  <2>2. Typed'
    BY <1>1, <1>2, <1>3, <1>5, <1>6, <2>1 DEF SafeInv, Typed
  <2>3. (l + k) * Bits = l * Bits + k * Bits
    BY <1>1, <1>2
  <2>4. ExtentInv'
    <3>1. Ones' = Applied(old', arg'.addr, frame'.loc * Bits, arg'.v)
      BY <1>3, <1>5, <2>1, <2>3
    <3>2. frame' \in [loc : Nat, pending : Nat]
      BY <1>1, <1>2, <2>1
    <3> HIDE DEF end
    <3>3. /\ arg'.addr <= frame'.loc * Bits /\ frame'.loc * Bits + frame'.pending = end
          /\ frame'.pending > 0 /\ frame'.pending < Bits
      BY <1>1, <1>2, <1>3, <1>8, <2>1, <2>3
    <3> QED
      BY <1>1, <1>3, <2>1, <3>1, <3>2, <3>3 DEF ExtentInv, end
  <2> QED
    BY <2>1, <2>2, <2>4 DEF SafeInv, CountInv, FindInv, ExtentExact
<1> QED
  BY <1>7, <1>8

LEMMA ExtentTailSafe ==
  ASSUME SafeInv, ExtentTail
  PROVE  SafeInv'
<1> DEFINE l == frame.loc
<1> DEFINE k == frame.pending
<1>1. /\ pc = "tail" /\ op = "set_extent" /\ arg \in Args /\ arg.v \in {0, 1}
      /\ arg.addr \in Nat /\ arg.n \in Nat /\ l \in Nat /\ l * Bits \in Nat
      /\ arg.addr + arg.n <= Total /\ k \in Nat /\ k > 0 /\ k < Bits
      /\ arg.addr <= l * Bits /\ l * Bits + k = arg.addr + arg.n
      /\ Ones = Applied(old, arg.addr, l * Bits, arg.v)
      /\ BitmapType /\ Ones \subseteq 0 .. Total - 1
      /\ Total \in Nat /\ Bits \in Nat /\ Bits > 0
  BY Numbers DEF SafeInv, Typed, Args, ExtentInv, ExtentTail
<1>2. /\ bm' = [bm EXCEPT ![l] = byte_set_bits(0, k, @, arg.v)] /\ Finish(0, 0)
      /\ op' = op /\ arg' = arg /\ old' = old
  BY DEF ExtentTail
<1> HIDE DEF k, l
<1>3. l \in 0 .. NBytes - 1
  BY <1>1, ByteInside
<1>4. BitmapType' /\ Ones' = Applied(Ones, l * Bits, l * Bits + k, arg.v)
  <2> DEFINE s == 0
  <2>1. s \in Positions /\ s + k <= Bits /\ bm' = [bm EXCEPT ![l] = byte_set_bits(s, k, @, arg.v)]
    BY <1>1, <1>2, Numbers
  <2> HIDE DEF s
  <2>2. BitmapType' /\ Ones' = Applied(Ones, l * Bits + s, l * Bits + s + k, arg.v)
    BY <1>1, <1>3, <2>1, SetPart
  <2>3. l * Bits + s = l * Bits
    BY <1>1 DEF s
  <2> QED
    BY <2>2, <2>3
<1>5. Ones' = Applied(old, arg.addr, arg.addr + arg.n, arg.v)
  BY <1>1, <1>4, AppliedOn
<1>6. Ones' \subseteq 0 .. Total - 1
  BY <1>1, <1>4, AppliedInside
<1> QED
  BY <1>1, <1>2, <1>4, <1>5, <1>6, ExtentDone

-----------------------------------------------------------------------------
(* bm_count and bm_extent_can_grow *)

\* A count of bits of the bitmap begins.
LEMMA CountBegun ==
  ASSUME BitmapType', Ones' \subseteq 0 .. Total - 1, arg' \in Args, rc' \in Codes,
         NEW a \in Nat, NEW n \in Nat, n > 0, a + n <= Total, NEW v \in {0, 1},
         NEW for \in {"count", "zeros", "ones", "rest"}, BeginCount(a, n, v, for),
         op' = IF for = "count" THEN "count" ELSE "can_grow",
         arg'.addr + arg'.n <= Total, n <= arg'.n, for # "rest" => n = arg'.n
  PROVE  SafeInv'
<1> DEFINE l == a \div Bits
<1> DEFINE s == a % Bits
<1>1. l \in Nat /\ s \in Positions /\ a = l * Bits + s /\ l * Bits \in Nat
  BY Numbers, DivMod DEF Positions
<1>2. /\ pc' = "count"
      /\ frame' = [loc |-> l, skip |-> s, acc |-> 0, pending |-> n, n |-> n, v |-> v,
                   for |-> for]
  BY DEF BeginCount, Goto
<1> HIDE DEF l, s
<1>3. Typed'
  BY <1>1, <1>2 DEF Typed
<1>4. CountInv'
  <2>1. frame' \in [loc : Nat, skip : Positions, acc : Nat, pending : Nat, n : Nat,
                    v : {0, 1}, for : {"count", "zeros", "ones", "rest"}]
    BY <1>1, <1>2
  <2>2. frame'.acc + frame'.pending = frame'.n /\ frame'.acc = 0 /\ frame'.pending > 0
    BY <1>2
  <2>3. frame'.loc * Bits + frame'.skip + frame'.pending <= Total
    BY <1>1, <1>2
  <2> QED
    BY <1>2, <2>1, <2>2, <2>3 DEF CountInv
<1> QED
  BY <1>2, <1>3, <1>4 DEF SafeInv, ExtentInv, FindInv, ExtentExact

LEMMA CountCallSafe ==
  ASSUME SafeInv, NEW a \in 0 .. Word - 1, NEW n \in 0 .. Word - 1, a + n < Word,
         NEW v \in {0, 1}, bm_count(a, n, v)
  PROVE  SafeInv'
<1> DEFINE b == [NoArg EXCEPT !.addr = a, !.n = n, !.v = v]
<1>0. /\ a \in Nat /\ n \in Nat /\ Total \in Nat /\ -1 \in Codes /\ 0 \in Codes
  BY Numbers DEF Codes
<1>1. b \in Args /\ b.addr = a /\ b.n = n
  BY <1>0, NoArgType DEF NoArg
<1>2. /\ Typed /\ BitmapType /\ Ones \subseteq 0 .. Total - 1 /\ Call("count", b)
      /\ BitmapType' /\ Ones' = Ones
  BY Same DEF SafeInv, Typed, bm_count
<1> HIDE DEF b
<1>3. CASE \E r \in {-1, 0} : Finish(r, 0)
  <2>1. PICK r \in {-1, 0} : Finish(r, 0)
    BY <1>3
  <2>2. r \in Codes
    BY <1>0
  <2> QED
    BY <1>1, <1>2, <2>1, <2>2, CallDone
<1>4. CASE ~ OutOfRange(a, n) /\ n > 0 /\ BeginCount(a, n, v, "count")
  <2>1. a + n <= Total
    BY <1>0, <1>4, RangeFits
  <2>2. op' = "count" /\ arg' = b /\ rc' = rc /\ rc \in Codes
    BY <1>2, <1>4 DEF Call, BeginCount, Goto, Typed
  <2> QED
    BY <1>0, <1>1, <1>2, <1>4, <2>1, <2>2, CountBegun
<1> QED
  BY <1>3, <1>4 DEF bm_count

LEMMA CanGrowSafe ==
  ASSUME SafeInv, NEW a \in 0 .. Word - 1, NEW n \in 0 .. Word - 1, a + n < Word,
         bm_extent_can_grow(a, n)
  PROVE  SafeInv'
<1> DEFINE b == [NoArg EXCEPT !.addr = a, !.n = n]
<1>0. /\ a \in Nat /\ n \in Nat /\ Total \in Nat /\ -1 \in Codes /\ 0 \in 0 .. Word - 1
  BY Numbers DEF Codes
<1>1. b \in Args /\ b.addr = a /\ b.n = n
  BY <1>0, NoArgType DEF NoArg
<1>2. /\ Typed /\ BitmapType /\ Ones \subseteq 0 .. Total - 1 /\ Call("can_grow", b)
      /\ BitmapType' /\ Ones' = Ones
  BY Same DEF SafeInv, Typed, bm_extent_can_grow
<1> HIDE DEF b
<1>3. CASE Finish(-1, 0)
  BY <1>0, <1>1, <1>2, <1>3, CallDone
<1>4. CASE ~ OutOfRange(a, n) /\ n > 0 /\ BeginCount(a, n, 0, "zeros")
  <2>1. a + n <= Total
    BY <1>0, <1>4, RangeFits
  <2>2. op' = "can_grow" /\ arg' = b /\ rc' = rc /\ rc \in Codes
    BY <1>2, <1>4 DEF Call, BeginCount, Goto, Typed
  <2> QED
    BY <1>0, <1>1, <1>2, <1>4, <2>1, <2>2, CountBegun
<1> QED
  BY <1>3, <1>4 DEF bm_extent_can_grow

\* bm_count returns: its caller, or bm_extent_can_grow with the next part.
LEMMA CountedSafe ==
  ASSUME SafeInv, pc = "count", NEW c \in Nat, c <= frame.n, Counted(c),
         UNCHANGED <<bm, op, arg, old>>
  PROVE  SafeInv'
<1>1. /\ arg \in Args /\ arg.addr \in Nat /\ arg.n \in Nat /\ rc \in Codes
      /\ arg.addr + arg.n <= Total /\ frame.n <= arg.n /\ frame.n \in Nat
      /\ frame.pending \in Nat /\ frame.pending > 0 /\ frame.pending <= frame.n
      /\ frame.for # "rest" => frame.n = arg.n
      /\ op = IF frame.for = "count" THEN "count" ELSE "can_grow"
      /\ BitmapType' /\ Ones' \subseteq 0 .. Total - 1
  <2>1. /\ frame \in [loc : Nat, skip : Positions, acc : Nat, pending : Nat, n : Nat,
                       v : {0, 1}, for : {"count", "zeros", "ones", "rest"}]
        /\ frame.acc + frame.pending = frame.n /\ frame.pending > 0
    BY DEF SafeInv, CountInv
  <2>2. frame.n \in Nat /\ frame.pending \in Nat /\ frame.pending <= frame.n
    BY <2>1
  <2>3. arg \in Args /\ arg.addr \in Nat /\ arg.n \in Nat
    BY DEF SafeInv, Typed, Args
  <2>4. rc \in Codes /\ BitmapType' /\ Ones' \subseteq 0 .. Total - 1
    BY Same DEF SafeInv, Typed
  <2>5. /\ arg.addr + arg.n <= Total /\ frame.n <= arg.n
        /\ frame.for # "rest" => frame.n = arg.n
        /\ op = IF frame.for = "count" THEN "count" ELSE "can_grow"
    BY DEF SafeInv, CountInv
  <2> QED
    BY <2>1, <2>2, <2>3, <2>4, <2>5
<1>2. {-5, -3, -2, 0} \subseteq Codes /\ op \notin {"set_extent", "set_bit"}
  BY <1>1 DEF Codes
<1>3. CASE \E r \in {-5, -3, -2, 0}, o \in {c, 0} : Finish(r, o)
  BY <1>2, <1>3, ReadDone
<1>4. CASE frame.for = "zeros" /\ BeginCount(arg.addr, arg.n, 1, "ones")
  <2>1. rc' = rc /\ arg.n > 0
    BY <1>1, <1>4 DEF BeginCount, Goto
  <2> QED
    BY <1>1, <1>4, <2>1, CountBegun
<1>5. CASE frame.for = "ones" /\ c # arg.n /\ BeginCount(arg.addr + c, arg.n - c, 0, "rest")
  <2> DEFINE a == arg.addr + c
  <2> DEFINE n == arg.n - c
  <2>1. rc' = rc /\ a \in Nat /\ n \in Nat /\ n > 0 /\ a + n <= Total /\ n <= arg.n
    BY <1>1, <1>5 DEF BeginCount, Goto
  <2>2. BeginCount(a, n, 0, "rest")
    BY <1>5
  <2> HIDE DEF a, n
  <2> QED
    BY <1>1, <1>5, <2>1, <2>2, CountBegun
<1> QED
  BY <1>3, <1>4, <1>5 DEF Counted, AfterOnes

\* A count goes on with the next byte.
LEMMA CountOn ==
  ASSUME SafeInv, pc = "count", NEW k \in Nat, k < frame.pending,
         frame.skip + k = Bits,
         Goto("count", [frame EXCEPT !.loc = @ + 1, !.skip = 0, !.acc = @ + k,
                                     !.pending = @ - k]),
         UNCHANGED <<bm, op, arg, old>>
  PROVE  SafeInv'
<1>1. /\ Typed /\ BitmapType' /\ Ones' \subseteq 0 .. Total - 1 /\ rc' = rc /\ pc' = "count"
      /\ frame' = [frame EXCEPT !.loc = @ + 1, !.skip = 0, !.acc = @ + k, !.pending = @ - k]
  BY Same DEF SafeInv, Typed, Goto
<1>2. /\ frame \in [loc : Nat, skip : Positions, acc : Nat, pending : Nat, n : Nat,
                     v : {0, 1}, for : {"count", "zeros", "ones", "rest"}]
      /\ frame.acc + frame.pending = frame.n
      /\ frame.loc * Bits + frame.skip + frame.pending <= Total
  BY DEF SafeInv, CountInv
<1>3. /\ frame'.loc = frame.loc + 1 /\ frame'.skip = 0 /\ frame'.acc = frame.acc + k
      /\ frame'.pending = frame.pending - k /\ frame'.n = frame.n /\ frame'.v = frame.v
      /\ frame'.for = frame.for
  BY <1>1, <1>2
<1>4. frame' \in [loc : Nat, skip : Positions, acc : Nat, pending : Nat, n : Nat,
                  v : {0, 1}, for : {"count", "zeros", "ones", "rest"}]
  <2>1. /\ frame.loc + 1 \in Nat /\ 0 \in Positions /\ frame.acc + k \in Nat
        /\ frame.pending - k \in Nat
    BY <1>2, Numbers
  <2> QED
    BY <1>1, <1>2, <2>1
<1>5. /\ frame'.acc + frame'.pending = frame'.n /\ frame'.pending > 0
      /\ frame'.loc * Bits + frame'.skip + frame'.pending <= Total
  <2>1. /\ frame.loc \in Nat /\ frame.skip \in Nat /\ frame.acc \in Nat
        /\ frame.pending \in Nat /\ frame.n \in Nat /\ Bits \in Nat /\ Total \in Nat
        /\ frame.loc * Bits \in Nat /\ (frame.loc + 1) * Bits = frame.loc * Bits + Bits
    BY <1>2, Numbers
  <2> DEFINE at == frame.loc * Bits
  <2>2. frame'.loc * Bits = at + Bits /\ at \in Nat /\ at + frame.skip + frame.pending <= Total
    BY <1>2, <1>3, <2>1
  <2> HIDE DEF at
  <2>3. frame'.acc + frame'.pending = frame'.n /\ frame'.pending > 0
    BY <1>2, <1>3, <2>1
  <2>4. frame'.loc * Bits + frame'.skip + frame'.pending <= Total
    BY <1>3, <2>1, <2>2
  <2> QED
    BY <2>3, <2>4
<1>6. Typed'
  BY <1>1, <1>4 DEF Typed
<1>7. CountInv'
  BY <1>1, <1>3, <1>4, <1>5 DEF SafeInv, CountInv
<1> QED
  BY <1>1, <1>6, <1>7 DEF SafeInv, ExtentInv, FindInv, ExtentExact

LEMMA CountHeadSafe ==
  ASSUME SafeInv, CountHead
  PROVE  SafeInv'
<1> DEFINE k == AtStart(frame.skip, frame.n)
<1> DEFINE c == byte_count_bits(frame.skip, k, bm[frame.loc], frame.v)
<1>1. /\ frame.skip \in Positions /\ frame.skip \in Nat /\ frame.skip < Bits /\ frame.n \in Nat
      /\ frame.acc = 0 /\ frame.pending = frame.n /\ frame.pending > 0 /\ Bits \in Nat
      /\ pc = "count" /\ UNCHANGED <<bm, op, arg, old>>
      /\ frame \in [loc : Nat, skip : Positions, acc : Nat, pending : Nat, n : Nat,
                     v : {0, 1}, for : {"count", "zeros", "ones", "rest"}]
  BY Numbers DEF SafeInv, CountInv, CountHead
<1>2. IF k = frame.pending \/ c < k
      THEN Counted(c)
      ELSE Goto("count", [frame EXCEPT !.loc = @ + 1, !.skip = 0, !.acc = c, !.pending = @ - k])
  BY DEF CountHead
<1>3. k \in Nat /\ k <= frame.n /\ (k # frame.n => frame.skip + k = Bits)
  BY <1>1 DEF AtStart
<1>4. c \in Nat /\ (c <= k \/ c = 0)
  <2> HIDE DEF k
  <2>1. k \in Int
    BY <1>3
  <2> QED
    BY <1>1, <2>1, ByteCountBits
<1> HIDE DEF k, c
<1>5. CASE Counted(c)
  BY <1>1, <1>3, <1>4, <1>5, CountedSafe
<1>6. CASE k # frame.pending /\ ~ (c < k) /\ Goto("count", [frame EXCEPT !.loc = @ + 1, !.skip = 0, !.acc = c, !.pending = @ - k])
  <2>1. c = k /\ c = 0 + k
    BY <1>1, <1>3, <1>4, <1>6
  <2>2. [frame EXCEPT !.loc = @ + 1, !.skip = 0, !.acc = c, !.pending = @ - k] =
        [frame EXCEPT !.loc = @ + 1, !.skip = 0, !.acc = @ + k, !.pending = @ - k]
    BY <1>1, <2>1
  <2>3. k < frame.pending /\ frame.skip + k = Bits
    BY <1>1, <1>3, <1>6
  <2> QED
    BY <1>1, <1>3, <1>6, <2>2, <2>3, CountOn
<1> QED
  BY <1>2, <1>5, <1>6

LEMMA CountByteSafe ==
  ASSUME SafeInv, CountByte
  PROVE  SafeInv'
<1> DEFINE c == byte_count_bits(0, Limit(frame.pending), bm[frame.loc], frame.v)
<1>1. /\ frame.skip = 0 /\ frame.n \in Nat /\ frame.acc \in Nat /\ frame.pending \in Nat
      /\ frame.pending > 0 /\ frame.acc + frame.pending = frame.n
      /\ Bits \in Nat /\ pc = "count" /\ UNCHANGED <<bm, op, arg, old>>
      /\ frame \in [loc : Nat, skip : Positions, acc : Nat, pending : Nat, n : Nat,
                     v : {0, 1}, for : {"count", "zeros", "ones", "rest"}]
  BY Numbers DEF SafeInv, CountInv, CountByte
<1>2. c \in Nat /\ c <= frame.pending
  <2>1. Limit(frame.pending) \in Int /\ Limit(frame.pending) <= frame.pending
    BY <1>1, Conversions DEF Limit
  <2>2. c \in Nat /\ (c <= Limit(frame.pending) \/ c = 0)
    BY <2>1, ByteCountBits, Numbers
  <2> HIDE DEF c
  <2> QED
    BY <1>1, <2>1, <2>2
<1> DEFINE next == [frame EXCEPT !.loc = @ + 1, !.acc = @ + Bits, !.pending = @ - Bits]
<1>3. \/ Counted(frame.acc + c) \/ Counted(frame.acc) \/ Counted(frame.n)
      \/ frame.pending > Bits /\ Goto("count", next)
  BY DEF CountByte
<1>4. next = [frame EXCEPT !.loc = @ + 1, !.skip = 0, !.acc = @ + Bits, !.pending = @ - Bits]
  BY <1>1
<1> HIDE DEF c, next
<1>5. CASE frame.pending > Bits /\ Goto("count", next)
  <2>1. frame.skip + Bits = Bits
    BY <1>1
  <2> QED
    BY <1>1, <1>4, <1>5, <2>1, CountOn
<1>6. CASE \E m \in {frame.acc + c, frame.acc, frame.n} : Counted(m)
  <2>1. PICK m \in {frame.acc + c, frame.acc, frame.n} : Counted(m)
    BY <1>6
  <2>2. m \in Nat /\ m <= frame.n
    BY <1>1, <1>2
  <2> QED
    BY <1>1, <2>1, <2>2, CountedSafe
<1> QED
  BY <1>3, <1>5, <1>6

-----------------------------------------------------------------------------
(* bm_find *)

\* The part of the window that is in the bitmap.
LEMMA InMapFits ==
  ASSUME NEW a \in Nat, a < Total, NEW n \in Nat, a + n < Word
  PROVE  /\ InMap(a, n) = IF a + n > Total THEN Total - a ELSE n
         /\ InMap(a, n) \in Nat /\ InMap(a, n) <= n /\ a + InMap(a, n) <= Total
         /\ n > 0 => InMap(a, n) > 0
         /\ U64(a + InMap(a, n)) = a + InMap(a, n)
<1>1. /\ Total \in Nat /\ Word \in Nat /\ Word > Total /\ a + n \in Nat
      /\ Total - a \in Nat /\ Total - a < Word
  BY Numbers
<1>2. U64(a + n) = a + n /\ U64(Total - a) = Total - a
  BY <1>1, Conversions
<1>3. InMap(a, n) = IF a + n > Total THEN Total - a ELSE n
  BY <1>2 DEF InMap
<1>4. /\ InMap(a, n) \in Nat /\ InMap(a, n) <= n /\ a + InMap(a, n) <= Total
      /\ n > 0 => InMap(a, n) > 0
  BY <1>1, <1>3
<1> QED
  BY <1>1, <1>3, <1>4, Conversions

LEMMA FindCallSafe ==
  ASSUME SafeInv, NEW a \in 0 .. Word - 1, NEW n \in 0 .. Word - 1, a + n < Word,
         NEW g \in 0 .. Word - 1, bm_find(a, n, g)
  PROVE  SafeInv'
<1> DEFINE b == [NoArg EXCEPT !.addr = a, !.n = n, !.gap = g]
<1>0. a \in Nat /\ n \in Nat /\ g \in Nat /\ Total \in Nat /\ -1 \in Codes
  BY Numbers DEF Codes
<1>1. b \in Args /\ b.addr = a /\ b.n = n /\ b.gap = g
  BY <1>0, NoArgType DEF NoArg
<1>2. /\ Typed /\ BitmapType /\ Ones \subseteq 0 .. Total - 1 /\ Call("find", b)
      /\ BitmapType' /\ Ones' = Ones
  BY Same DEF SafeInv, Typed, bm_find
<1> HIDE DEF b
<1>3. CASE Finish(-1, 0)
  BY <1>0, <1>1, <1>2, <1>3, CallDone
<1>4. CASE /\ a < Total /\ g > 0 /\ n > 0
           /\ Goto("find", [loc |-> a \div Bits, skip |-> a % Bits, count |-> InMap(a, n),
                            need |-> g, more |-> FALSE, found |-> 0])
  <2> DEFINE l == a \div Bits
  <2> DEFINE s == a % Bits
  <2>1. l \in Nat /\ s \in Positions /\ a = l * Bits + s
    BY <1>0, Numbers, DivMod DEF Positions
  <2>2. InMap(a, n) \in Nat /\ InMap(a, n) > 0 /\ a + InMap(a, n) <= Total
    BY <1>0, <1>4, InMapFits
  <2>3. /\ op' = "find" /\ arg' = b /\ rc' = rc /\ pc' = "find"
        /\ frame' = [loc |-> l, skip |-> s, count |-> InMap(a, n), need |-> g,
                     more |-> FALSE, found |-> 0]
    BY <1>2, <1>4 DEF Call, Goto
  <2> HIDE DEF l, s
  <2>4. Typed'
    BY <1>1, <1>2, <2>1, <2>3 DEF Typed
  <2>5. FindInv'
    BY <1>0, <1>1, <1>4, <2>1, <2>2, <2>3 DEF FindInv
  <2> QED
    BY <2>3, <2>4, <2>5 DEF SafeInv, ExtentInv, CountInv, ExtentExact
<1> QED
  BY <1>3, <1>4 DEF bm_find

\* What bm_find keeps while it searches.
LEMMA FindFacts ==
  ASSUME SafeInv, pc = "find"
  PROVE  /\ frame \in [loc : Nat, skip : Positions, count : Nat, need : Nat,
                        more : BOOLEAN, found : Nat]
         /\ frame.loc \in Nat /\ frame.skip \in Positions /\ frame.skip \in Nat
         /\ frame.skip < Bits /\ frame.count \in Nat /\ frame.need \in Nat
         /\ frame.found \in Nat /\ frame.more \in BOOLEAN
         /\ frame.count > 0 /\ frame.need > 0 /\ frame.need <= arg.gap
         /\ arg.gap \in Nat /\ arg.addr \in Nat /\ arg.n \in Nat
         /\ frame.loc * Bits \in Nat /\ (frame.loc + 1) * Bits = frame.loc * Bits + Bits
         /\ frame.loc * Bits + frame.skip + frame.count <= Total
         /\ Left \in Nat
         /\ frame.skip + frame.count > Bits <=> Left > 0
         /\ Left > 0 => frame.skip + frame.count = Bits + Left
<1>1. /\ frame \in [loc : Nat, skip : Positions, count : Nat, need : Nat,
                     more : BOOLEAN, found : Nat]
      /\ frame.count > 0 /\ frame.need > 0 /\ frame.need <= arg.gap
      /\ frame.loc * Bits + frame.skip + frame.count <= Total
      /\ arg.gap \in Nat /\ arg.addr \in Nat /\ arg.n \in Nat
  BY DEF SafeInv, FindInv, Typed, Args
<1>2. /\ frame.loc \in Nat /\ frame.skip \in Positions /\ frame.skip \in Nat
      /\ frame.skip < Bits /\ frame.count \in Nat /\ frame.need \in Nat
      /\ frame.found \in Nat /\ frame.more \in BOOLEAN
      /\ Bits \in Nat
  BY <1>1, Numbers
<1>3. frame.loc * Bits \in Nat /\ (frame.loc + 1) * Bits = frame.loc * Bits + Bits
  BY <1>2
<1>4. /\ Left \in Nat
      /\ frame.skip + frame.count > Bits <=> Left > 0
      /\ Left > 0 => frame.skip + frame.count = Bits + Left
  BY <1>2 DEF Left
<1> QED
  BY <1>1, <1>2, <1>3, <1>4

\* The search goes on with the next byte.
LEMMA FindOn ==
  ASSUME SafeInv, pc = "find", Left > 0, NEW need \in Nat, need > 0, need <= arg.gap,
         NEW more \in BOOLEAN, NEW found \in Nat,
         more => need <= Left \/ ToInt(need) <= 0,
         On(need, more, found), UNCHANGED <<bm, op, arg, old>>
  PROVE  SafeInv'
<1>1. /\ Typed /\ BitmapType' /\ Ones' \subseteq 0 .. Total - 1 /\ rc' = rc /\ pc' = "find"
      /\ frame' = [frame EXCEPT !.loc = @ + 1, !.skip = 0, !.count = Left,
                                !.need = need, !.more = more, !.found = found]
  BY Same DEF SafeInv, Typed, On, Goto
<1>2. /\ frame'.loc = frame.loc + 1 /\ frame'.skip = 0 /\ frame'.count = Left
      /\ frame'.need = need /\ frame'.more = more /\ frame'.found = found
  BY <1>1, FindFacts
<1>3. frame' \in [loc : Nat, skip : Positions, count : Nat, need : Nat,
                  more : BOOLEAN, found : Nat]
  <2>1. /\ frame \in [loc : Nat, skip : Positions, count : Nat, need : Nat,
                       more : BOOLEAN, found : Nat]
        /\ frame.loc + 1 \in Nat /\ 0 \in Positions /\ Left \in Nat
    BY FindFacts, Numbers
  <2> QED
    BY <1>1, <2>1
<1>4. frame'.loc * Bits + frame'.skip + frame'.count <= Total
  <2> DEFINE at == frame.loc * Bits
  <2>1. /\ at \in Nat /\ frame'.loc * Bits = at + Bits /\ Bits \in Nat /\ Total \in Nat
        /\ frame.skip \in Nat /\ frame.count \in Nat /\ Left \in Nat
        /\ at + frame.skip + frame.count <= Total /\ frame.skip + frame.count = Bits + Left
    BY <1>2, FindFacts, Numbers
  <2> HIDE DEF at
  <2> QED
    BY <1>2, <2>1
<1>5. Typed'
  BY <1>1, <1>3 DEF Typed
<1>6. FindInv'
  BY <1>2, <1>3, <1>4 DEF SafeInv, FindInv
<1> QED
  BY <1>1, <1>5, <1>6 DEF SafeInv, ExtentInv, CountInv, ExtentExact

LEMMA FindByteSafe ==
  ASSUME SafeInv, FindByte
  PROVE  SafeInv'
<1> DEFINE byte == bm[frame.loc]
<1> DEFINE first == byte_find_gap(frame.skip, ToInt(frame.need), byte)
<1> DEFINE more == frame.more /\ ~ Stale(first)
<1> DEFINE need == IF Stale(first) THEN arg.gap ELSE frame.need
<1> DEFINE g == byte_find_gap(frame.skip, ToInt(need), byte)
<1> DEFINE from == IF more THEN frame.found ELSE (frame.loc + 1) * Bits - g.count
<1>1. pc = "find" /\ UNCHANGED <<bm, op, arg, old>> /\ op \notin {"set_extent", "set_bit"}
  BY DEF FindByte, SafeInv, FindInv
<1>2. \/ g.rc >= 0 /\ ~ more /\ Found(frame.loc * Bits + g.rc)
      \/ g.rc >= 0 /\ more /\ need = g.count /\ Found(from)
      \/ g.rc >= 0 /\ more /\ need # g.count /\ On(need - g.count, TRUE, from)
      \/ g.rc = -1 /\ Finish(-1, 0)
      \/ g.rc = -1 /\ Left # 0 /\ On(arg.gap, FALSE, frame.found)
      \/ g.rc = -2 /\ Finish(-1, 0)
      \/ g.rc = -2 /\ Left # 0 /\ ~ (need - g.count > Left) /\ On(need - g.count, TRUE, from)
  BY DEF FindByte
<1>3. need \in Nat /\ need > 0 /\ need <= arg.gap /\ (more => need = frame.need)
  BY <1>1, FindFacts
<1> DEFINE k == ToInt(need)
<1>4. k \in Int /\ k <= need
  BY <1>3, Conversions
<1>5. /\ g.rc \in Int /\ g.count \in Nat
      /\ g.rc >= 0 => k > 0 /\ g.count = k /\ g.rc <= Bits - k /\ g.rc \in Nat
      /\ g.rc = -2 => g.count < k /\ g.count > 0 /\ g.count <= Bits
  <2> HIDE DEF need, byte
  <2>1. k \in Int /\ frame.skip \in Positions /\ frame.skip \in Nat /\ frame.skip < Bits /\ Bits \in Nat
    BY <1>1, <1>4, FindFacts, Numbers
  <2> HIDE DEF k
  <2>2. /\ g.rc \in Int /\ g.count \in Nat
        /\ g.rc >= 0 => k > 0 /\ g.count = k /\ g.rc \in frame.skip .. Bits - k
        /\ g.rc = -2 => g.count < k /\ g.count \in 1 .. Bits - frame.skip
    BY <2>1, ByteFindGap DEF k
  <2> HIDE DEF g
  <2> QED
    BY <2>1, <2>2
<1>6. (g.rc >= 0 \/ g.rc = -2) => from \in Nat
  <2> DEFINE at == frame.loc * Bits
  <2>1. at \in Nat /\ (frame.loc + 1) * Bits = at + Bits /\ Bits \in Nat /\ frame.found \in Nat
    BY <1>1, FindFacts, Numbers
  <2> HIDE DEF more, g, k, at
  <2>2. g.rc >= 0 \/ g.rc = -2 => g.count <= Bits
    BY <1>4, <1>5, <2>1
  <2> QED
    BY <1>5, <2>1, <2>2
<1>7. CASE \E r \in Codes, o \in {from, frame.loc * Bits + g.rc, 0} : Finish(r, o)
  BY <1>1, <1>7, ReadDone
<1>8. \A o : Found(o) => \E r \in {-1, 0}, x \in {o, 0} : Finish(r, x)
  BY DEF Found
<1>9. -1 \in Codes /\ 0 \in Codes
  BY DEF Codes
<1>10. CASE g.rc >= 0 /\ more /\ need # g.count /\ On(need - g.count, TRUE, from)
  <2>1. k > 0 /\ g.count = k /\ need # k /\ need = frame.need /\ frame.more
    BY <1>3, <1>5, <1>10
  <2>2. need >= IntWord + k /\ need - k \in Nat /\ ToInt(need - k) = 0
    BY <1>3, <2>1, Conversions
  <2>3. need <= frame.count
    <3>1. frame.need <= frame.count \/ ToInt(frame.need) <= 0
      BY <1>1, <2>1 DEF SafeInv, FindInv
    <3>2. ToInt(frame.need) = k
      BY <2>1
    <3> HIDE DEF k, need
    <3> QED
      BY <1>4, <2>1, <3>1, <3>2
  <2> HIDE DEF need, more, g, k, from
  <2>4. need - g.count \in Nat /\ need - g.count > 0 /\ need - g.count <= arg.gap
        /\ ToInt(need - g.count) <= 0
    BY <1>1, <1>3, <1>4, <2>1, <2>2, FindFacts, Numbers
  <2>5. Left > 0
    BY <1>1, <1>3, <1>4, <2>1, <2>2, <2>3, FindFacts, Numbers
  <2> QED
    BY <1>1, <1>6, <1>10, <2>4, <2>5, FindOn
<1>11. CASE g.rc = -1 /\ Left # 0 /\ On(arg.gap, FALSE, frame.found)
  <2>1. /\ arg.gap \in Nat /\ arg.gap > 0 /\ arg.gap <= arg.gap /\ Left > 0
        /\ frame.found \in Nat
    BY <1>1, <1>11, FindFacts
  <2> HIDE DEF need, more, g, k, from
  <2> QED
    BY <1>1, <1>11, <2>1, FindOn
<1>12. CASE /\ g.rc = -2 /\ Left # 0 /\ ~ (need - g.count > Left)
            /\ On(need - g.count, TRUE, from)
  <2> HIDE DEF need, more, g, k, from
  <2>1. arg.gap \in Nat /\ Left \in Nat
    BY <1>1, FindFacts
  <2>2. need - g.count \in Nat /\ need - g.count > 0 /\ need - g.count <= arg.gap
        /\ need - g.count <= Left /\ Left > 0
    BY <1>3, <1>4, <1>5, <1>12, <2>1
  <2> QED
    BY <1>1, <1>6, <1>12, <2>2, FindOn
<1> HIDE DEF more, need, g, from, first
<1>13. ASSUME NEW o \in {from, frame.loc * Bits + g.rc}, Found(o) PROVE SafeInv'
  <2>1. PICK r \in {-1, 0}, x \in {o, 0} : Finish(r, x)
    BY <1>8, <1>13
  <2> QED
    BY <1>7, <1>9, <1>13, <2>1
<1>14. CASE Finish(-1, 0)
  BY <1>7, <1>9, <1>14
<1> QED
  BY <1>2, <1>10, <1>11, <1>12, <1>13, <1>14

-----------------------------------------------------------------------------
(* The theorems of the first layer *)

LEMMA LoopSafe ==
  ASSUME SafeInv, Loop \/ Return
  PROVE  SafeInv'
BY ExtentHeadSafe, ExtentBodySafe, ExtentTailSafe, CountHeadSafe, CountByteSafe,
   FindByteSafe, ReturnSafe DEF Loop

LEMMA NextSafe ==
  ASSUME CallsFit, SafeInv, [Next]_vars
  PROVE  SafeInv'
<1>1. /\ Addresses \subseteq 0 .. Word - 1 /\ Counts \subseteq 0 .. Word - 1
      /\ Gaps \subseteq 0 .. Word - 1
      /\ \A a \in Addresses, n \in Counts : a + n < Word
  BY BitmapAssumption DEF BitmapAssumption, CallsFit
<1>2. CASE \E a \in Addresses, v \in {0, 1} : bm_set_bit(a, v)
  BY <1>1, <1>2, SetBitSafe
<1>3. CASE \E a \in Addresses : bm_get_bit(a)
  BY <1>1, <1>3, GetBitSafe
<1>4. CASE bm_zero \/ bm_fill \/ bm_popcount
  BY <1>4, WholeSafe
<1>5. CASE \E a \in Addresses, n \in Counts, v \in {0, 1} :
             bm_set_extent(a, n, v) \/ bm_count(a, n, v)
  <2>1. PICK a \in Addresses, n \in Counts, v \in {0, 1} :
               bm_set_extent(a, n, v) \/ bm_count(a, n, v)
    BY <1>5
  <2>2. a \in 0 .. Word - 1 /\ n \in 0 .. Word - 1 /\ a + n < Word
    BY <1>1
  <2> QED
    BY <2>1, <2>2, SetExtentSafe, CountCallSafe
<1>6. CASE \E a \in Addresses, n \in Counts : bm_extent_can_grow(a, n)
  BY <1>1, <1>6, CanGrowSafe
<1>7. CASE \E a \in Addresses, n \in Counts, g \in Gaps : bm_find(a, n, g)
  BY <1>1, <1>7, FindCallSafe
<1>8. CASE Loop \/ Return
  BY <1>8, LoopSafe
<1>9. CASE UNCHANGED vars
  <2>1. bm' = bm /\ frame' = frame /\ Ones' = Ones
    BY <1>9, Same DEF vars
  <2> QED
    BY <1>9, <2>1 DEF vars, SafeInv, Typed, BitmapType, ExtentInv, CountInv, FindInv,
                      ExtentExact
<1> QED
  BY <1>2, <1>3, <1>4, <1>5, <1>6, <1>7, <1>8, <1>9 DEF Next

LEMMA BoundsHold ==
  ASSUME SafeInv
  PROVE  InBounds
<1>1. Total \in Nat /\ Bits \in Nat /\ Bits > 0 /\ DOMAIN bm = 0 .. NBytes - 1
  BY Numbers DEF SafeInv, Typed, BitmapType
<1>2. CASE pc \in {"head", "body", "tail"}
  <2>1. /\ frame.loc \in Nat /\ frame.pending \in Nat /\ frame.pending > 0
        /\ frame.loc * Bits \in Nat /\ arg.addr \in Nat /\ arg.n \in Nat
        /\ arg.addr + arg.n <= Total
    <3>1. frame \in [loc : Nat, pending : Nat] /\ frame.pending > 0 /\ arg.addr + arg.n <= Total
      BY <1>2 DEF SafeInv, ExtentInv
    <3>2. arg.addr \in Nat /\ arg.n \in Nat
      BY DEF SafeInv, Typed, Args
    <3> QED
      BY <1>1, <3>1, <3>2
  <2>2. pc = "head" => frame.loc * Bits < Total
    <3> SUFFICES ASSUME pc = "head" PROVE frame.loc * Bits < Total
      OBVIOUS
    <3> DEFINE s == arg.addr % Bits
    <3> DEFINE at == frame.loc * Bits
    <3>1. s \in Nat /\ at + s = arg.addr /\ frame.pending = arg.n /\ at \in Nat
      <4>1. s \in Nat
        BY <1>1, <2>1, DivMod
      <4>2. at + s = arg.addr /\ frame.pending = arg.n
        BY DEF SafeInv, ExtentInv
      <4> QED
        BY <2>1, <4>1, <4>2
    <3> HIDE DEF s, at
    <3>2. at < Total
      BY <1>1, <2>1, <3>1
    <3> QED
      BY <3>2 DEF at
  <2>3. pc # "head" => frame.loc * Bits + frame.pending <= Total
    BY <1>2, <2>1 DEF SafeInv, ExtentInv
  <2>4. pc # "body" => frame.loc \in 0 .. NBytes - 1
    <3> DEFINE at == frame.loc * Bits
    <3>1. at < Total
      <4>1. at \in Nat /\ (pc # "head" => at + frame.pending <= Total)
        BY <2>1, <2>3
      <4>2. pc = "head" => at < Total
        BY <2>2
      <4> HIDE DEF at
      <4> QED
        BY <1>1, <2>1, <4>1, <4>2
    <3> QED
      BY <2>1, <3>1, ByteInside
  <2>5. pc = "body" => frame.loc + frame.pending \div Bits <= NBytes
    BY <2>1, <2>3, BytesInside
  <2> QED
    BY <1>1, <1>2, <2>4, <2>5 DEF InBounds
<1>3. CASE pc = "count"
  <2> DEFINE at == frame.loc * Bits
  <2>1. /\ frame.loc \in Nat /\ frame.skip \in Nat /\ frame.pending \in Nat
        /\ frame.pending > 0 /\ at + frame.skip + frame.pending <= Total /\ at \in Nat
    BY <1>3, Numbers DEF SafeInv, CountInv
  <2>2. at < Total
    <3> HIDE DEF at
    <3> QED
      BY <1>1, <2>1
  <2>3. frame.loc \in 0 .. NBytes - 1
    BY <2>1, <2>2, ByteInside
  <2> QED
    BY <1>1, <1>3, <2>3 DEF InBounds
<1>4. CASE pc = "find"
  <2> DEFINE at == frame.loc * Bits
  <2>1. /\ frame.loc \in Nat /\ frame.skip \in Nat /\ frame.count \in Nat
        /\ frame.count > 0 /\ at + frame.skip + frame.count <= Total /\ at \in Nat
    BY <1>4, FindFacts
  <2>2. at < Total
    <3> HIDE DEF at
    <3> QED
      BY <1>1, <2>1
  <2>3. frame.loc \in 0 .. NBytes - 1
    BY <2>1, <2>2, ByteInside
  <2> QED
    BY <1>1, <1>4, <2>3 DEF InBounds
<1> QED
  BY <1>2, <1>3, <1>4 DEF InBounds

\* What the first layer rests on holds in every state.
THEOREM Safe ==
  ASSUME CallsFit
  PROVE  Spec => []SafeInv
<1>1. Init => SafeInv
  BY InitSafe
<1>2. SafeInv /\ [Next]_vars => SafeInv'
  BY NextSafe
<1> QED
  BY <1>1, <1>2, PTL DEF Spec

\* A call never touches a byte outside the bitmap, however large a gap it is
\* asked to find, as long as the end of a range is a uint64_t: the sums with which
\* bm_set_extent, bm_count and bm_find check their range (map.c:231, 352, 460).
THEOREM StaysInBounds ==
  ASSUME CallsFit
  PROVE  Spec => []InBounds
<1>1. SafeInv => InBounds
  BY BoundsHold
<1> QED
  BY <1>1, Safe, PTL

\* Setting or clearing an extent changes its bits and no other, whichever bytes it
\* begins and ends in; one that does not lie in the bitmap is refused and changes
\* nothing (bm_set_extent and bm_set_bit).
THEOREM ChangesExactly ==
  ASSUME CallsFit
  PROVE  Spec => []ExtentExact
<1>1. SafeInv => ExtentExact
  BY DEF SafeInv
<1> QED
  BY <1>1, Safe, PTL

-----------------------------------------------------------------------------
(* Every call goes on *)

\* The parts of a call that come after the one it is in.
Parts(at, fr) ==
  CASE at = "head" \/ (at = "count" /\ fr.for = "zeros") -> 2
    [] at = "body" \/ (at = "count" /\ fr.for = "ones") -> 1
    [] OTHER -> 0

\* A step is the last one of the call, or of its part, or goes on to the next byte.
Onward ==
  \/ pc' = "done"
  \/ Parts(pc', frame') < Parts(pc, frame)
  \/ pc' = pc /\ Parts(pc', frame') = Parts(pc, frame) /\ frame'.loc = frame.loc + 1
CallAdvances == [][pc \notin {"idle", "done"} => Onward]_vars

LEMMA CountedOnward ==
  ASSUME SafeInv, pc = "count", NEW c, Counted(c)
  PROVE  Onward
<1>1. CASE pc' = "done"
  BY <1>1 DEF Onward
<1>2. CASE frame.for = "zeros" /\ BeginCount(arg.addr, arg.n, 1, "ones")
  <2>1. pc' = "count" /\ frame'.for = "ones"
    BY <1>2 DEF BeginCount, Goto
  <2> QED
    BY <1>2, <2>1 DEF Onward, Parts
<1>3. CASE /\ frame.for = "ones"
           /\ BeginCount(AfterOnes(arg.addr, c), arg.n - c, 0, "rest")
  <2>1. pc' = "count" /\ frame'.for = "rest"
    BY <1>3 DEF BeginCount, Goto
  <2> QED
    BY <1>3, <2>1 DEF Onward, Parts
<1> QED
  BY <1>1, <1>2, <1>3 DEF Counted, Finish

LEMMA LoopOnward ==
  ASSUME SafeInv, Loop
  PROVE  Onward
<1>1. CASE ExtentHead
  <2>1. pc = "head" /\ pc' \in {"done", "body"}
    BY <1>1 DEF ExtentHead, Finish, Goto
  <2> QED
    BY <2>1 DEF Onward, Parts
<1>2. CASE ExtentBody
  <2>1. pc = "body" /\ pc' \in {"done", "tail"}
    BY <1>2 DEF ExtentBody, Finish, Goto
  <2> QED
    BY <2>1 DEF Onward, Parts
<1>3. CASE ExtentTail
  BY <1>3 DEF ExtentTail, Finish, Onward
<1>4. ASSUME pc = "count", NEW fr, fr.loc = frame.loc + 1, fr.for = frame.for, Goto("count", fr)
      PROVE  Onward
  BY <1>4 DEF Goto, Onward, Parts
<1>5. CASE CountHead
  <2>1. pc = "count" /\ SafeInv
    BY <1>5 DEF CountHead
  <2>2. frame \in [loc : Nat, skip : Positions, acc : Nat, pending : Nat, n : Nat,
                   v : {0, 1}, for : {"count", "zeros", "ones", "rest"}]
    BY <2>1 DEF SafeInv, CountInv
  <2>3. PICK c, k : \/ Counted(c)
                    \/ Goto("count", [frame EXCEPT !.loc = @ + 1, !.skip = 0,
                                                   !.acc = c, !.pending = @ - k])
    BY <1>5 DEF CountHead
  <2>4. PICK fr : fr = [frame EXCEPT !.loc = @ + 1, !.skip = 0, !.acc = c, !.pending = @ - k]
    OBVIOUS
  <2>5. fr.loc = frame.loc + 1 /\ fr.for = frame.for
    BY <2>2, <2>4
  <2> QED
    BY <1>4, <2>1, <2>3, <2>4, <2>5, CountedOnward
<1>6. CASE CountByte
  <2>1. pc = "count"
    BY <1>6 DEF CountByte
  <2>2. frame \in [loc : Nat, skip : Positions, acc : Nat, pending : Nat, n : Nat,
                   v : {0, 1}, for : {"count", "zeros", "ones", "rest"}]
    BY <2>1 DEF SafeInv, CountInv
  <2>3. \/ \E c : Counted(c)
        \/ Goto("count", [frame EXCEPT !.loc = @ + 1, !.acc = @ + Bits, !.pending = @ - Bits])
    BY <1>6 DEF CountByte
  <2>4. PICK fr : fr = [frame EXCEPT !.loc = @ + 1, !.acc = @ + Bits, !.pending = @ - Bits]
    OBVIOUS
  <2>5. fr.loc = frame.loc + 1 /\ fr.for = frame.for
    BY <2>2, <2>4
  <2> QED
    BY <1>4, <2>1, <2>3, <2>4, <2>5, CountedOnward
<1>7. CASE FindByte
  <2>1. pc = "find"
    BY <1>7 DEF FindByte
  <2>2. frame \in [loc : Nat, skip : Positions, count : Nat, need : Nat,
                   more : BOOLEAN, found : Nat]
    BY <2>1 DEF SafeInv, FindInv
  <2>3. (\E a : Found(a)) \/ Finish(-1, 0) \/ \E need, more, found : On(need, more, found)
    BY <1>7 DEF FindByte
  <2>4. ASSUME NEW need, NEW more, NEW found, On(need, more, found) PROVE Onward
    <3>1. PICK fr : /\ fr = [frame EXCEPT !.loc = @ + 1, !.skip = 0, !.count = Left,
                                          !.need = need, !.more = more, !.found = found]
                    /\ Goto("find", fr)
      BY <2>4 DEF On
    <3>2. fr.loc = frame.loc + 1
      BY <2>2, <3>1
    <3> QED
      BY <2>1, <3>1, <3>2 DEF Goto, Onward, Parts
  <2> QED
    BY <2>3, <2>4 DEF Found, Finish, Onward
<1> QED
  BY <1>1, <1>2, <1>3, <1>5, <1>6, <1>7 DEF Loop

\* No call goes on for ever: each of its steps is the last of the call or of one
\* of its three parts at most, or leaves a byte of the bitmap for the next, of which
\* there are NBytes: a search that began anew at a byte would not (bm_find's run
\* that does not go on), nor would bm_extent_can_grow's third count.
THEOREM CallsMakeHeadway ==
  ASSUME CallsFit
  PROVE  Spec => [](pc \in {"head", "tail", "count", "find"} => frame.loc \in 0 .. NBytes - 1)
                 /\ CallAdvances
<1>1. SafeInv => (pc \in {"head", "tail", "count", "find"} => frame.loc \in 0 .. NBytes - 1)
  BY BoundsHold DEF InBounds, SafeInv, Typed, BitmapType
<1>2. SafeInv /\ [Next]_vars => [pc \notin {"idle", "done"} => Onward]_vars
  <2> SUFFICES ASSUME SafeInv, Next, pc \notin {"idle", "done"} PROVE Onward
    BY DEF vars
  <2>1. Loop
    BY DEF Next, Call, Return, bm_set_bit, bm_get_bit, bm_zero, bm_fill, bm_popcount,
       bm_set_extent, bm_count, bm_extent_can_grow, bm_find
  <2> QED
    BY <2>1, LoopOnward
<1> QED
  BY <1>1, <1>2, Safe, PTL DEF Spec, CallAdvances

-----------------------------------------------------------------------------
(* The second layer: what the reading functions answer *)

\* Sizes are ints, and a range ends in a uint64_t.
Sized ==
  /\ arg.n < HalfInt /\ arg.gap < HalfInt
  /\ op \in {"set_extent", "count", "can_grow", "find"} => arg.addr + arg.n < Word

\* Where the present pass of bm_count began.
CountBase ==
  IF frame.for = "rest" THEN arg.addr + (arg.n - frame.n) ELSE arg.addr

\* The bits counted so far have the value asked for, and a later pass of
\* bm_extent_can_grow stands on what the earlier ones returned.
CountExact ==
  pc = "count" =>
    /\ CountBase + frame.acc = frame.loc * Bits + frame.skip
    /\ Agree(Ones, frame.v, CountBase, CountBase + frame.acc)
    /\ frame.for = "count" => frame.v = arg.v
    /\ frame.for \in {"zeros", "rest"} => frame.v = 0
    /\ frame.for = "ones" => frame.v = 1
    /\ frame.for \in {"ones", "rest"} => RunIn(Ones, arg.addr, arg.n, 0) = 0
    /\ frame.for = "rest" => frame.n = arg.n - RunIn(Ones, arg.addr, arg.n, 1)

\* A gap of the size asked for begins at a, and none does before b.
FreeAt(a) == a .. a + arg.gap - 1 \cap Ones = {}
NoneBefore(b) == \A a \in arg.addr .. b - 1 : ~ FreeAt(a)

FindAt == frame.loc * Bits + frame.skip

\* No gap begins before the position the search has come to, or before the zeros
\* that end there and of which need are missing.
FindExact ==
  pc = "find" =>
    /\ arg.addr < Total
    /\ FindAt + frame.count = WindowEnd
    /\ ~ frame.more => /\ frame.need = arg.gap
                       /\ arg.addr <= FindAt
                       /\ NoneBefore(FindAt)
    /\ frame.more => /\ arg.addr <= frame.found /\ frame.found <= FindAt
                     /\ frame.found + arg.gap = FindAt + frame.need
                     /\ frame.found .. FindAt - 1 \cap Ones = {}
                     /\ NoneBefore(frame.found)

Answers == ReadsExact /\ FindFirst /\ GrowRight

ExactInv == Sized /\ out \in 0 .. Total /\ CountExact /\ FindExact /\ Answers

\* GrowRight, of any bits and answer.
GrowIn(S, a, n, r) ==
  LET zeros == RunIn(S, a, n, 0)
      ones == RunIn(S, a, n, 1)
      valid == n > 0 /\ a + n <= Total
  IN r = IF ~ valid THEN -1
         ELSE IF zeros = n THEN 0
         ELSE IF zeros > 0 THEN -2
         ELSE IF ones = n THEN -3
         ELSE IF RunIn(S, a + ones, n - ones, 0) = n - ones THEN 0
         ELSE -5

LEMMA GrowNow ==
  /\ GrowRight <=> (pc = "done" /\ op = "can_grow" => GrowIn(Ones, arg.addr, arg.n, rc))
  /\ GrowRight' <=>
       (pc' = "done" /\ op' = "can_grow" => GrowIn(Ones', arg'.addr, arg'.n, rc'))
BY DEF GrowRight, GrowIn, RunOf, RunIn

\* What bm_count returns, of any bits.
CountIn(S, a, n, v, r, o) ==
  IF a >= Total \/ a + n > Total
  THEN r = -1 /\ o = 0
  ELSE r = 0 /\ o = RunIn(S, a, n, v)

LEMMA ReadsNow ==
  ReadsExact' <=>
    (pc' = "done" =>
       /\ op' = "count" => CountIn(Ones', arg'.addr, arg'.n, arg'.v, rc', out')
       /\ op' = "popcount" => out' = Cardinality(Ones')
       /\ op' = "get_bit" =>
            rc' = IF arg'.addr >= Total THEN -1 ELSE IF arg'.addr \in Ones' THEN 1 ELSE 0)
BY DEF ReadsExact, CountIn, RunOf, RunIn

\* The same bits in a byte and as addresses.
LEMMA AgreeByte ==
  ASSUME NEW l \in 0 .. NBytes - 1, NEW v, NEW s \in Nat, NEW e \in Nat, e <= Bits
  PROVE  Agree(bm[l], v, s, e) <=> Agree(Ones, v, l * Bits + s, l * Bits + e)
<1>1. l * Bits \in Nat /\ Bits \in Nat /\ l \in Nat /\ Positions = 0 .. Bits - 1
  BY Numbers, ByteCount DEF Positions
<1>2. ASSUME Agree(bm[l], v, s, e), NEW q \in l * Bits + s .. (l * Bits + e) - 1
      PROVE  q \in Ones <=> v = 1
  <2>1. e - 1 \in Int /\ e - 1 < Bits /\ q \in l * Bits + s .. l * Bits + (e - 1)
    BY <1>1
  <2>2. q - l * Bits \in s .. e - 1 /\ (q \in Ones <=> q - l * Bits \in bm[l])
    BY <2>1, ByteRange
  <2> QED
    BY <1>2, <2>2 DEF Agree
<1>3. ASSUME Agree(Ones, v, l * Bits + s, l * Bits + e), NEW q \in s .. e - 1
      PROVE  q \in bm[l] <=> v = 1
  <2>1. q \in Positions /\ l * Bits + q \in l * Bits + s .. (l * Bits + e) - 1
    BY <1>1
  <2>2. l * Bits + q \in Ones <=> q \in bm[l]
    BY <2>1, OnesAt, OnesNow
  <2>3. l * Bits + q \in Ones <=> v = 1
    BY <1>3, <2>1 DEF Agree
  <2> QED
    BY <2>2, <2>3
<1>4. Agree(bm[l], v, s, e) => Agree(Ones, v, l * Bits + s, l * Bits + e)
  <2> SUFFICES ASSUME Agree(bm[l], v, s, e), NEW q \in l * Bits + s .. (l * Bits + e) - 1
               PROVE  q \in Ones <=> v = 1
    BY DEF Agree
  <2> QED
    BY <1>2
<1>5. Agree(Ones, v, l * Bits + s, l * Bits + e) => Agree(bm[l], v, s, e)
  <2> SUFFICES ASSUME Agree(Ones, v, l * Bits + s, l * Bits + e), NEW q \in s .. e - 1
               PROVE  q \in bm[l] <=> v = 1
    BY DEF Agree
  <2> QED
    BY <1>3
<1> QED
  BY <1>4, <1>5

LEMMA AgreeJoin ==
  ASSUME NEW S, NEW v, NEW a \in Nat, NEW b \in Nat, NEW c \in Nat,
         Agree(S, v, a, b), Agree(S, v, b, c)
  PROVE  Agree(S, v, a, c)
BY DEF Agree

LEMMA AgreeLess ==
  ASSUME NEW S, NEW v, NEW a \in Nat, NEW b \in Nat, NEW c \in Nat, c <= b,
         Agree(S, v, a, b)
  PROVE  Agree(S, v, a, c)
BY DEF Agree

\* A count begins.
LEMMA CountBegunExact ==
  ASSUME NEW a \in Nat, NEW n \in Nat, n > 0, NEW v \in {0, 1},
         NEW for \in {"count", "zeros", "ones", "rest"}, BeginCount(a, n, v, for),
         Sized', out \in 0 .. Total,
         a = IF for = "rest" THEN arg'.addr + (arg'.n - n) ELSE arg'.addr,
         v = IF for = "count" THEN arg'.v ELSE IF for = "ones" THEN 1 ELSE 0,
         for \in {"ones", "rest"} => RunIn(Ones', arg'.addr, arg'.n, 0) = 0,
         for = "rest" => n = arg'.n - RunIn(Ones', arg'.addr, arg'.n, 1)
  PROVE  ExactInv'
<1> DEFINE l == a \div Bits
<1> DEFINE s == a % Bits
<1>1. l \in Nat /\ s \in Nat /\ a = l * Bits + s
  <2>1. Bits \in Nat /\ Bits > 0
    BY Numbers
  <2>2. l \in Nat /\ s \in 0 .. Bits - 1 /\ a = l * Bits + s
    BY <2>1, DivMod
  <2> QED
    BY <2>1, <2>2
<1>2. /\ pc' = "count" /\ out' = out
      /\ frame' = [loc |-> l, skip |-> s, acc |-> 0, pending |-> n, n |-> n, v |-> v,
                   for |-> for]
  BY DEF BeginCount, Goto
<1> HIDE DEF l, s
<1>3. CountBase' = a
  BY <1>2 DEF CountBase
<1>4. Agree(Ones', v, a, a + 0)
  BY DEF Agree
<1>5. CountExact'
  <2>1. CountBase' + frame'.acc = frame'.loc * Bits + frame'.skip
    BY <1>1, <1>2, <1>3
  <2>2. Agree(Ones', frame'.v, CountBase', CountBase' + frame'.acc)
    BY <1>2, <1>3, <1>4
  <2>3. Agree(Ones, frame.v, CountBase, CountBase + frame.acc)' <=>
          Agree(Ones', frame'.v, CountBase', CountBase' + frame'.acc)
    BY DEF Agree
  <2>4. /\ RunIn(Ones, arg.addr, arg.n, 0)' = RunIn(Ones', arg'.addr, arg'.n, 0)
        /\ RunIn(Ones, arg.addr, arg.n, 1)' = RunIn(Ones', arg'.addr, arg'.n, 1)
    BY DEF RunIn
  <2> QED
    BY <1>2, <2>1, <2>2, <2>3, <2>4 DEF CountExact
<1>6. Answers'
  BY <1>2 DEF Answers, ReadsExact, FindFirst, GrowRight
<1> QED
  BY <1>2, <1>5, <1>6 DEF ExactInv, FindExact

\* A call that is over at once and is not a search, with the answer it gives.
LEMMA AnswerDone ==
  ASSUME NEW f, f # "find", NEW a \in Args, NEW r, NEW o \in 0 .. Total,
         Call(f, a), Finish(r, o), a.n < HalfInt, a.gap < HalfInt,
         f \in {"set_extent", "count", "can_grow"} => a.addr + a.n < Word,
         f = "count" => CountIn(Ones', a.addr, a.n, a.v, r, o),
         f = "popcount" => o = Cardinality(Ones'),
         f = "get_bit" => r = IF a.addr >= Total THEN -1 ELSE IF a.addr \in Ones' THEN 1 ELSE 0,
         f = "can_grow" => GrowIn(Ones', a.addr, a.n, r)
  PROVE  ExactInv'
<1>1. pc' = "done" /\ op' = f /\ arg' = a /\ rc' = r /\ out' = o
  BY DEF Call, Finish
<1>2. Answers'
  BY <1>1, ReadsNow, GrowNow DEF Answers, FindFirst
<1> QED
  BY <1>1, <1>2 DEF ExactInv, Sized, CountExact, FindExact

LEMMA CountCallExact ==
  ASSUME SafeInv, ExactInv, NEW a \in 0 .. Word - 1, NEW n \in 0 .. Word - 1, a + n < Word,
         n < HalfInt, NEW v \in {0, 1}, bm_count(a, n, v)
  PROVE  ExactInv'
<1> DEFINE b == [NoArg EXCEPT !.addr = a, !.n = n, !.v = v]
<1>0. /\ a \in Nat /\ n \in Nat /\ Total \in Nat /\ Total > 0 /\ HalfInt > 0
  BY Numbers DEF HalfInt
<1>1. b \in Args /\ b.addr = a /\ b.n = n /\ b.v = v /\ b.gap = 0
  BY <1>0, NoArgType DEF NoArg
<1>2. Call("count", b)
  BY DEF bm_count
<1>3. ~ OutOfRange(a, n) <=> a < Total /\ a + n <= Total
  BY <1>0, RangeFits
<1> HIDE DEF b
<1>4. ASSUME NEW r, Finish(r, 0), CountIn(Ones', a, n, v, r, 0) PROVE ExactInv'
  BY <1>0, <1>1, <1>2, <1>4, AnswerDone
<1>5. CASE OutOfRange(a, n) /\ Finish(-1, 0)
  BY <1>0, <1>3, <1>4, <1>5 DEF CountIn
<1>6. CASE ~ OutOfRange(a, n) /\ n = 0 /\ Finish(0, 0)
  <2>1. RunIn(Ones', a, n, v) \in 0 .. n
    BY <1>0, RunExists
  <2>2. RunIn(Ones', a, n, v) = 0
    BY <1>6, <2>1
  <2> QED
    BY <1>0, <1>3, <1>4, <1>6, <2>2 DEF CountIn
<1>7. CASE ~ OutOfRange(a, n) /\ n > 0 /\ BeginCount(a, n, v, "count")
  <2>1. op' = "count" /\ arg' = b
    BY <1>2 DEF Call
  <2>2. Sized'
    BY <1>1, <1>0, <2>1 DEF Sized
  <2>3. out \in 0 .. Total
    BY DEF ExactInv
  <2> QED
    BY <1>0, <1>1, <1>7, <2>1, <2>2, <2>3, CountBegunExact
<1> QED
  BY <1>5, <1>6, <1>7 DEF bm_count

LEMMA CanGrowExact ==
  ASSUME SafeInv, ExactInv, NEW a \in 0 .. Word - 1, NEW n \in 0 .. Word - 1, a + n < Word,
         n < HalfInt, bm_extent_can_grow(a, n)
  PROVE  ExactInv'
<1> DEFINE b == [NoArg EXCEPT !.addr = a, !.n = n]
<1>0. /\ a \in Nat /\ n \in Nat /\ Total \in Nat /\ Total > 0 /\ HalfInt > 0
      /\ 0 \in 0 .. Word - 1
  BY Numbers DEF HalfInt
<1>1. b \in Args /\ b.addr = a /\ b.n = n /\ b.gap = 0
  BY <1>0, NoArgType DEF NoArg
<1>2. Call("can_grow", b)
  BY DEF bm_extent_can_grow
<1>3. ~ OutOfRange(a, n) <=> a < Total /\ a + n <= Total
  BY <1>0, RangeFits
<1> HIDE DEF b
<1>4. CASE (OutOfRange(a, n) \/ n = 0) /\ Finish(-1, 0)
  <2>1. ~ (n > 0 /\ a + n <= Total)
    BY <1>0, <1>3, <1>4
  <2>2. GrowIn(Ones', a, n, -1)
    BY <2>1 DEF GrowIn
  <2> QED
    BY <1>0, <1>1, <1>2, <1>4, <2>2, AnswerDone
<1>5. CASE n > 0 /\ BeginCount(a, n, 0, "zeros")
  <2>1. op' = "can_grow" /\ arg' = b
    BY <1>2 DEF Call
  <2>2. Sized'
    BY <1>1, <1>0, <2>1 DEF Sized
  <2>3. out \in 0 .. Total
    BY DEF ExactInv
  <2> QED
    BY <1>0, <1>1, <1>5, <2>1, <2>2, <2>3, CountBegunExact
<1> QED
  BY <1>4, <1>5 DEF bm_extent_can_grow

\* bm_count returns the run it was asked for.
LEMMA CountedExact ==
  ASSUME SafeInv, ExactInv, pc = "count", NEW c \in Nat,
         c = RunIn(Ones, CountBase, frame.n, frame.v), Counted(c),
         UNCHANGED <<bm, op, arg, old>>
  PROVE  ExactInv'
<1>1. /\ frame \in [loc : Nat, skip : Positions, acc : Nat, pending : Nat, n : Nat,
                   v : {0, 1}, for : {"count", "zeros", "ones", "rest"}]
      /\ op = IF frame.for = "count" THEN "count" ELSE "can_grow"
      /\ arg.addr + arg.n <= Total /\ frame.n <= arg.n
      /\ frame.for # "rest" => frame.n = arg.n
      /\ frame.acc + frame.pending = frame.n /\ frame.pending > 0
  BY DEF SafeInv, CountInv
<1>2. /\ arg.addr \in Nat /\ arg.n \in Nat /\ frame.n \in Nat /\ frame.n > 0 /\ arg.n > 0
      /\ Total \in Nat /\ arg.addr < Total
  <2>1. arg.addr \in Nat /\ arg.n \in Nat /\ Total \in Nat
    BY Numbers DEF SafeInv, Typed, Args
  <2>2. frame.n \in Nat /\ frame.n > 0
    BY <1>1
  <2> QED
    BY <1>1, <2>1, <2>2
<1>3. /\ frame.for = "count" => frame.v = arg.v
      /\ frame.for \in {"zeros", "rest"} => frame.v = 0
      /\ frame.for = "ones" => frame.v = 1
      /\ frame.for \in {"ones", "rest"} => RunIn(Ones, arg.addr, arg.n, 0) = 0
      /\ frame.for = "rest" => frame.n = arg.n - RunIn(Ones, arg.addr, arg.n, 1)
      /\ Sized /\ out \in 0 .. Total
  BY DEF ExactInv, CountExact
<1>4. Ones' = Ones /\ op' = op /\ arg' = arg /\ Sized'
  <2>1. op' = op /\ arg' = arg
    OBVIOUS
  <2> QED
    BY <1>3, <2>1, Same DEF Sized
<1>5. c <= frame.n
  <2>1. CountBase \in Nat
    BY <1>1, <1>2 DEF CountBase
  <2>2. RunIn(Ones, CountBase, frame.n, frame.v) \in 0 .. frame.n
    BY <1>2, <2>1, RunExists
  <2> QED
    BY <1>2, <2>2
<1>6. ASSUME NEW r, NEW o \in 0 .. Total, Finish(r, o),
             op = "count" => CountIn(Ones, arg.addr, arg.n, arg.v, r, o),
             op = "can_grow" => GrowIn(Ones, arg.addr, arg.n, r)
      PROVE  ExactInv'
  <2>1. pc' = "done" /\ rc' = r /\ out' = o
    BY <1>6 DEF Finish
  <2>2. Answers'
    BY <1>1, <1>4, <1>6, <2>1, ReadsNow, GrowNow DEF Answers, FindFirst
  <2> QED
    BY <1>4, <2>1, <2>2 DEF ExactInv, CountExact, FindExact
<1>7. CASE frame.for = "count" /\ Finish(0, c)
  <2>1. c = RunIn(Ones, arg.addr, arg.n, arg.v)
    BY <1>1, <1>3, <1>7 DEF CountBase
  <2>2. CountIn(Ones, arg.addr, arg.n, arg.v, 0, c)
    BY <1>1, <1>2, <2>1 DEF CountIn
  <2>3. c \in 0 .. Total
    BY <1>1, <1>2, <1>5
  <2> QED
    BY <1>1, <1>6, <1>7, <2>2, <2>3
<1>8. CASE frame.for = "zeros" /\ c > 0 /\ Finish(IF c = arg.n THEN 0 ELSE -2, 0)
  <2>1. c = RunIn(Ones, arg.addr, arg.n, 0)
    BY <1>1, <1>3, <1>8 DEF CountBase
  <2>2. GrowIn(Ones, arg.addr, arg.n, IF c = arg.n THEN 0 ELSE -2)
    BY <1>1, <1>2, <1>8, <2>1 DEF GrowIn
  <2> QED
    BY <1>1, <1>2, <1>6, <1>8, <2>2
<1>9. CASE frame.for = "zeros" /\ c = 0 /\ BeginCount(arg.addr, arg.n, 1, "ones")
  <2>1. RunIn(Ones', arg.addr, arg.n, 0) = 0
    BY <1>1, <1>3, <1>4, <1>9 DEF CountBase
  <2> QED
    BY <1>1, <1>2, <1>3, <1>4, <1>9, <2>1, CountBegunExact
<1>10. CASE frame.for = "ones" /\ c = arg.n /\ Finish(-3, 0)
  <2>1. c = RunIn(Ones, arg.addr, arg.n, 1) /\ RunIn(Ones, arg.addr, arg.n, 0) = 0
    BY <1>1, <1>3, <1>10 DEF CountBase
  <2>2. GrowIn(Ones, arg.addr, arg.n, -3)
    BY <1>1, <1>2, <1>10, <2>1 DEF GrowIn
  <2> QED
    BY <1>1, <1>2, <1>6, <1>10, <2>2
<1>11. CASE frame.for = "ones" /\ c # arg.n /\ BeginCount(arg.addr + c, arg.n - c, 0, "rest")
  <2> DEFINE a == arg.addr + c
  <2> DEFINE n == arg.n - c
  <2>1. /\ a \in Nat /\ n \in Nat /\ n > 0 /\ BeginCount(a, n, 0, "rest")
        /\ a = arg'.addr + (arg'.n - n)
    BY <1>1, <1>2, <1>4, <1>5, <1>11
  <2>2. c = RunIn(Ones, arg.addr, arg.n, 1)
    BY <1>1, <1>3, <1>11 DEF CountBase
  <2>3. /\ RunIn(Ones', arg'.addr, arg'.n, 0) = 0
        /\ n = arg'.n - RunIn(Ones', arg'.addr, arg'.n, 1)
    BY <1>3, <1>4, <1>11, <2>2
  <2> HIDE DEF a, n
  <2> QED
    BY <1>3, <1>4, <2>1, <2>3, CountBegunExact
<1>12. CASE frame.for = "rest" /\ Finish(IF c = frame.n THEN 0 ELSE -5, 0)
  <2> DEFINE ones == RunIn(Ones, arg.addr, arg.n, 1)
  <2>1. ones \in 0 .. arg.n
    BY <1>2, RunExists
  <2>2. RunIn(Ones, arg.addr, arg.n, 0) = 0 /\ frame.n = arg.n - ones /\ frame.v = 0
    BY <1>3, <1>12
  <2> HIDE DEF ones
  <2>3. arg.addr + (arg.n - frame.n) = arg.addr + ones /\ ones # arg.n
    BY <1>2, <2>1, <2>2
  <2>4. c = RunIn(Ones, arg.addr + ones, arg.n - ones, 0)
    BY <1>12, <2>2, <2>3 DEF CountBase
  <2>5. GrowIn(Ones, arg.addr, arg.n, IF c = frame.n THEN 0 ELSE -5)
    BY <1>1, <1>2, <2>2, <2>3, <2>4 DEF GrowIn, ones
  <2> QED
    BY <1>1, <1>2, <1>6, <1>12, <2>5
<1> QED
  BY <1>7, <1>8, <1>9, <1>10, <1>11, <1>12 DEF Counted, AfterOnes

\* What bm_count keeps while it counts, when sizes are ints.
LEMMA CountFacts ==
  ASSUME SafeInv, ExactInv, pc = "count"
  PROVE  /\ frame \in [loc : Nat, skip : Positions, acc : Nat, pending : Nat, n : Nat,
                      v : {0, 1}, for : {"count", "zeros", "ones", "rest"}]
         /\ frame.acc + frame.pending = frame.n /\ frame.pending > 0
         /\ frame.skip # 0 => frame.acc = 0
         /\ frame.n < HalfInt
         /\ CountBase \in Nat
         /\ CountBase + frame.acc = frame.loc * Bits + frame.skip
         /\ Agree(Ones, frame.v, CountBase, CountBase + frame.acc)
         /\ frame.loc \in 0 .. NBytes - 1 /\ bm[frame.loc] \in SUBSET Positions
         /\ frame.loc * Bits \in Nat
<1>1. /\ frame \in [loc : Nat, skip : Positions, acc : Nat, pending : Nat, n : Nat,
                   v : {0, 1}, for : {"count", "zeros", "ones", "rest"}]
      /\ frame.acc + frame.pending = frame.n /\ frame.pending > 0
      /\ frame.skip # 0 => frame.acc = 0
      /\ frame.n <= arg.n
  BY DEF SafeInv, CountInv
<1>2. arg.addr \in Nat /\ arg.n \in Nat /\ arg.n < HalfInt /\ HalfInt \in Int
  BY Numbers DEF SafeInv, Typed, Args, ExactInv, Sized, HalfInt
<1>3. frame.n \in Nat /\ frame.n < HalfInt /\ CountBase \in Nat
  BY <1>1, <1>2 DEF CountBase
<1>4. frame.loc \in 0 .. NBytes - 1 /\ bm[frame.loc] \in SUBSET Positions
  <2>1. BitmapType
    BY DEF SafeInv, Typed
  <2>2. frame.loc \in 0 .. NBytes - 1
    BY <2>1, BoundsHold DEF InBounds, BitmapType
  <2> QED
    BY <2>1, <2>2 DEF BitmapType
<1>5. frame.loc * Bits \in Nat
  BY <1>1, Numbers
<1> QED
  BY <1>1, <1>3, <1>4, <1>5 DEF ExactInv, CountExact

LEMMA CountOnExact ==
  ASSUME SafeInv, ExactInv, pc = "count", NEW k \in Nat, frame.skip + k = Bits,
         Agree(bm[frame.loc], frame.v, frame.skip, Bits),
         Goto("count", [frame EXCEPT !.loc = @ + 1, !.skip = 0, !.acc = @ + k,
                                     !.pending = @ - k]),
         UNCHANGED <<bm, op, arg, old>>
  PROVE  ExactInv'
<1> DEFINE at == frame.loc * Bits
<1>1. /\ frame \in [loc : Nat, skip : Positions, acc : Nat, pending : Nat, n : Nat,
                   v : {0, 1}, for : {"count", "zeros", "ones", "rest"}]
      /\ CountBase \in Nat /\ CountBase + frame.acc = at + frame.skip
      /\ Agree(Ones, frame.v, CountBase, CountBase + frame.acc)
      /\ frame.loc \in 0 .. NBytes - 1 /\ at \in Nat /\ Bits \in Nat
      /\ frame.skip \in Nat
  BY CountFacts, Numbers
<1>2. /\ frame' = [frame EXCEPT !.loc = @ + 1, !.skip = 0, !.acc = @ + k, !.pending = @ - k]
      /\ pc' = "count" /\ rc' = rc /\ out' = out /\ op' = op /\ arg' = arg /\ Ones' = Ones
  BY Same DEF Goto
<1>3. /\ frame'.loc = frame.loc + 1 /\ frame'.skip = 0 /\ frame'.acc = frame.acc + k
      /\ frame'.n = frame.n /\ frame'.v = frame.v /\ frame'.for = frame.for
  BY <1>1, <1>2
<1>4. Agree(Ones, frame.v, at + frame.skip, at + Bits)
  BY <1>1, AgreeByte
<1>5. (frame.loc + 1) * Bits = at + Bits
  BY <1>1
<1> HIDE DEF at
<1>6. CountBase + (frame.acc + k) = at + Bits
  BY <1>1
<1>7. Agree(Ones, frame.v, CountBase, CountBase + (frame.acc + k))
  BY <1>1, <1>4, <1>6, AgreeJoin
<1>8. CountBase' = CountBase
  BY <1>2, <1>3 DEF CountBase
<1>9. CountExact'
  <2>1. CountBase' + frame'.acc = frame'.loc * Bits + frame'.skip
    BY <1>1, <1>3, <1>5, <1>6, <1>8
  <2>2. Agree(Ones', frame'.v, CountBase', CountBase' + frame'.acc)
    BY <1>2, <1>3, <1>7, <1>8
  <2>3. Agree(Ones, frame.v, CountBase, CountBase + frame.acc)' <=>
          Agree(Ones', frame'.v, CountBase', CountBase' + frame'.acc)
    BY DEF Agree
  <2>4. /\ RunIn(Ones, arg.addr, arg.n, 0)' = RunIn(Ones', arg'.addr, arg'.n, 0)
        /\ RunIn(Ones, arg.addr, arg.n, 1)' = RunIn(Ones', arg'.addr, arg'.n, 1)
    BY DEF RunIn
  <2>5. /\ frame.for = "count" => frame.v = arg.v
        /\ frame.for \in {"zeros", "rest"} => frame.v = 0
        /\ frame.for = "ones" => frame.v = 1
        /\ frame.for \in {"ones", "rest"} => RunIn(Ones, arg.addr, arg.n, 0) = 0
        /\ frame.for = "rest" => frame.n = arg.n - RunIn(Ones, arg.addr, arg.n, 1)
    BY DEF ExactInv, CountExact
  <2> QED
    BY <1>2, <1>3, <2>1, <2>2, <2>3, <2>4, <2>5 DEF CountExact
<1> QED
  BY <1>2, <1>9 DEF ExactInv, Sized, FindExact, Answers, ReadsExact, FindFirst, GrowRight

\* A run that ends in this byte is what bm_count returns.
LEMMA CountEnds ==
  ASSUME SafeInv, ExactInv, pc = "count", NEW c \in Nat, c <= frame.pending,
         frame.skip + c <= Bits,
         Agree(bm[frame.loc], frame.v, frame.skip, frame.skip + c),
         c < frame.pending =>
           /\ frame.skip + c < Bits
           /\ ~ (frame.skip + c \in bm[frame.loc] <=> frame.v = 1)
  PROVE  RunIn(Ones, CountBase, frame.n, frame.v) = frame.acc + c
<1> DEFINE at == frame.loc * Bits
<1> DEFINE base == CountBase
<1>1. /\ base \in Nat /\ base + frame.acc = at + frame.skip
      /\ Agree(Ones, frame.v, base, base + frame.acc)
      /\ frame.loc \in 0 .. NBytes - 1 /\ at \in Nat /\ Bits \in Nat
      /\ frame.skip \in Nat /\ frame.acc \in Nat /\ frame.n \in Nat /\ frame.pending \in Nat
      /\ frame.acc + frame.pending = frame.n
  BY CountFacts, Numbers
<1>2. Agree(Ones, frame.v, at + frame.skip, at + (frame.skip + c))
  BY <1>1, AgreeByte
<1>3. c < frame.pending => ~ (at + (frame.skip + c) \in Ones <=> frame.v = 1)
  <2>1. frame.skip + c < Bits => frame.skip + c \in Positions
    BY <1>1 DEF Positions
  <2> QED
    BY <1>1, <2>1, OnesAt, OnesNow
<1> HIDE DEF at, base
<1> DEFINE m == frame.acc + c
<1>4. m \in 0 .. frame.n /\ base + m = at + (frame.skip + c) /\ (m < frame.n => c < frame.pending)
  BY <1>1
<1>5. Agree(Ones, frame.v, base, base + m)
  <2>1. base + frame.acc \in Nat /\ base + m \in Nat
    BY <1>1
  <2> HIDE DEF m
  <2>2. Agree(Ones, frame.v, base + frame.acc, base + m)
    BY <1>1, <1>2, <1>4
  <2> QED
    BY <1>1, <2>1, <2>2, AgreeJoin
<1> HIDE DEF m
<1>6. RunIn(Ones, base, frame.n, frame.v) = m
  BY <1>1, <1>3, <1>4, <1>5, RunLength
<1> QED
  BY <1>6 DEF m, base

LEMMA CountHeadExact ==
  ASSUME SafeInv, ExactInv, CountHead
  PROVE  ExactInv'
<1> DEFINE k == AtStart(frame.skip, frame.n)
<1> DEFINE c == byte_count_bits(frame.skip, k, bm[frame.loc], frame.v)
<1>1. /\ frame.skip \in Positions /\ frame.skip \in Nat /\ frame.skip < Bits /\ frame.n \in Nat
      /\ frame.acc = 0 /\ frame.pending = frame.n /\ frame.pending > 0 /\ Bits \in Nat
      /\ pc = "count" /\ UNCHANGED <<bm, op, arg, old>>
      /\ frame \in [loc : Nat, skip : Positions, acc : Nat, pending : Nat, n : Nat,
                     v : {0, 1}, for : {"count", "zeros", "ones", "rest"}]
  BY Numbers DEF SafeInv, CountInv, CountHead
<1>2. IF k = frame.pending \/ c < k
      THEN Counted(c)
      ELSE Goto("count", [frame EXCEPT !.loc = @ + 1, !.skip = 0, !.acc = c, !.pending = @ - k])
  BY DEF CountHead
<1>3. k \in Nat /\ k <= frame.n /\ frame.skip + k <= Bits /\ (k # frame.n => frame.skip + k = Bits)
  BY <1>1 DEF AtStart
<1>4. /\ c \in Nat /\ c <= k
      /\ Agree(bm[frame.loc], frame.v, frame.skip, frame.skip + c)
      /\ c < k => ~ (frame.skip + c \in bm[frame.loc] <=> frame.v = 1)
  <2> HIDE DEF k
  <2>1. k \in Int
    BY <1>3
  <2> QED
    BY <1>1, <1>3, <2>1, ByteCountBits
<1> HIDE DEF k, c
<1>5. CASE (k = frame.pending \/ c < k) /\ Counted(c)
  <2>1. c <= frame.pending /\ frame.skip + c <= Bits
    BY <1>1, <1>3, <1>4
  <2>2. c < frame.pending => frame.skip + c < Bits /\ c < k
    BY <1>1, <1>3, <1>4, <1>5
  <2>3. RunIn(Ones, CountBase, frame.n, frame.v) = frame.acc + c
    BY <1>1, <1>4, <2>1, <2>2, CountEnds
  <2>4. c = RunIn(Ones, CountBase, frame.n, frame.v)
    BY <1>1, <1>4, <2>3
  <2> QED
    BY <1>1, <1>4, <1>5, <2>4, CountedExact
<1>6. CASE /\ k # frame.pending /\ ~ (c < k)
           /\ Goto("count", [frame EXCEPT !.loc = @ + 1, !.skip = 0, !.acc = c, !.pending = @ - k])
  <2>1. c = k /\ c = 0 + k /\ frame.skip + k = Bits
    BY <1>1, <1>3, <1>4, <1>6
  <2>2. [frame EXCEPT !.loc = @ + 1, !.skip = 0, !.acc = c, !.pending = @ - k] =
        [frame EXCEPT !.loc = @ + 1, !.skip = 0, !.acc = @ + k, !.pending = @ - k]
    BY <1>1, <2>1
  <2>3. Agree(bm[frame.loc], frame.v, frame.skip, Bits)
    BY <1>4, <2>1
  <2> QED
    BY <1>1, <1>3, <1>6, <2>1, <2>2, <2>3, CountOnExact
<1> QED
  BY <1>2, <1>5, <1>6

LEMMA CountByteExact ==
  ASSUME SafeInv, ExactInv, CountByte
  PROVE  ExactInv'
<1> DEFINE byte == bm[frame.loc]
<1> DEFINE c == byte_count_bits(0, Limit(frame.pending), byte, frame.v)
<1> DEFINE same == byte = IF frame.v = 1 THEN Positions ELSE {}
<1> DEFINE mixed == byte # {} /\ byte # Positions
<1> DEFINE next == [frame EXCEPT !.loc = @ + 1, !.acc = @ + Bits, !.pending = @ - Bits]
<1>1. pc = "count" /\ frame.skip = 0 /\ UNCHANGED <<bm, op, arg, old>>
  BY DEF CountByte
<1>2. /\ frame.n \in Nat /\ frame.acc \in Nat /\ frame.pending \in Nat
      /\ frame.pending > 0 /\ frame.acc + frame.pending = frame.n
      /\ Bits \in Nat /\ Bits > 0 /\ Positions = 0 .. Bits - 1 /\ 0 \in Positions
      /\ frame \in [loc : Nat, skip : Positions, acc : Nat, pending : Nat, n : Nat,
                   v : {0, 1}, for : {"count", "zeros", "ones", "rest"}]
      /\ frame.pending < HalfInt /\ byte \subseteq Positions /\ frame.v \in {0, 1}
  <2>1. /\ frame \in [loc : Nat, skip : Positions, acc : Nat, pending : Nat, n : Nat,
                     v : {0, 1}, for : {"count", "zeros", "ones", "rest"}]
        /\ frame.acc + frame.pending = frame.n /\ frame.pending > 0 /\ frame.n < HalfInt
        /\ bm[frame.loc] \in SUBSET Positions
    BY <1>1, CountFacts
  <2>2. Bits \in Nat /\ Bits > 0 /\ Positions = 0 .. Bits - 1 /\ 0 \in Positions /\ HalfInt \in Int
    BY Numbers DEF Positions, HalfInt
  <2>3. frame.n \in Nat /\ frame.acc \in Nat /\ frame.pending \in Nat /\ frame.v \in {0, 1}
    BY <2>1
  <2>4. frame.pending < HalfInt
    BY <2>1, <2>2, <2>3
  <2> QED
    BY <2>1, <2>2, <2>3, <2>4
<1>3. \/ mixed /\ Counted(frame.acc + c)
      \/ ~ mixed /\ ~ same /\ Counted(frame.acc)
      \/ same /\ frame.pending <= Bits /\ Counted(frame.n)
      \/ same /\ frame.pending > Bits /\ Goto("count", next)
  BY DEF CountByte
<1> DEFINE run == RunIn(Ones, CountBase, frame.n, frame.v)
<1>4. ASSUME NEW m \in Nat, m <= frame.pending, m <= Bits, Agree(byte, frame.v, 0, m),
             m < frame.pending => m < Bits /\ ~ (m \in byte <=> frame.v = 1)
      PROVE  run = frame.acc + m
  <2>1. frame.skip + m = m
    BY <1>1
  <2> QED
    BY <1>1, <1>4, <2>1, CountEnds
<1>5. same => Agree(byte, frame.v, 0, Bits)
  BY <1>2 DEF Agree
<1>6. CASE mixed /\ Counted(frame.acc + c)
  <2>1. Limit(frame.pending) = frame.pending
    BY <1>2, Conversions DEF Limit
  <2>2. /\ c \in Nat /\ c <= Bits /\ c <= frame.pending
        /\ Agree(byte, frame.v, 0, c)
        /\ frame.pending <= Bits => (c < frame.pending => ~ (c \in byte <=> frame.v = 1))
        /\ frame.pending > Bits => (c < Bits => ~ (c \in byte <=> frame.v = 1))
    <3> DEFINE p == frame.pending
    <3>1. p \in Int /\ p >= 0 /\ c = byte_count_bits(0, p, byte, frame.v)
      BY <1>2, <2>1
    <3> DEFINE v == frame.v
    <3> HIDE DEF byte, p, v
    <3>2. LET d == byte_count_bits(0, p, byte, v)
          IN /\ d \in Nat /\ 0 + d <= Bits /\ (d <= p \/ d = 0)
             /\ p >= 0 /\ 0 + p <= Bits =>
                  /\ Agree(byte, v, 0, 0 + d)
                  /\ d < p => ~ (0 + d \in byte <=> v = 1)
             /\ p >= 0 /\ 0 + p > Bits =>
                  /\ Agree(byte, v, 0, 0 + d)
                  /\ 0 + d < Bits => ~ (0 + d \in byte <=> v = 1)
      BY <1>2, <3>1, ByteCountBits
    <3>3. 0 + p = p /\ (c \in Nat => 0 + c = c) /\ c = byte_count_bits(0, p, byte, v)
      BY <3>1 DEF v
    <3> HIDE DEF c
    <3>4. /\ c \in Nat /\ c <= Bits /\ (c <= p \/ c = 0)
          /\ p <= Bits => /\ Agree(byte, v, 0, c)
                          /\ c < p => ~ (c \in byte <=> v = 1)
          /\ p > Bits => /\ Agree(byte, v, 0, c)
                         /\ c < Bits => ~ (c \in byte <=> v = 1)
      BY <3>1, <3>2, <3>3
    <3>5. c <= p /\ (p <= Bits \/ p > Bits)
      BY <1>2, <3>1, <3>4
    <3> QED
      BY <3>4, <3>5 DEF p, v
  <2> HIDE DEF c
  <2>3. c # Bits
    <3> SUFFICES ASSUME c = Bits PROVE FALSE
      OBVIOUS
    <3>1. \A q \in Positions : q \in byte <=> frame.v = 1
      BY <1>2, <2>2 DEF Agree
    <3> QED
      BY <1>2, <1>6, <3>1
  <2> HIDE DEF byte, run
  <2>4. c < frame.pending => c < Bits /\ ~ (c \in byte <=> frame.v = 1)
    BY <1>2, <2>2, <2>3
  <2>5. run = frame.acc + c /\ frame.acc + c \in Nat
    BY <1>2, <1>4, <2>2, <2>4
  <2> QED
    BY <1>1, <1>6, <2>5, CountedExact DEF run
<1>7. CASE ~ mixed /\ ~ same /\ Counted(frame.acc)
  <2>1. ~ (0 \in byte <=> frame.v = 1)
    BY <1>2, <1>7
  <2>2. Agree(byte, frame.v, 0, 0)
    BY DEF Agree
  <2> HIDE DEF byte, run
  <2>3. run = frame.acc + 0
    BY <1>2, <1>4, <2>1, <2>2
  <2>4. run = frame.acc /\ frame.acc \in Nat
    BY <1>2, <2>3
  <2> QED
    BY <1>1, <1>7, <2>4, CountedExact DEF run
<1>8. CASE same /\ frame.pending <= Bits /\ Counted(frame.n)
  <2>1. Agree(byte, frame.v, 0, frame.pending)
    BY <1>2, <1>5, <1>8 DEF Agree
  <2> HIDE DEF byte, run
  <2>2. run = frame.acc + frame.pending
    BY <1>2, <1>4, <1>8, <2>1
  <2>3. run = frame.n
    BY <1>2, <2>2
  <2> QED
    BY <1>1, <1>2, <1>8, <2>3, CountedExact DEF run
<1>9. CASE same /\ frame.pending > Bits /\ Goto("count", next)
  <2>1. next = [frame EXCEPT !.loc = @ + 1, !.skip = 0, !.acc = @ + Bits, !.pending = @ - Bits]
    BY <1>1, <1>2
  <2>2. frame.skip + Bits = Bits /\ Agree(byte, frame.v, frame.skip, Bits)
    BY <1>1, <1>2, <1>5, <1>9
  <2> HIDE DEF next
  <2> QED
    BY <1>1, <1>2, <1>9, <2>1, <2>2, CountOnExact
<1> QED
  BY <1>3, <1>6, <1>7, <1>8, <1>9

LEMMA HalfFits == HalfInt \in Nat /\ HalfInt > 1
BY Numbers DEF HalfInt

\* A step to where nothing is answered yet.
LEMMA QuietExact ==
  ASSUME Sized', out' \in 0 .. Total, pc' \in {"idle", "head", "body", "tail"}
  PROVE  ExactInv'
BY DEF ExactInv, CountExact, FindExact, Answers, ReadsExact, FindFirst, GrowRight

LEMMA SetBitExact ==
  ASSUME NEW a \in 0 .. Word - 1, NEW v \in {0, 1}, bm_set_bit(a, v)
  PROVE  ExactInv'
<1> DEFINE b == [NoArg EXCEPT !.addr = a, !.n = 1, !.v = v]
<1>1. 1 \in 0 .. Word - 1 /\ HalfInt \in Nat /\ HalfInt > 1 /\ 0 \in 0 .. Total
  BY Numbers, HalfFits
<1>2. b \in Args /\ b.n = 1 /\ b.gap = 0 /\ Call("set_bit", b)
  BY <1>1, NoArgType DEF NoArg, bm_set_bit
<1>3. \E r : Finish(r, 0)
  BY DEF bm_set_bit
<1> HIDE DEF b
<1> QED
  BY <1>1, <1>2, <1>3, AnswerDone

LEMMA GetBitExact ==
  ASSUME NEW a \in 0 .. Word - 1, SafeInv, bm_get_bit(a)
  PROVE  ExactInv'
<1> DEFINE b == [NoArg EXCEPT !.addr = a]
<1>1. HalfInt \in Nat /\ HalfInt > 1 /\ 0 \in 0 .. Total /\ a \in Nat /\ Total \in Nat
  BY Numbers, HalfFits
<1>2. b \in Args /\ b.addr = a /\ b.n = 0 /\ b.gap = 0 /\ Call("get_bit", b)
  BY NoArgType DEF NoArg, bm_get_bit
<1>3. Ones' = Ones
  BY Same DEF bm_get_bit
<1> HIDE DEF b
<1>4. ASSUME NEW r, Finish(r, 0),
             r = IF a >= Total THEN -1 ELSE IF a \in Ones THEN 1 ELSE 0
      PROVE  ExactInv'
  BY <1>1, <1>2, <1>3, <1>4, AnswerDone
<1>5. CASE a >= Total /\ Finish(-1, 0)
  BY <1>4, <1>5
<1>6. CASE a < Total /\ Finish(IF a % Bits \in bm[a \div Bits] THEN 1 ELSE 0, 0)
  <2>1. a \in 0 .. NBytes * Bits - 1
    BY <1>1, <1>6, ByteCount
  <2>2. a \in Ones <=> a % Bits \in bm[a \div Bits]
    BY <2>1 DEF Ones
  <2> QED
    BY <1>1, <1>4, <1>6, <2>2
<1> QED
  BY <1>5, <1>6 DEF bm_get_bit

LEMMA WholeExact ==
  ASSUME SafeInv, bm_zero \/ bm_fill \/ bm_popcount
  PROVE  ExactInv'
<1>1. /\ HalfInt \in Nat /\ HalfInt > 1 /\ 0 \in 0 .. Total /\ Total \in Nat /\ Total > 0
      /\ NoArg \in Args /\ NoArg.n = 0 /\ NoArg.gap = 0
  <2>1. NoArg.n = 0 /\ NoArg.gap = 0
    BY DEF NoArg
  <2>2. NoArg \in Args
    BY NoArgType
  <2>3. HalfInt \in Nat /\ HalfInt > 1 /\ 0 \in 0 .. Total /\ Total \in Nat /\ Total > 0
    BY Numbers, HalfFits
  <2> QED
    BY <2>1, <2>2, <2>3
<1>2. CASE bm_zero \/ bm_fill
  BY <1>1, <1>2, AnswerDone DEF bm_zero, bm_fill
<1>3. CASE bm_popcount
  <2>1. Ones' = Ones /\ Ones \subseteq 0 .. Total - 1
    BY <1>3, Same DEF bm_popcount, SafeInv, Typed
  <2>2. {b \in Ones : b < Total} = Ones
    <3>1. \A b \in Ones : b < Total
      BY <1>1, <2>1
    <3> QED
      BY <3>1
  <2>3. Cardinality(Ones) \in 0 .. Total
    <3>1. IsFiniteSet(0 .. Total - 1) /\ Cardinality(0 .. Total - 1) = Total
      BY <1>1, FS_Interval
    <3>2. IsFiniteSet(Ones) /\ Cardinality(Ones) <= Total
      BY <2>1, <3>1, FS_Subset
    <3> QED
      BY <1>1, <3>2, FS_CardinalityType
  <2>4. Call("popcount", NoArg) /\ Finish(0, Cardinality(Ones))
    BY <1>3, <2>2 DEF bm_popcount
  <2> QED
    BY <1>1, <2>1, <2>3, <2>4, AnswerDone
<1> QED
  BY <1>2, <1>3

LEMMA SetExtentExact ==
  ASSUME ExactInv, NEW a \in 0 .. Word - 1, NEW n \in 0 .. Word - 1, a + n < Word,
         n < HalfInt, NEW v \in {0, 1}, bm_set_extent(a, n, v)
  PROVE  ExactInv'
<1> DEFINE b == [NoArg EXCEPT !.addr = a, !.n = n, !.v = v]
<1>1. HalfInt \in Nat /\ HalfInt > 1 /\ 0 \in 0 .. Total
  BY Numbers, HalfFits
<1>2. b \in Args /\ b.addr = a /\ b.n = n /\ b.gap = 0 /\ Call("set_extent", b)
  BY <1>1, NoArgType DEF NoArg, bm_set_extent
<1> HIDE DEF b
<1>3. CASE \E r : Finish(r, 0)
  BY <1>1, <1>2, <1>3, AnswerDone
<1>4. CASE \E to, fr : to \in {"head", "body"} /\ Goto(to, fr)
  <2>1. pc' \in {"head", "body"} /\ out' = out
    BY <1>4 DEF Goto
  <2>2. Sized'
    BY <1>1, <1>2 DEF Sized, Call
  <2> QED
    BY <2>1, <2>2, QuietExact DEF ExactInv
<1>5. IF a % Bits = 0 THEN "body" = (IF a % Bits = 0 THEN "body" ELSE "head")
                      ELSE "head" = (IF a % Bits = 0 THEN "body" ELSE "head")
  OBVIOUS
<1> QED
  BY <1>3, <1>4, <1>5 DEF bm_set_extent

LEMMA ExtentExactLoop ==
  ASSUME SafeInv, ExactInv, ExtentHead \/ ExtentBody \/ ExtentTail
  PROVE  ExactInv'
<1>1. op = "set_extent" /\ op' = op /\ arg' = arg
  BY DEF SafeInv, ExtentInv, ExtentHead, ExtentBody, ExtentTail
<1>2. Sized'
  BY <1>1 DEF ExactInv, Sized
<1>3. \/ Finish(0, 0)
      \/ \E to, fr : to \in {"body", "tail"} /\ Goto(to, fr)
  BY DEF ExtentHead, ExtentBody, ExtentTail
<1>4. CASE Finish(0, 0)
  <2>1. pc' = "done" /\ out' = 0 /\ 0 \in 0 .. Total
    BY <1>4, Numbers DEF Finish
  <2> QED
    BY <1>1, <1>2, <2>1 DEF ExactInv, CountExact, FindExact, Answers, ReadsExact, FindFirst,
                            GrowRight
<1>5. CASE \E to, fr : to \in {"body", "tail"} /\ Goto(to, fr)
  <2>1. pc' \in {"body", "tail"} /\ out' = out
    BY <1>5 DEF Goto
  <2> QED
    BY <1>2, <2>1, QuietExact DEF ExactInv
<1> QED
  BY <1>3, <1>4, <1>5

LEMMA ReturnExact ==
  ASSUME Return
  PROVE  ExactInv'
BY Numbers, HalfFits, QuietExact DEF Return, Sized, NoArg

-----------------------------------------------------------------------------
(* The answer of bm_find *)

\* The window, and the numbers a search works with.
LEMMA Window ==
  ASSUME SafeInv, ExactInv, pc = "find"
  PROVE  /\ arg.addr \in Nat /\ arg.n \in Nat /\ arg.gap \in Nat /\ arg.gap > 0
         /\ arg.gap < HalfInt /\ arg.addr < Total /\ Total \in Nat
         /\ WindowEnd = IF arg.addr + arg.n > Total THEN Total ELSE arg.addr + arg.n
         /\ WindowEnd \in Nat /\ WindowEnd <= Total
         /\ ToInt(frame.need) = frame.need /\ ToInt(arg.gap) = arg.gap
<1>1. /\ arg.addr \in Nat /\ arg.n \in Nat /\ arg.gap \in Nat /\ arg.gap > 0
      /\ frame.need \in Nat /\ frame.need > 0 /\ frame.need <= arg.gap
  BY FindFacts
<1>2. /\ op = "find" /\ arg.gap < HalfInt /\ arg.addr < Total /\ arg.addr + arg.n < Word
      /\ Total \in Nat /\ HalfInt \in Nat
  BY Numbers, HalfFits DEF SafeInv, FindInv, ExactInv, Sized, FindExact
<1>3. /\ InMap(arg.addr, arg.n) = IF arg.addr + arg.n > Total THEN Total - arg.addr ELSE arg.n
      /\ WindowEnd = arg.addr + InMap(arg.addr, arg.n)
  BY <1>1, <1>2, InMapFits DEF WindowEnd
<1>4. ToInt(frame.need) = frame.need /\ ToInt(arg.gap) = arg.gap
  BY <1>1, <1>2, Conversions
<1> QED
  BY <1>1, <1>2, <1>3, <1>4

\* bm_find fails.
LEMMA FindFails ==
  ASSUME SafeInv, ExactInv, pc = "find", NEW b \in Nat, NoneBefore(b),
         b + arg.gap > WindowEnd, Finish(-1, 0), UNCHANGED <<bm, op, arg, old>>
  PROVE  ExactInv'
<1>1. /\ op = "find" /\ op' = op /\ arg' = arg /\ Ones' = Ones
      /\ pc' = "done" /\ rc' = -1 /\ out' = 0 /\ 0 \in 0 .. Total
  BY Same, Numbers DEF SafeInv, FindInv, Finish
<1>2. GapsFound = {}
  <2>1. SUFFICES ASSUME NEW a \in GapsFound PROVE FALSE
    OBVIOUS
  <2>2. /\ a \in Nat /\ arg.addr <= a /\ a + arg.gap <= Total
        /\ a + arg.gap <= arg.addr + arg.n /\ FreeAt(a)
    BY Window DEF GapsFound, FreeAt
  <2>3. ~ (a < b)
    BY <2>2, Window DEF NoneBefore
  <2> QED
    BY <2>2, <2>3, Window
<1>3. GapsFound' = GapsFound
  BY <1>1 DEF GapsFound
<1>4. Answers'
  BY <1>1, <1>2, <1>3 DEF Answers, ReadsExact, FindFirst, GrowRight
<1> QED
  BY <1>1, <1>4 DEF ExactInv, Sized, CountExact, FindExact

\* bm_find has come to a gap, the first one: it is the answer if it ends in the window.
LEMMA FindEnds ==
  ASSUME SafeInv, ExactInv, pc = "find", NEW b \in Nat, arg.addr <= b, NoneBefore(b), FreeAt(b),
         b + arg.gap < Word, Found(b), UNCHANGED <<bm, op, arg, old>>
  PROVE  ExactInv'
<1>1. /\ arg.addr \in Nat /\ arg.n \in Nat /\ arg.gap \in Nat /\ arg.gap > 0
      /\ Total \in Nat /\ WindowEnd \in Nat
      /\ WindowEnd = IF arg.addr + arg.n > Total THEN Total ELSE arg.addr + arg.n
  BY Window
<1>2. U64(b + arg.gap) = b + arg.gap
  BY <1>1, Conversions
<1>3. CASE b + arg.gap > WindowEnd
  BY <1>2, <1>3, FindFails DEF Found
<1>4. CASE ~ (b + arg.gap > WindowEnd)
  <2>1. Finish(0, b)
    BY <1>2, <1>4 DEF Found
  <2>2. /\ op = "find" /\ op' = op /\ arg' = arg /\ Ones' = Ones
        /\ pc' = "done" /\ rc' = 0 /\ out' = b
    BY <2>1, Same DEF SafeInv, FindInv, Finish
  <2>3. b \in GapsFound /\ \A a \in GapsFound : b <= a
    <3>1. b + arg.gap <= arg.addr + arg.n /\ b \in arg.addr .. Total - arg.gap /\ b \in 0 .. Total
      BY <1>1, <1>4
    <3>2. b \in GapsFound
      BY <3>1 DEF GapsFound, FreeAt
    <3>3. ASSUME NEW a \in GapsFound PROVE b <= a
      <4>1. a \in Nat /\ arg.addr <= a /\ FreeAt(a)
        BY <1>1 DEF GapsFound, FreeAt
      <4> QED
        BY <1>1, <4>1 DEF NoneBefore
    <3> QED
      BY <3>2, <3>3
  <2>4. GapsFound' = GapsFound
    BY <2>2 DEF GapsFound
  <2>5. Answers'
    <3>1. arg'.gap # 0 /\ out' \in GapsFound' /\ \A a \in GapsFound' : out' <= a
      BY <1>1, <2>2, <2>3, <2>4
    <3>2. FindFirst'
      BY <2>2, <3>1 DEF FindFirst
    <3> QED
      BY <2>2, <3>2 DEF Answers, ReadsExact, GrowRight
  <2>6. b \in 0 .. Total
    BY <1>1, <1>4
  <2> QED
    BY <2>2, <2>5, <2>6 DEF ExactInv, Sized, CountExact, FindExact
<1> QED
  BY <1>3, <1>4

\* The search goes on.
LEMMA FindOnExact ==
  ASSUME SafeInv, ExactInv, pc = "find", Left > 0, NEW need \in Nat, NEW more \in BOOLEAN,
         NEW found \in Nat, On(need, more, found), UNCHANGED <<bm, op, arg, old>>,
         ~ more => need = arg.gap /\ arg.addr <= (frame.loc + 1) * Bits
                   /\ NoneBefore((frame.loc + 1) * Bits),
         more => /\ arg.addr <= found /\ found <= (frame.loc + 1) * Bits
                 /\ found + arg.gap = (frame.loc + 1) * Bits + need
                 /\ found .. (frame.loc + 1) * Bits - 1 \cap Ones = {}
                 /\ NoneBefore(found)
  PROVE  ExactInv'
<1> DEFINE at == (frame.loc + 1) * Bits
<1>1. /\ op = "find" /\ op' = op /\ arg' = arg /\ Ones' = Ones
      /\ pc' = "find" /\ rc' = rc /\ out' = out
      /\ frame' = [frame EXCEPT !.loc = @ + 1, !.skip = 0, !.count = Left,
                               !.need = need, !.more = more, !.found = found]
  BY Same DEF SafeInv, FindInv, On, Goto
<1>2. /\ frame'.loc = frame.loc + 1 /\ frame'.skip = 0 /\ frame'.count = Left
      /\ frame'.need = need /\ frame'.more = more /\ frame'.found = found
  BY <1>1, FindFacts
<1>3. at \in Nat /\ FindAt' = at
  <2>1. at \in Nat
    BY FindFacts, Numbers
  <2>2. FindAt' = at + 0
    BY <1>2 DEF FindAt
  <2> HIDE DEF at
  <2> QED
    BY <2>1, <2>2
<1>4. at + Left = WindowEnd
  <2> DEFINE base == frame.loc * Bits
  <2>1. /\ base \in Nat /\ at = base + Bits /\ frame.skip \in Nat /\ frame.count \in Nat
        /\ Left \in Nat /\ frame.skip + frame.count = Bits + Left /\ Bits \in Nat
        /\ base + frame.skip + frame.count = WindowEnd
    BY FindFacts, Numbers DEF ExactInv, FindExact, FindAt
  <2> HIDE DEF at, base
  <2> QED
    BY <2>1
<1>7. WindowEnd' = WindowEnd
  BY <1>1 DEF WindowEnd
<1> HIDE DEF at
<1>8. NoneBefore(at) => NoneBefore(FindAt)'
  BY <1>1, <1>3 DEF NoneBefore, FreeAt
<1>9. NoneBefore(found) => NoneBefore(frame.found)'
  BY <1>1, <1>2 DEF NoneBefore, FreeAt
<1>10. FindExact'
  <2>1. arg'.addr < Total /\ FindAt' + frame'.count = WindowEnd'
    BY <1>1, <1>2, <1>3, <1>4, <1>7 DEF ExactInv, FindExact
  <2>2. ~ more => need = arg.gap /\ arg.addr <= at /\ NoneBefore(at)
    BY DEF at
  <2>3. more => /\ arg.addr <= found /\ found <= at
                /\ found + arg.gap = at + need
                /\ found .. at - 1 \cap Ones = {}
                /\ NoneBefore(found)
    BY DEF at
  <2> QED
    BY <1>1, <1>2, <1>3, <1>8, <1>9, <2>1, <2>2, <2>3 DEF FindExact
<1>11. Answers'
  BY <1>1 DEF Answers, ReadsExact, FindFirst, GrowRight
<1> QED
  BY <1>1, <1>10, <1>11 DEF ExactInv, Sized, CountExact

\* Where the zeros a byte search stops at begin: the gap, or those the byte ends with.
Stop(g) == IF g.rc >= 0 THEN g.rc ELSE Bits - g.count

\* Before them, n zeros begin nowhere: there is a one before the byte ends.
LEMMA ByteOnes ==
  ASSUME NEW s \in Positions, NEW n \in Nat, n > 0, NEW byte,
         NEW p \in s .. Stop(byte_find_gap(s, n, byte)) - 1
  PROVE  \E q \in p .. p + n - 1 : q < Bits /\ q \in byte
<1> DEFINE g == byte_find_gap(s, n, byte)
<1>1. n \in Int /\ s \in Nat /\ Bits \in Nat
  BY Numbers
<1>2. /\ g.rc \in Int /\ g.rc >= -2 /\ g.count \in Nat
      /\ g.rc >= 0 => /\ g.rc \in s .. Bits - n
                      /\ \A x \in s .. g.rc - 1 : ~ Clear(byte, x, x + n - 1)
      /\ g.rc = -1 => g.count = 0
      /\ g.rc = -1 => \A x \in s .. Bits - 1 : ~ Clear(byte, x, Bits - 1)
      /\ g.rc < 0 => \A x \in s .. Bits - n : ~ Clear(byte, x, x + n - 1)
      /\ g.rc = -2 => \A x \in s .. Bits - g.count - 1 : ~ Clear(byte, x, Bits - 1)
  BY <1>1, ByteFindGap
<1>3. p \in s .. Stop(g) - 1
  OBVIOUS
<1> HIDE DEF g
<1>4. CASE g.rc >= 0
  <2>1. p \in s .. g.rc - 1 /\ p \in Nat /\ g.rc <= Bits - n
    BY <1>1, <1>2, <1>3, <1>4 DEF Stop
  <2>2. ~ Clear(byte, p, p + n - 1)
    BY <1>2, <1>4, <2>1
  <2>3. PICK q \in p .. p + n - 1 : q \in byte
    BY <2>2 DEF Clear
  <2> QED
    BY <1>1, <1>2, <2>1, <2>3
<1>5. CASE g.rc < 0
  <2>1. p \in s .. Bits - g.count - 1 /\ p \in Nat
    BY <1>1, <1>2, <1>3, <1>5 DEF Stop
  <2>2. g.rc = -1 \/ g.rc = -2
    BY <1>2, <1>5
  <2>3. ~ Clear(byte, p, Bits - 1)
    <3>1. g.rc = -1 => p \in s .. Bits - 1
      BY <1>1, <1>2, <2>1
    <3> QED
      BY <1>2, <2>1, <2>2, <3>1
  <2>4. CASE p <= Bits - n
    <3>1. p \in s .. Bits - n
      BY <1>1, <2>1, <2>4
    <3>2. ~ Clear(byte, p, p + n - 1)
      BY <1>2, <1>5, <3>1
    <3>3. PICK q \in p .. p + n - 1 : q \in byte
      BY <3>2 DEF Clear
    <3> QED
      BY <1>1, <2>1, <2>4, <3>3
  <2>5. CASE p > Bits - n
    <3>1. PICK q \in p .. Bits - 1 : q \in byte
      BY <2>3 DEF Clear
    <3>2. q \in p .. p + n - 1 /\ q < Bits
      BY <1>1, <2>1, <2>5
    <3> QED
      BY <3>1, <3>2
  <2> QED
    BY <1>1, <2>1, <2>4, <2>5
<1> QED
  BY <1>2, <1>4, <1>5

\* A one where a gap would be.
LEMMA OneBlocks ==
  ASSUME NEW l \in 0 .. NBytes - 1, NEW q \in Nat, q < Bits, q \in bm[l],
         NEW a \in Nat, arg.gap \in Nat, l * Bits + q \in a .. a + arg.gap - 1
  PROVE  ~ FreeAt(a)
<1>1. q \in Positions
  BY Numbers DEF Positions
<1>2. l * Bits + q \in Ones
  BY <1>1, OnesAt, OnesNow
<1> QED
  BY <1>2 DEF FreeAt

\* So no gap begins before where the search of a byte stops.
LEMMA NoneInByte ==
  ASSUME NEW l \in 0 .. NBytes - 1, NEW s \in Positions, NEW n \in Nat, n > 0,
         arg.addr \in Nat, arg.gap \in Nat, n <= arg.gap, NoneBefore(l * Bits + s),
         NEW e \in Nat, e <= Stop(byte_find_gap(s, n, bm[l])),
         byte_find_gap(s, n, bm[l]).rc \in Int, byte_find_gap(s, n, bm[l]).count \in Nat
  PROVE  NoneBefore(l * Bits + e)
<1> DEFINE at == l * Bits
<1> DEFINE stop == Stop(byte_find_gap(s, n, bm[l]))
<1>1. s \in Nat /\ Bits \in Nat /\ at \in Nat /\ stop \in Int
  BY Numbers DEF Stop
<1>2. \A p \in s .. stop - 1 : \E q \in p .. p + n - 1 : q < Bits /\ q \in bm[l]
  BY ByteOnes
<1>3. \A a \in arg.addr .. (at + s) - 1 : ~ FreeAt(a)
  BY DEF NoneBefore
<1>4. e <= stop
  OBVIOUS
<1> SUFFICES ASSUME NEW a \in arg.addr .. (at + e) - 1 PROVE ~ FreeAt(a)
  BY DEF NoneBefore
<1>5. ASSUME NEW q \in Nat, q < Bits, q \in bm[l], at + q \in a .. a + arg.gap - 1
      PROVE  ~ FreeAt(a)
  BY <1>1, <1>5, OneBlocks
<1> HIDE DEF at, stop
<1>6. CASE a < at + s
  BY <1>1, <1>3, <1>6
<1>7. CASE a >= at + s
  <2> DEFINE p == a - at
  <2>1. p \in s .. stop - 1 /\ a = at + p
    BY <1>1, <1>4, <1>7
  <2>2. PICK q \in p .. p + n - 1 : q < Bits /\ q \in bm[l]
    BY <1>2, <2>1
  <2>3. q \in Nat /\ at + q \in a .. a + arg.gap - 1
    BY <1>1, <2>1, <2>2
  <2> QED
    BY <1>5, <2>2, <2>3
<1> QED
  BY <1>1, <1>6, <1>7

\* Zeros of a byte are free bits.
LEMMA ClearFree ==
  ASSUME NEW l \in 0 .. NBytes - 1, NEW x \in Nat, NEW y \in Int, y < Bits, Clear(bm[l], x, y)
  PROVE  l * Bits + x .. l * Bits + y \cap Ones = {}
<1> SUFFICES ASSUME NEW b \in l * Bits + x .. l * Bits + y PROVE b \notin Ones
  OBVIOUS
<1>1. b - l * Bits \in x .. y /\ (b \in Ones <=> b - l * Bits \in bm[l])
  BY ByteRange
<1> QED
  BY <1>1 DEF Clear

\* A run of zeros that was begun and does not go on in this byte far enough: no gap
\* begins in it either.
LEMMA RunBroken ==
  ASSUME SafeInv, ExactInv, pc = "find", frame.more, frame.loc \in 0 .. NBytes - 1,
         LET g == byte_find_gap(0, frame.need, bm[frame.loc])
         IN g.rc # 0 /\ ~ (g.rc = -2 /\ g.count = Bits)
  PROVE  NoneBefore(FindAt)
<1> DEFINE byte == bm[frame.loc]
<1> DEFINE g == byte_find_gap(0, frame.need, byte)
<1> DEFINE at == frame.loc * Bits
<1>1. /\ frame.need \in Nat /\ frame.need > 0 /\ arg.gap \in Nat /\ arg.addr \in Nat
      /\ Bits \in Nat /\ Bits > 0 /\ 0 \in Positions /\ at \in Nat /\ frame.found \in Nat
      /\ frame.skip = 0
  BY FindFacts, Numbers DEF SafeInv, FindInv
<1>2. /\ arg.addr <= frame.found /\ frame.found <= FindAt
      /\ frame.found + arg.gap = FindAt + frame.need
      /\ NoneBefore(frame.found)
  BY DEF ExactInv, FindExact
<1>3. FindAt = at
  <2>1. FindAt = at + 0
    BY <1>1 DEF FindAt
  <2> HIDE DEF at
  <2> QED
    BY <1>1, <2>1
<1>4. /\ g.rc \in Int /\ g.rc >= -2 /\ g.count \in Nat
      /\ g.rc = -1 => g.count = 0
      /\ g.rc = -2 => g.count <= Bits
      /\ g.rc # 0 /\ ~ (g.rc = -2 /\ g.count = Bits)
  <2> DEFINE n == frame.need
  <2> DEFINE s == 0
  <2>1. n \in Int /\ n > 0 /\ s \in Positions /\ Bits - s = Bits
    BY <1>1
  <2> HIDE DEF n, s, byte
  <2>2. LET h == byte_find_gap(s, n, byte)
        IN /\ h.rc \in Int /\ h.rc >= -2 /\ h.count \in Nat
           /\ h.rc = -1 => h.count = 0
           /\ h.rc = -2 => h.count \in 1 .. Bits - s
    BY <2>1, ByteFindGap
  <2>3. LET h == byte_find_gap(s, n, byte) IN h.rc # 0 /\ ~ (h.rc = -2 /\ h.count = Bits)
    BY DEF s, n, byte
  <2>4. g = byte_find_gap(s, n, byte)
    BY DEF s, n
  <2> HIDE DEF g
  <2> QED
    BY <1>1, <2>1, <2>2, <2>3, <2>4
<1>5. 0 \in 0 .. Stop(g) - 1
  <2> HIDE DEF g
  <2> QED
    BY <1>1, <1>4 DEF Stop
<1>6. PICK q \in 0 .. 0 + frame.need - 1 : q < Bits /\ q \in byte
  BY <1>1, <1>5, ByteOnes
<1>7. ASSUME NEW a \in arg.addr .. FindAt - 1 PROVE ~ FreeAt(a)
  <2>1. CASE a < frame.found
    BY <1>1, <1>2, <2>1 DEF NoneBefore
  <2>2. CASE a >= frame.found
    <3>1. q \in Nat /\ a \in Nat
      BY <1>1
    <3>2. at + q \in a .. a + arg.gap - 1
      <4> HIDE DEF at
      <4> QED
        BY <1>1, <1>2, <1>3, <1>6, <2>2
    <3> QED
      BY <1>1, <1>6, <3>1, <3>2, OneBlocks
  <2> QED
    BY <1>1, <2>1, <2>2
<1> QED
  BY <1>7 DEF NoneBefore

LEMMA FindByteExact ==
  ASSUME SafeInv, ExactInv, FindByte
  PROVE  ExactInv'
<1> DEFINE l == frame.loc
<1> DEFINE s == frame.skip
<1> DEFINE byte == bm[l]
<1> DEFINE at == l * Bits
<1> DEFINE first == byte_find_gap(s, frame.need, byte)
<1> DEFINE more == frame.more /\ ~ Stale(first)
<1> DEFINE need == IF Stale(first) THEN arg.gap ELSE frame.need
<1> DEFINE g == byte_find_gap(s, need, byte)
<1> DEFINE from == IF more THEN frame.found ELSE (l + 1) * Bits - g.count
<1>1. pc = "find" /\ UNCHANGED <<bm, op, arg, old>>
  BY DEF FindByte
<1>2. ToInt(frame.need) = frame.need /\ ToInt(arg.gap) = arg.gap
  BY <1>1, Window
<1>3. \/ g.rc >= 0 /\ ~ more /\ Found(at + g.rc)
      \/ g.rc >= 0 /\ more /\ need = g.count /\ Found(from)
      \/ g.rc >= 0 /\ more /\ need # g.count /\ On(need - g.count, TRUE, from)
      \/ g.rc = -1 /\ (arg.gap > Left \/ Left = 0) /\ Finish(-1, 0)
      \/ g.rc = -1 /\ ~ (arg.gap > Left \/ Left = 0) /\ On(arg.gap, FALSE, frame.found)
      \/ g.rc = -2 /\ (Left = 0 \/ need - g.count > Left) /\ Finish(-1, 0)
      \/ g.rc = -2 /\ ~ (Left = 0 \/ need - g.count > Left) /\ On(need - g.count, TRUE, from)
  BY <1>2 DEF FindByte
<1>4. /\ l \in Nat /\ s \in Positions /\ s \in Nat /\ s < Bits /\ at \in Nat
      /\ (l + 1) * Bits = at + Bits /\ FindAt = at + s /\ Bits \in Nat /\ Bits > 0
      /\ frame.need \in Nat /\ frame.need > 0 /\ frame.need <= arg.gap
      /\ frame.found \in Nat /\ frame.more \in BOOLEAN
      /\ arg.addr \in Nat /\ arg.gap \in Nat /\ arg.gap > 0 /\ Left \in Nat
      /\ frame.more => s = 0
  <2>1. frame.more => s = 0
    BY <1>1 DEF SafeInv, FindInv
  <2>2. FindAt = at + s /\ Bits \in Nat /\ Bits > 0
    BY Numbers DEF FindAt
  <2>3. arg.gap > 0
    BY <1>1, Window
  <2> QED
    BY <1>1, <2>1, <2>2, <2>3, FindFacts
<1>5. l \in 0 .. NBytes - 1 /\ at + Bits < Word
  <2>1. l \in 0 .. NBytes - 1
    BY <1>1, BoundsHold DEF InBounds, SafeInv, Typed, BitmapType
  <2>2. at + Bits <= NBytes * Bits
    BY <1>4, <2>1, Numbers, ByteCount, Further
  <2> HIDE DEF at
  <2> QED
    BY <1>4, <2>1, <2>2, Numbers, ByteCount
<1>6. need \in Nat /\ need > 0 /\ need <= arg.gap
  BY <1>4
<1>7. /\ g.rc \in Int /\ g.rc >= -2 /\ g.count \in Nat
      /\ g.rc >= 0 => /\ g.count = need /\ g.rc \in s .. Bits - need
                      /\ Clear(byte, g.rc, g.rc + need - 1)
      /\ g.rc = -1 => g.count = 0
      /\ g.rc = -2 => /\ g.count \in 1 .. Bits - s /\ g.count < need
                      /\ Clear(byte, Bits - g.count, Bits - 1)
  <2>1. need \in Int
    BY <1>6
  <2> HIDE DEF need, byte
  <2> QED
    BY <1>4, <1>6, <2>1, ByteFindGap
\* Without a run that goes on, no gap begins before this byte.
<1>8. ~ more => need = arg.gap /\ arg.addr <= FindAt /\ NoneBefore(FindAt)
  <2>1. CASE ~ frame.more
    <3>1. ~ Stale(first)
      BY <2>1 DEF Stale
    <3> QED
      BY <1>1, <2>1, <3>1 DEF ExactInv, FindExact
  <2>2. CASE frame.more /\ Stale(first)
    <3>1. arg.addr <= FindAt
      <4>1. arg.addr <= frame.found /\ frame.found <= FindAt
        BY <1>1, <2>2 DEF ExactInv, FindExact
      <4>2. FindAt \in Nat
        BY <1>4
      <4> QED
        BY <1>4, <4>1, <4>2
    <3>2. first = byte_find_gap(0, frame.need, byte) /\ Bits - s = Bits
      BY <1>4, <2>2
    <3>3. first.rc # 0 /\ ~ (first.rc = -2 /\ first.count = Bits)
      BY <2>2, <3>2 DEF Stale
    <3>4. NoneBefore(FindAt)
      BY <1>1, <1>5, <2>2, <3>2, <3>3, RunBroken
    <3> QED
      BY <2>2, <3>1, <3>4
  <2> QED
    BY <2>1, <2>2
\* With one, it begins at found and this byte is as it has to be.
<1>9. more => /\ need = frame.need /\ s = 0 /\ FindAt = at
              /\ g.rc = 0 \/ g.rc = -1 \/ (g.rc = -2 /\ g.count = Bits)
              /\ arg.addr <= frame.found /\ frame.found <= at
              /\ frame.found + arg.gap = at + need
              /\ frame.found .. at - 1 \cap Ones = {}
              /\ NoneBefore(frame.found)
  <2> SUFFICES ASSUME more
               PROVE  /\ need = frame.need /\ s = 0 /\ FindAt = at
                      /\ g.rc = 0 \/ g.rc = -1 \/ (g.rc = -2 /\ g.count = Bits)
                      /\ arg.addr <= frame.found /\ frame.found <= at
                      /\ frame.found + arg.gap = at + need
                      /\ frame.found .. at - 1 \cap Ones = {}
                      /\ NoneBefore(frame.found)
    OBVIOUS
  <2>1. need = frame.need /\ g = first /\ s = 0 /\ Bits - frame.skip = Bits
    BY <1>4
  <2>2. FindAt = at
    <3> HIDE DEF at
    <3> QED
      BY <1>4, <2>1
  <2>3. g.rc = 0 \/ g.rc = -1 \/ (g.rc = -2 /\ g.count = Bits)
    BY <2>1 DEF Stale
  <2>4. /\ arg.addr <= frame.found /\ frame.found <= FindAt
        /\ frame.found + arg.gap = FindAt + frame.need
        /\ frame.found .. FindAt - 1 \cap Ones = {}
        /\ NoneBefore(frame.found)
    BY <1>1 DEF ExactInv, FindExact
  <2> HIDE DEF at, g, need
  <2> QED
    BY <2>1, <2>2, <2>3, <2>4
\* No gap begins in this byte before the zeros its search stops at.
<1>10. NoneBefore(FindAt) => \A e \in Nat : e <= Stop(g) => NoneBefore(at + e)
  <2> SUFFICES ASSUME NoneBefore(FindAt), NEW e \in Nat, e <= Stop(g) PROVE NoneBefore(at + e)
    OBVIOUS
  <2>1. NoneBefore(l * Bits + s) /\ e <= Stop(byte_find_gap(s, need, bm[l]))
    BY <1>4
  <2>2. byte_find_gap(s, need, bm[l]).rc \in Int /\ byte_find_gap(s, need, bm[l]).count \in Nat
    BY <1>7
  <2> HIDE DEF s, l, need, g
  <2> QED
    BY <1>4, <1>5, <1>6, <2>1, <2>2, NoneInByte
<1>11. WindowEnd \in Nat /\ (Left = 0 => WindowEnd <= at + Bits) /\ (Left > 0 => WindowEnd = at + Bits + Left)
  <2>1. /\ frame.count \in Nat /\ WindowEnd \in Nat
        /\ frame.skip + frame.count > Bits <=> Left > 0
        /\ Left > 0 => frame.skip + frame.count = Bits + Left
    BY <1>1, FindFacts, Window
  <2>2. at + s + frame.count = WindowEnd
    BY <1>1, <1>4 DEF ExactInv, FindExact
  <2> HIDE DEF at
  <2> QED
    BY <1>4, <2>1, <2>2
\* What is left of a run of zeros at the end of this byte.
<1>12. g.rc = -2 =>
         /\ from \in Nat /\ arg.addr <= from /\ from <= at + Bits
         /\ from + arg.gap = at + Bits + (need - g.count)
         /\ from .. at + Bits - 1 \cap Ones = {}
         /\ NoneBefore(from)
  <2> SUFFICES ASSUME g.rc = -2
               PROVE  /\ from \in Nat /\ arg.addr <= from /\ from <= at + Bits
                      /\ from + arg.gap = at + Bits + (need - g.count)
                      /\ from .. at + Bits - 1 \cap Ones = {}
                      /\ NoneBefore(from)
    OBVIOUS
  <2> DEFINE e == Bits - g.count
  <2> HIDE DEF g, byte
  <2>1. e \in Nat /\ e >= s /\ e <= Stop(g) /\ g.count \in Nat /\ g.count <= Bits /\ Clear(byte, e, Bits - 1)
    BY <1>4, <1>7 DEF Stop
  <2>2. at + e .. at + (Bits - 1) \cap Ones = {}
    <3>1. Bits - 1 \in Int /\ Bits - 1 < Bits
      BY <1>4
    <3> HIDE DEF e
    <3> QED
      BY <1>5, <2>1, <3>1, ClearFree DEF byte
  <2>3. CASE ~ more
    <3>1. from = at + e
      <4>1. from = (l + 1) * Bits - g.count
        BY <2>3
      <4> HIDE DEF from, at
      <4> QED
        BY <1>4, <2>1, <4>1
    <3>2. NoneBefore(from)
      BY <1>8, <1>10, <2>1, <2>3, <3>1
    <3>3. need = arg.gap /\ arg.addr <= FindAt
      BY <1>8, <2>3
    <3> HIDE DEF at, more, need, from, s
    <3> QED
      BY <1>4, <2>1, <2>2, <3>1, <3>2, <3>3
  <2>4. CASE more
    <3>1. from = frame.found /\ g.count = Bits /\ e = 0
      BY <1>4, <1>9, <2>4
    <3>2. /\ arg.addr <= frame.found /\ frame.found <= at
          /\ frame.found + arg.gap = at + need
          /\ frame.found .. at - 1 \cap Ones = {}
          /\ NoneBefore(frame.found)
      BY <1>9, <2>4
    <3> HIDE DEF at, more, need, from, s
    <3> QED
      BY <1>4, <1>6, <2>1, <2>2, <3>1, <3>2
  <2> QED
    BY <2>3, <2>4
\* No run of zeros reaches the end of this byte.
<1>13. g.rc = -1 => NoneBefore(at + Bits)
  <2> SUFFICES ASSUME g.rc = -1 PROVE NoneBefore(at + Bits)
    OBVIOUS
  <2>1. Bits <= Stop(g)
    BY <1>4, <1>7 DEF Stop
  <2>2. NoneBefore(FindAt)
    <3>1. CASE ~ more
      BY <1>8, <3>1
    <3>2. CASE more
      <4>1. g = byte_find_gap(0, frame.need, byte) /\ frame.more
        BY <1>9, <3>2
      <4>2. g.rc # 0 /\ ~ (g.rc = -2 /\ g.count = Bits)
        OBVIOUS
      <4> QED
        BY <1>1, <1>5, <4>1, <4>2, RunBroken
    <3> QED
      BY <3>1, <3>2
  <2> QED
    BY <1>4, <1>10, <2>1, <2>2
<1>14. CASE g.rc >= 0 /\ ~ more /\ Found(at + g.rc)
  <2> DEFINE b == at + g.rc
  <2>1. need = arg.gap /\ arg.addr <= FindAt /\ NoneBefore(FindAt)
    BY <1>8, <1>14
  <2>2. g.rc \in Nat /\ g.rc >= s /\ g.rc <= Bits - arg.gap /\ g.rc <= Stop(g)
        /\ Clear(byte, g.rc, g.rc + arg.gap - 1)
    <3> HIDE DEF g, byte, need
    <3> QED
      BY <1>4, <1>6, <1>7, <1>14, <2>1 DEF Stop
  <2>3. NoneBefore(b)
    BY <1>10, <2>1, <2>2
  <2>4. FreeAt(b)
    <3> DEFINE y == g.rc + arg.gap - 1
    <3> HIDE DEF g, byte
    <3>1. y \in Int /\ y < Bits /\ Clear(byte, g.rc, y)
      BY <1>4, <2>2
    <3>2. at + y = b + arg.gap - 1
      <4> HIDE DEF at
      <4> QED
        BY <1>4, <2>2
    <3> HIDE DEF y
    <3>3. at + g.rc .. at + y \cap Ones = {}
      BY <1>5, <2>2, <3>1, ClearFree DEF byte
    <3> QED
      BY <3>2, <3>3 DEF FreeAt
  <2>5. b \in Nat /\ arg.addr <= b /\ b + arg.gap < Word
    <3> HIDE DEF at, g, s
    <3> QED
      BY <1>4, <1>5, <2>1, <2>2, Numbers
  <2>6. Found(b)
    BY <1>14
  <2> HIDE DEF b
  <2> QED
    BY <1>1, <2>3, <2>4, <2>5, <2>6, FindEnds
<1>15. CASE g.rc >= 0 /\ more /\ need = g.count /\ Found(from)
  <2>1. g.rc = 0 /\ from = frame.found /\ s = 0
    BY <1>9, <1>15
  <2>2. /\ arg.addr <= frame.found /\ frame.found <= at
        /\ frame.found + arg.gap = at + need
        /\ frame.found .. at - 1 \cap Ones = {}
        /\ NoneBefore(frame.found)
    BY <1>9, <1>15
  <2>3. need <= Bits /\ Clear(byte, 0, need - 1)
    <3> HIDE DEF g, byte, need
    <3> QED
      BY <1>4, <1>6, <1>7, <2>1
  <2>4. at .. at + (need - 1) \cap Ones = {}
    <3> DEFINE x == 0
    <3> DEFINE y == need - 1
    <3> HIDE DEF need, byte
    <3>1. x \in Nat /\ y \in Int /\ y < Bits /\ Clear(byte, x, y)
      BY <1>4, <1>6, <2>3
    <3> HIDE DEF x, y
    <3>2. at + x .. at + y \cap Ones = {}
      BY <1>5, <3>1, ClearFree DEF byte
    <3>3. at + x = at
      <4> HIDE DEF at
      <4> QED
        BY <1>4 DEF x
    <3> QED
      BY <3>2, <3>3 DEF y
  <2> HIDE DEF at, need, from
  <2>5. FreeAt(frame.found)
    <3>1. ASSUME NEW b \in frame.found .. frame.found + arg.gap - 1 PROVE b \notin Ones
      <4>1. b \in frame.found .. at - 1 \/ b \in at .. at + (need - 1)
        BY <1>4, <1>6, <2>2
      <4> QED
        BY <2>2, <2>4, <4>1
    <3> QED
      BY <3>1 DEF FreeAt
  <2>6. frame.found + arg.gap < Word
    BY <1>4, <1>5, <1>6, <2>2, <2>3, Numbers
  <2> QED
    BY <1>1, <1>4, <1>15, <2>1, <2>2, <2>5, <2>6, FindEnds
<1>16. CASE g.rc >= 0 /\ more /\ need # g.count /\ On(need - g.count, TRUE, from)
  BY <1>7, <1>16
<1>17. CASE g.rc = -1 /\ (arg.gap > Left \/ Left = 0) /\ Finish(-1, 0)
  <2> HIDE DEF at
  <2>1. at + Bits \in Nat /\ at + Bits + arg.gap > WindowEnd
    BY <1>4, <1>11, <1>17
  <2> QED
    BY <1>1, <1>13, <1>17, <2>1, FindFails
<1>18. CASE g.rc = -1 /\ ~ (arg.gap > Left \/ Left = 0) /\ On(arg.gap, FALSE, frame.found)
  <2>1. arg.addr <= at + Bits
    <3>1. arg.addr <= FindAt
      <4>1. (frame.found <= FindAt /\ arg.addr <= frame.found) \/ arg.addr <= FindAt
        BY <1>8, <1>9
      <4> HIDE DEF at
      <4> QED
        BY <1>4, <4>1
    <3> HIDE DEF at, s
    <3> QED
      BY <1>4, <3>1
  <2>2. Left > 0
    BY <1>4, <1>18
  <2>3. arg.addr <= (frame.loc + 1) * Bits /\ NoneBefore((frame.loc + 1) * Bits)
    BY <1>4, <1>13, <1>18, <2>1
  <2> QED
    BY <1>1, <1>4, <1>18, <2>2, <2>3, FindOnExact
<1>19. CASE g.rc = -2 /\ (Left = 0 \/ need - g.count > Left) /\ Finish(-1, 0)
  <2> HIDE DEF at, need, from, g
  <2>1. from + arg.gap > WindowEnd
    BY <1>4, <1>6, <1>7, <1>11, <1>12, <1>19
  <2> QED
    BY <1>1, <1>12, <1>19, <2>1, FindFails
<1>20. CASE g.rc = -2 /\ ~ (Left = 0 \/ need - g.count > Left) /\ On(need - g.count, TRUE, from)
  <2> DEFINE to == (frame.loc + 1) * Bits
  <2>1. to = at + Bits
    BY <1>4
  <2> HIDE DEF at, need, from, g
  <2>2. Left > 0 /\ need - g.count \in Nat
    BY <1>4, <1>6, <1>7, <1>20
  <2> HIDE DEF to
  <2>3. /\ from \in Nat /\ arg.addr <= from /\ from <= to
        /\ from + arg.gap = to + (need - g.count)
        /\ from .. to - 1 \cap Ones = {}
        /\ NoneBefore(from)
    <3>1. at + Bits - 1 = (at + Bits) - 1
      BY <1>4
    <3> QED
      BY <1>12, <1>20, <2>1, <3>1
  <2> QED
    BY <1>1, <1>20, <2>2, <2>3, FindOnExact DEF to
<1> QED
  BY <1>3, <1>14, <1>15, <1>16, <1>17, <1>18, <1>19, <1>20

LEMMA FindCallExact ==
  ASSUME SafeInv, ExactInv, NEW a \in 0 .. Word - 1, NEW n \in 0 .. Word - 1, a + n < Word,
         n < HalfInt, NEW g \in 0 .. Word - 1, g < HalfInt, bm_find(a, n, g)
  PROVE  ExactInv'
<1> DEFINE b == [NoArg EXCEPT !.addr = a, !.n = n, !.gap = g]
<1>0. /\ a \in Nat /\ n \in Nat /\ g \in Nat /\ Total \in Nat /\ Total > 0 /\ 0 \in 0 .. Total
  BY Numbers
<1>1. b \in Args /\ b.addr = a /\ b.n = n /\ b.gap = g
  BY <1>0, NoArgType DEF NoArg
<1>2. op' = "find" /\ arg' = b /\ Ones' = Ones
  BY Same DEF bm_find, Call
<1> HIDE DEF b
<1>3. Sized'
  BY <1>1, <1>2 DEF Sized
<1>4. CASE (a >= Total \/ g = 0 \/ n = 0 \/ g > n) /\ Finish(-1, 0)
  <2>1. pc' = "done" /\ rc' = -1 /\ out' = 0
    BY <1>4 DEF Finish
  <2>2. g = 0 \/ GapsFound' = {}
    <3>1. SUFFICES ASSUME g # 0, NEW x \in GapsFound' PROVE FALSE
      OBVIOUS
    <3>2. x \in a .. Total - g /\ x + g <= a + n
      BY <1>1, <1>2 DEF GapsFound
    <3> QED
      BY <1>0, <1>4, <3>1, <3>2
  <2>3. Answers'
    BY <1>1, <1>2, <2>1, <2>2 DEF Answers, ReadsExact, FindFirst, GrowRight
  <2> QED
    BY <1>0, <1>3, <2>1, <2>3 DEF ExactInv, CountExact, FindExact
<1>5. CASE /\ a < Total /\ g > 0 /\ n > 0
           /\ Goto("find", [loc |-> a \div Bits, skip |-> a % Bits, count |-> InMap(a, n),
                            need |-> g, more |-> FALSE, found |-> 0])
  <2> DEFINE l == a \div Bits
  <2> DEFINE s == a % Bits
  <2>1. a = l * Bits + s
    BY <1>0, Numbers, DivMod
  <2>2. /\ pc' = "find" /\ out' = out
        /\ frame' = [loc |-> l, skip |-> s, count |-> InMap(a, n), need |-> g,
                     more |-> FALSE, found |-> 0]
    BY <1>5 DEF Goto
  <2> HIDE DEF l, s
  <2>3. FindAt' = a
    BY <2>1, <2>2 DEF FindAt
  <2>4. WindowEnd' = a + InMap(a, n)
    <3>1. WindowEnd' = U64(a + InMap(a, n))
      BY <1>1, <1>2 DEF WindowEnd
    <3> QED
      BY <1>0, <1>5, <3>1, InMapFits
  <2>5. NoneBefore(FindAt)'
    BY <1>0, <1>1, <1>2, <2>3 DEF NoneBefore
  <2>6. FindExact'
    BY <1>0, <1>1, <1>2, <1>5, <2>2, <2>3, <2>4, <2>5 DEF FindExact
  <2>7. Answers'
    BY <2>2 DEF Answers, ReadsExact, FindFirst, GrowRight
  <2> QED
    BY <1>3, <2>2, <2>6, <2>7 DEF ExactInv, CountExact
<1> QED
  BY <1>4, <1>5 DEF bm_find

-----------------------------------------------------------------------------
(* The theorems of the second layer *)

LEMMA InitExact == Init => ExactInv
<1> SUFFICES ASSUME Init PROVE ExactInv
  OBVIOUS
<1>1. arg.n = 0 /\ arg.gap = 0 /\ op = "none" /\ pc = "idle" /\ out = 0 /\ 0 \in 0 .. Total
  BY Numbers DEF Init, NoArg
<1> QED
  BY <1>1, HalfFits DEF ExactInv, Sized, CountExact, FindExact, Answers, ReadsExact, FindFirst,
                        GrowRight

LEMMA LoopExact ==
  ASSUME SafeInv, ExactInv, Loop \/ Return
  PROVE  ExactInv'
BY ExtentExactLoop, CountHeadExact, CountByteExact, FindByteExact, ReturnExact DEF Loop

LEMMA NextExact ==
  ASSUME CallsFit, IntsFit, SafeInv, ExactInv, [Next]_vars
  PROVE  ExactInv'
<1>1. /\ Addresses \subseteq 0 .. Word - 1 /\ Counts \subseteq 0 .. Word - 1
      /\ Gaps \subseteq 0 .. Word - 1
      /\ \A a \in Addresses, n \in Counts : a + n < Word
      /\ \A n \in Counts \cup Gaps : n < HalfInt
  BY BitmapAssumption DEF BitmapAssumption, CallsFit, IntsFit
<1>2. CASE \E a \in Addresses, v \in {0, 1} : bm_set_bit(a, v)
  BY <1>1, <1>2, SetBitExact
<1>3. CASE \E a \in Addresses : bm_get_bit(a)
  BY <1>1, <1>3, GetBitExact
<1>4. CASE bm_zero \/ bm_fill \/ bm_popcount
  BY <1>4, WholeExact
<1>5. CASE \E a \in Addresses, n \in Counts, v \in {0, 1} :
             bm_set_extent(a, n, v) \/ bm_count(a, n, v)
  <2>1. PICK a \in Addresses, n \in Counts, v \in {0, 1} :
               bm_set_extent(a, n, v) \/ bm_count(a, n, v)
    BY <1>5
  <2>2. a \in 0 .. Word - 1 /\ n \in 0 .. Word - 1 /\ a + n < Word /\ n < HalfInt
    BY <1>1
  <2> QED
    BY <2>1, <2>2, SetExtentExact, CountCallExact
<1>6. CASE \E a \in Addresses, n \in Counts : bm_extent_can_grow(a, n)
  <2>1. PICK a \in Addresses, n \in Counts : bm_extent_can_grow(a, n)
    BY <1>6
  <2>2. a \in 0 .. Word - 1 /\ n \in 0 .. Word - 1 /\ a + n < Word /\ n < HalfInt
    BY <1>1
  <2> QED
    BY <2>1, <2>2, CanGrowExact
<1>7. CASE \E a \in Addresses, n \in Counts, g \in Gaps : bm_find(a, n, g)
  <2>1. PICK a \in Addresses, n \in Counts, g \in Gaps : bm_find(a, n, g)
    BY <1>7
  <2>2. /\ a \in 0 .. Word - 1 /\ n \in 0 .. Word - 1 /\ a + n < Word /\ n < HalfInt
        /\ g \in 0 .. Word - 1 /\ g < HalfInt
    BY <1>1
  <2> QED
    BY <2>1, <2>2, FindCallExact
<1>8. CASE Loop \/ Return
  BY <1>8, LoopExact
<1>9. CASE UNCHANGED vars
  <2>1. /\ bm' = bm /\ pc' = pc /\ op' = op /\ arg' = arg /\ frame' = frame /\ rc' = rc
        /\ out' = out /\ old' = old /\ Ones' = Ones
    BY <1>9, Same DEF vars
  <2>2. CountBase' = CountBase /\ FindAt' = FindAt /\ WindowEnd' = WindowEnd /\ GapsFound' = GapsFound
    BY <2>1 DEF CountBase, FindAt, WindowEnd, GapsFound
  <2>3. CountExact'
    BY <2>1, <2>2 DEF ExactInv, CountExact, Agree, RunIn
  <2>4. FindExact'
    BY <2>1, <2>2 DEF ExactInv, FindExact, NoneBefore, FreeAt
  <2>5. Answers'
    BY <2>1, <2>2 DEF ExactInv, Answers, ReadsExact, FindFirst, GrowRight, RunOf
  <2> QED
    BY <2>1, <2>3, <2>4, <2>5 DEF ExactInv, Sized
<1> QED
  BY <1>2, <1>3, <1>4, <1>5, <1>6, <1>7, <1>8, <1>9 DEF Next

LEMMA TypeHolds ==
  ASSUME SafeInv, ExactInv
  PROVE  TypeOK
<1>1. ASSUME NEW l \in 0 .. NBytes - 1 PROVE bm[l] \in Bytes(l)
  <2>1. bm[l] \in SUBSET Positions
    BY DEF SafeInv, Typed, BitmapType
  <2>2. ASSUME NEW p \in bm[l] PROVE l * Bits + p < Total
    <3>1. p \in Positions
      BY <2>1
    <3>2. l * Bits + p \in Ones
      BY <3>1, OnesAt, OnesNow
    <3>3. Ones \subseteq 0 .. Total - 1 /\ Total \in Nat
      BY Numbers DEF SafeInv, Typed
    <3> DEFINE b == l * Bits + p
    <3>4. b \in 0 .. Total - 1
      BY <3>2, <3>3
    <3> HIDE DEF b
    <3>5. b < Total
      BY <3>3, <3>4
    <3> QED
      BY <3>5 DEF b
  <2> QED
    BY <2>1, <2>2 DEF Bytes
<1> QED
  BY <1>1 DEF SafeInv, Typed, BitmapType, Args, Codes, ExactInv, TypeOK

\* What the second layer rests on holds in every state.
THEOREM Exact ==
  ASSUME CallsFit, IntsFit
  PROVE  Spec => [](SafeInv /\ ExactInv)
<1>1. Init => SafeInv /\ ExactInv
  BY InitSafe, InitExact
<1>2. SafeInv /\ ExactInv /\ [Next]_vars => (SafeInv /\ ExactInv)'
  BY NextSafe, NextExact
<1> QED
  BY <1>1, <1>2, PTL DEF Spec

\* The bytes never hold a bit beyond the last one, and everything has its type.
THEOREM TypeCorrect ==
  ASSUME CallsFit, IntsFit
  PROVE  Spec => []TypeOK
<1>1. SafeInv /\ ExactInv => TypeOK
  BY TypeHolds
<1> QED
  BY <1>1, Exact, PTL

\* bm_count, bm_popcount and bm_get_bit return what the bits say.
THEOREM ReadsExactly ==
  ASSUME CallsFit, IntsFit
  PROVE  Spec => []ReadsExact
<1>1. SafeInv /\ ExactInv => ReadsExact
  BY DEF ExactInv, Answers
<1> QED
  BY <1>1, Exact, PTL

\* bm_find finds the first gap of its window, also one that spans any number of
\* bytes, and fails only when the window has none.
THEOREM FindsFirst ==
  ASSUME CallsFit, IntsFit
  PROVE  Spec => []FindFirst
<1>1. SafeInv /\ ExactInv => FindFirst
  BY DEF ExactInv, Answers
<1> QED
  BY <1>1, Exact, PTL

\* What bm_find says is a gap has no bit that is 1: as map.h promises, when the size
\* is an int.
THEOREM FoundFree ==
  ASSUME CallsFit, IntsFit
  PROVE  Spec => []FoundIsFree
<1>1. SafeInv /\ ExactInv => FoundIsFree
  BY DEF ExactInv, Answers, FindFirst, GapsFound, FoundIsFree
<1> QED
  BY <1>1, Exact, PTL

\* bm_extent_can_grow classifies a region as map.h says, over all three of its counts.
THEOREM GrowsRight ==
  ASSUME CallsFit, IntsFit
  PROVE  Spec => []GrowRight
<1>1. SafeInv /\ ExactInv => GrowRight
  BY DEF ExactInv, Answers
<1> QED
  BY <1>1, Exact, PTL
=============================================================================
