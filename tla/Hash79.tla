------------------------------- MODULE Hash79 -------------------------------
(***************************************************************************)
(* The hash of words in src/src/hash.c: ten digits to the base 79, in an   *)
(* unsigned 64-bit number, which is four limbs of 16 bits here, the lowest *)
(* first.  A word is the sequence of the codes of its characters.          *)
(***************************************************************************)
EXTENDS Integers, Sequences

Range79(lim, val, flag) == [lim |-> lim, val |-> val, flag |-> flag]
hb79_r == <<
  Range79(1, 0, 0), Range79(\h20, 1, 0), Range79(\h22, 2, 1), Range79(\h28, 4, 0),
  Range79(\h2a, 5, 1), Range79(\h2d, 7, 0), Range79(\h3a, 8, 1), Range79(\h41, 21, 0),
  Range79(\h5b, 22, 1), Range79(\h5e, 48, 0), Range79(\h61, 49, 0), Range79(\h7b, 50, 1),
  Range79(\h7d, 76, 0), Range79(\h7f, 77, 0), Range79(256, 78, 0) >>

\* The value of a character of the i-th range.
ascii_2_mx79(c) ==
  LET i == CHOOSE i \in DOMAIN hb79_r :
             c < hb79_r[i].lim /\ \A j \in 1 .. i - 1 : c >= hb79_r[j].lim
      inf == IF i = 1 THEN 0 ELSE hb79_r[i - 1].lim
  IN hb79_r[i].val + IF hb79_r[i].flag = 0 THEN 0 ELSE c - inf

\* The limbs of a uint64_t; those of a uint32_t, as a slip.
LimbsOf32 == 2
Limbs == 4

\* h * 79 + cc, modulo 2^64.
Shifted(h, cc) ==
  LET sum[i \in 1 .. Limbs] ==
        h[i] * 79 + IF i = 1 THEN cc ELSE sum[i - 1] \div 65536
  IN [i \in 1 .. Limbs |-> sum[i] % 65536]

\* The ten characters; a shorter word goes on with zeros.
hash_b79(s) ==
  LET digit(i) == IF i <= Len(s) THEN ascii_2_mx79(s[i]) ELSE 0
      h[i \in 0 .. 10] ==
        IF i = 0 THEN [k \in 1 .. Limbs |-> 0] ELSE Shifted(h[i - 1], digit(i))
  IN h[10]
=============================================================================
