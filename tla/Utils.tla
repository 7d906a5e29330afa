-------------------------------- MODULE Utils --------------------------------
(***************************************************************************)
(* The string functions of src/src/utils.c.  A string is the sequence of   *)
(* its characters; the terminating NUL is the end of the sequence.         *)
(***************************************************************************)
EXTENDS Integers, Sequences

\* The last is the vertical tab, for which TLA+ has no escape.
Space == {" ", "\t", "\r", "\n", "\f", "\\v"}

\* The right side first, then the left.
trimRight(s) ==
  SubSeq(s, 1, CHOOSE n \in 0 .. Len(s) :
                 /\ n > 0 => s[n] \notin Space
                 /\ \A i \in n + 1 .. Len(s) : s[i] \in Space)
trim(s) ==
  LET r == trimRight(s)
  IN SubSeq(r, CHOOSE i \in 1 .. Len(r) + 1 :
                 /\ i <= Len(r) => r[i] \notin Space
                 /\ \A j \in 1 .. i - 1 : r[j] \in Space, Len(r))
=============================================================================
