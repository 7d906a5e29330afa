------------------------------ MODULE MCBitmap ------------------------------
(* Model checking Bitmap: seven bits in bytes of three, so that a byte can   *)
(* hold a run of zeros between ones and an extent can have a part of a byte, *)
(* a whole one and another part.                                             *)
EXTENDS Bitmap

MCAddresses == 0 .. Total
MCCounts == 0 .. Total + 1
MCGaps == 0 .. 5

\* A gap that no int can hold.
DocAddresses == {0, 5}
DocCounts == {Total}
DocGaps == {IntWord + 1}
=============================================================================
