---------------------------- MODULE MCBlockClaim ----------------------------
(* Model checking BlockClaim: three claimers on the bitmap of bitmap_ops, so *)
(* that a release can leave a gap between two extents, and a gap can span    *)
(* two bytes and begin in the middle of one.                                 *)
EXTENDS BlockClaim, TLC

MCSizes == 1 .. 4
AnyClaimer == Permutations(Claimers)
=============================================================================
