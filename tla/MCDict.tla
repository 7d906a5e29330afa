------------------------------- MODULE MCDict -------------------------------
(* Model checking Dict: three keys that share a bucket of the four-bucket    *)
(* table, two of which still share one of the eight-bucket table, so that    *)
(* chains have a first, a middle and a last entry and a rehash splits and    *)
(* merges them; the third insertion makes the four-bucket table grow.        *)
EXTENDS Dict

CONSTANTS k1, k2, k3

MCKeys == {k1, k2, k3}
MCHash == (k1 :> 1) @@ (k2 :> 5) @@ (k3 :> 9)
MCPowers == {1, 2, 4, 8, 16}
MCPowers8 == {1, 2, 4, 8}
MCSizes == {3, 4, 8}
=============================================================================
