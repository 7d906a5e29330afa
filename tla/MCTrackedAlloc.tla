--------------------------- MODULE MCTrackedAlloc ---------------------------
(* Model checking TrackedAlloc: two contexts, so that ta_realloc can carry a *)
(* block from one to the other; three blocks, so that a list has a first, a  *)
(* middle and a last node while a third address is free to move to; requests *)
(* on both sides of SizeMod.                                                 *)
EXTENDS TrackedAlloc

CONSTANTS c1, c2, a1, a2, a3

MCContexts == {c1, c2}
MCAddr == {a1, a2, a3}
MCRequests == {1, 2, 5}

\* TotalMem without its condition, ta.h:69: "Returns the sum of user-data sizes for all
\* live nodes in ll."
TotalMemDoc ==
  op = "total" /\ pos = ctx
    => acc = MapThenSumSet(LAMBDA a : req[a], Owned(ctx))
=============================================================================
