----------------------------- MODULE ExtentPool -----------------------------
(***************************************************************************)
(* What the allocation code above src/src/map.c wants of a bitmap: a row   *)
(* of blocks of which each claimer owns one extent, handed out first fit,  *)
(* refused only when no gap is large enough, and grown in place.           *)
(***************************************************************************)
EXTENDS Integers

CONSTANTS
  Blocks,    \* the number of blocks
  Claimers,
  NoOne,     \* who owns a free block
  Sizes      \* the sizes that are claimed

VARIABLES
  owner,    \* who owns each block
  refused   \* who was refused last and what size, or NoOne and 0

vars == <<owner, refused>>

Init ==
  /\ owner = [b \in 0 .. Blocks - 1 |-> NoOne]
  /\ refused = <<NoOne, 0>>

Owned(c) == {b \in DOMAIN owner : owner[b] = c}

FreeRun(a, n) ==
  /\ a + n <= Blocks
  /\ \A b \in a .. a + n - 1 : owner[b] = NoOne

Give(c, extent) ==
  owner' = [b \in DOMAIN owner |-> IF b \in extent THEN c ELSE owner[b]]

Claim(c, n) ==
  /\ Owned(c) = {}
  /\ \E a \in DOMAIN owner :
       /\ FreeRun(a, n)
       /\ \A b \in 0 .. a - 1 : ~ FreeRun(b, n)
       /\ Give(c, a .. a + n - 1)
  /\ refused' = <<NoOne, 0>>

Refuse(c, n) ==
  /\ Owned(c) = {}
  /\ \A a \in DOMAIN owner : ~ FreeRun(a, n)
  /\ refused' = <<c, n>>
  /\ UNCHANGED owner

\* One more block at the end of the extent.
Grow(c) ==
  /\ \E b \in DOMAIN owner :
       /\ owner[b] = NoOne
       /\ b - 1 \in Owned(c)
       /\ Give(c, {b})
  /\ UNCHANGED refused

Release(c) ==
  /\ Owned(c) # {}
  /\ owner' = [b \in DOMAIN owner |-> IF owner[b] = c THEN NoOne ELSE owner[b]]
  /\ UNCHANGED refused

Next ==
  \E c \in Claimers :
    Grow(c) \/ Release(c) \/ \E n \in Sizes : Claim(c, n) \/ Refuse(c, n)

Spec == Init /\ [][Next]_vars
=============================================================================
