----------------------------- MODULE BlockClaim -----------------------------
(***************************************************************************)
(* Block allocation on a bitmap of src/src/map.c as map.h asks its upper   *)
(* layer to do it: the bm_ functions lock nothing, and a claim is two of   *)
(* them - bm_find, then bm_set_extent on what it found - so the layer      *)
(* above holds a lock from the one to the other.  A claimer grows its      *)
(* extent by one bit after bm_extent_can_grow, and releases it.  The calls *)
(* are the steps of Bitmap, whose arguments and results are all they share.*)
(***************************************************************************)
EXTENDS Bitmap

CONSTANTS Claimers, NoOne, Sizes

ASSUME ClaimAssumption == NoOne \notin Claimers /\ Sizes \subseteq 1 .. Total

VARIABLES
  lock,     \* the claimer that holds the upper layer's lock, or NoOne
  phase,    \* for each claimer, what it is doing
  extent,   \* for each claimer, the extent it works on
  holds,    \* the claimers that have their extent
  refused   \* who was refused last and what size, or NoOne and 0

upper == <<lock, phase, extent, holds, refused>>

BlocksOf(e) == e.addr .. e.addr + e.n - 1

InitClaims ==
  /\ Init
  /\ lock = NoOne
  /\ phase = [c \in Claimers |-> "out"]
  /\ extent = [c \in Claimers |-> [addr |-> 0, n |-> 0]]
  /\ holds = {}
  /\ refused = <<NoOne, 0>>

\* c takes the lock, or has it, and goes on to the next call.
Enter(c, from, to) ==
  /\ lock \in {NoOne, c}
  /\ phase[c] = from
  /\ phase' = [phase EXCEPT ![c] = to]
  /\ lock' = c

\* A call of c returns, and c keeps the lock.
Back(c, from, to) ==
  /\ lock = c
  /\ phase[c] = from
  /\ phase' = [phase EXCEPT ![c] = to]
  /\ UNCHANGED lock
  /\ Return

\* A call of c returns, and c gives the lock back.
Leave(c, from) ==
  /\ lock = c
  /\ phase[c] = from
  /\ phase' = [phase EXCEPT ![c] = "out"]
  /\ lock' = NoOne
  /\ Return

Find(c, n) ==
  /\ c \notin holds
  /\ Enter(c, "out", "finding")
  /\ bm_find(0, Total, n)
  /\ extent' = [extent EXCEPT ![c] = [addr |-> 0, n |-> n]]
  /\ UNCHANGED <<holds, refused>>

NotFound(c) ==
  /\ Leave(c, "finding")
  /\ rc # 0
  /\ refused' = <<c, extent[c].n>>
  /\ extent' = [extent EXCEPT ![c].n = 0]
  /\ UNCHANGED holds

GapFound(c) ==
  /\ Back(c, "finding", "found")
  /\ rc = 0
  /\ extent' = [extent EXCEPT ![c].addr = out]
  /\ UNCHANGED <<holds, refused>>

Mark(c) ==
  /\ Enter(c, "found", "marking")
  /\ bm_set_extent(extent[c].addr, extent[c].n, 1)
  /\ UNCHANGED <<extent, holds, refused>>

Marked(c) ==
  /\ Leave(c, "marking")
  /\ holds' = holds \cup {c}
  /\ refused' = <<NoOne, 0>>
  /\ UNCHANGED extent

AskToGrow(c) ==
  /\ c \in holds
  /\ Enter(c, "out", "asking")
  /\ bm_extent_can_grow(extent[c].addr, extent[c].n + 1)
  /\ UNCHANGED <<extent, holds, refused>>

CannotGrow(c) ==
  /\ Leave(c, "asking")
  /\ rc # 0
  /\ UNCHANGED <<extent, holds, refused>>

CanGrow(c) ==
  /\ Back(c, "asking", "can_grow")
  /\ rc = 0
  /\ UNCHANGED <<extent, holds, refused>>

Grow(c) ==
  /\ Enter(c, "can_grow", "growing")
  /\ bm_set_bit(extent[c].addr + extent[c].n, 1)
  /\ UNCHANGED <<extent, holds, refused>>

Grown(c) ==
  /\ Leave(c, "growing")
  /\ extent' = [extent EXCEPT ![c].n = @ + 1]
  /\ UNCHANGED <<holds, refused>>

Release(c) ==
  /\ c \in holds
  /\ Enter(c, "out", "releasing")
  /\ bm_set_extent(extent[c].addr, extent[c].n, 0)
  /\ UNCHANGED <<extent, holds, refused>>

Released(c) ==
  /\ Leave(c, "releasing")
  /\ holds' = holds \ {c}
  /\ extent' = [extent EXCEPT ![c].n = 0]
  /\ UNCHANGED refused

NextClaims ==
  \/ Loop /\ UNCHANGED upper
  \/ \E c \in Claimers :
       \/ \E n \in Sizes : Find(c, n)
       \/ NotFound(c) \/ GapFound(c) \/ Mark(c) \/ Marked(c)
       \/ AskToGrow(c) \/ CannotGrow(c) \/ CanGrow(c) \/ Grow(c) \/ Grown(c)
       \/ Release(c) \/ Released(c)

SpecClaims == InitClaims /\ [][NextClaims]_<<vars, upper>>

-----------------------------------------------------------------------------
(* Properties *)

\* The extents that are held never overlap, and whenever nobody is at work the
\* bits that are 1 are theirs: no block is given out twice, marked for no one
\* or left marked by its release.
HeldExact ==
  /\ \A c, d \in holds : c # d => BlocksOf(extent[c]) \cap BlocksOf(extent[d]) = {}
  /\ lock = NoOne => Ones = UNION {BlocksOf(extent[c]) : c \in holds}

OwnerOf(b) ==
  IF \E c \in holds : b \in BlocksOf(extent[c])
  THEN CHOOSE c \in holds : b \in BlocksOf(extent[c])
  ELSE NoOne

Pool ==
  INSTANCE ExtentPool WITH
    Blocks <- Total,
    owner <- [b \in 0 .. Total - 1 |-> OwnerOf(b)]

\* Under the lock, find and set_extent together are one claim: first fit over
\* what the others hold, refused only when no gap is large enough.
IsPool == Pool!Spec
=============================================================================
