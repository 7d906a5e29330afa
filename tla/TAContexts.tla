----------------------------- MODULE TAContexts -----------------------------
(***************************************************************************)
(* What the tracked allocator (src/src/ta.h) promises its callers: every   *)
(* live block belongs to one context, and a context is given up as a whole *)
(* (ta_list_destroy) or block by block (ta_free, ta_sweep).  There are no  *)
(* links, no loops and no sizes here; TrackedAlloc implements it.          *)
(***************************************************************************)
CONSTANTS
  Contexts,   \* the ta_list_t heads
  Addr,       \* the blocks malloc can return
  None        \* "belongs to no context"

VARIABLES
  owner,      \* the context a block belongs to, None when it is not allocated
  marked      \* the live blocks ta_mark() was called on

vars == <<owner, marked>>

Owned(c) == {a \in Addr : owner[a] = c}

Init ==
  /\ owner = [a \in Addr |-> None]
  /\ marked = {}

Release(S) ==
  /\ owner' = [a \in Addr |-> IF a \in S THEN None ELSE owner[a]]
  /\ marked' = marked \ S

Alloc(c, a) ==
  /\ owner[a] = None
  /\ owner' = [owner EXCEPT ![a] = c]
  /\ UNCHANGED marked

\* A successful resize: the block may move, joins the given context and loses
\* its mark.
Resize(c, a, b) ==
  /\ owner[a] # None
  /\ b = a \/ owner[b] = None
  /\ owner' = [owner EXCEPT ![a] = None, ![b] = c]
  /\ marked' = marked \ {a}

\* A failed resize: the block stays where it is, but it joins the given
\* context all the same, and keeps its mark.
Adopt(c, a) ==
  /\ owner[a] # None
  /\ owner' = [owner EXCEPT ![a] = c]
  /\ UNCHANGED marked

Free(a) == owner[a] # None /\ Release({a})

Mark(a) ==
  /\ owner[a] # None
  /\ marked' = marked \cup {a}
  /\ UNCHANGED owner

Sweep(c) == Release(Owned(c) \cap marked)

Destroy(c) == Release(Owned(c))

Next ==
  \/ \E c \in Contexts :
       \/ Sweep(c)
       \/ Destroy(c)
       \/ \E a \in Addr : Alloc(c, a) \/ Adopt(c, a)
       \/ \E a, b \in Addr : Resize(c, a, b)
  \/ \E a \in Addr : Free(a) \/ Mark(a)

Spec == Init /\ [][Next]_vars
=============================================================================
