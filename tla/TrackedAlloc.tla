---------------------------- MODULE TrackedAlloc ----------------------------
(***************************************************************************)
(* The tracked allocator, src/src/ta.c, on the intrusive lists of          *)
(* src/src/list.h.  A context is the head of a circular doubly linked      *)
(* list; every allocation is a node on the list of one context.  An        *)
(* operation that does not loop is one action.  The loops of               *)
(* ta_list_destroy, ta_sweep and ta_list_total_mem run node by node on the *)
(* two cursors of list_for_each_safe, so that a read of a freed node       *)
(* would show.                                                             *)
(*                                                                         *)
(* owner, below and req are history variables: no action reads them except *)
(* to know which blocks are allocated.                                     *)
(***************************************************************************)
EXTENDS Naturals, FiniteSetsExt

CONSTANTS
  Contexts,   \* the ta_list_t heads
  Addr,       \* the blocks malloc and realloc can return
  None,       \* no block; also what a freed or never written link holds
  Requests,   \* the sizes callers ask for
  SizeMod     \* 2^32: node->size is a uint32_t

ASSUME TAAssumption ==
  /\ Contexts \cap Addr = {}
  /\ None \notin Contexts \cup Addr
  /\ Requests \subseteq Nat
  /\ SizeMod \in Nat \ {0}

VARIABLES
  next, prev,   \* struct list_entry of the heads and of the blocks
  size, marked, \* node->size; the nodes whose mark is 1
  op,           \* the loop in progress, "idle" between operations
  ctx,          \* its argument ll
  pos, nxt,     \* its cursors: i and tmp of list_for_each_safe
  acc,          \* ta_list_total_mem's size
  owner,        \* the context whose list a block is on, None when it is free
  below,        \* the blocks that come after a block on its list
  req           \* the size its owner asked for

heap == <<next, prev, size, marked, owner, below, req>>
loop == <<op, ctx, pos, nxt, acc>>
vars == <<next, prev, size, marked, op, ctx, pos, nxt, acc, owner, below, req>>

Node == Contexts \cup Addr
Live == {a \in Addr : owner[a] # None}
Owned(c) == {a \in Addr : owner[a] = c}
Home(n) == IF n \in Contexts THEN n ELSE owner[n]

-----------------------------------------------------------------------------
(* list.h, on a pair of link functions nx, pv *)

\* list_add, with the writes of its first and last line swapped: a slip.
AddNextSwapped(nx, n, h) == [nx EXCEPT ![h] = n, ![n] = n]
AddNext(nx, n, h) == [nx EXCEPT ![n] = nx[h], ![h] = n]
AddPrev(nx, pv, n, h) == [pv EXCEPT ![n] = h, ![nx[h]] = n]

\* list_del, without its first line: a slip.
DelPrevMissing(nx, pv, e) == pv
DelNext(nx, pv, e) == [nx EXCEPT ![pv[e]] = nx[e]]
DelPrev(nx, pv, e) == [pv EXCEPT ![nx[e]] = pv[e]]

\* Reading a link of something that is not a node yields no node.
Follow(nx, n) == IF n \in Node THEN nx[n] ELSE None

Forget(f, S) == [n \in DOMAIN f |-> IF n \in S THEN None ELSE f[n]]

TAInit ==
  /\ next = [n \in Node |-> IF n \in Contexts THEN n ELSE None]
  /\ prev = [n \in Node |-> IF n \in Contexts THEN n ELSE None]
  /\ size = [a \in Addr |-> 0]
  /\ req = [a \in Addr |-> 0]
  /\ marked = {}
  /\ owner = [a \in Addr |-> None]
  /\ below = [a \in Addr |-> {}]
  /\ op = "idle" /\ ctx = None /\ pos = None /\ nxt = None /\ acc = 0

-----------------------------------------------------------------------------
(* Operations that do not loop *)

\* node->size = size, a uint32_t; and, as slips, a field as wide as the request
\* and one that holds the size malloc rounds it to.
SizeFieldWide(s) == s
SizeFieldRounded(s) == (((s + 1) \div 2) * 2) % SizeMod
SizeField(s) == s % SizeMod

\* A block s bytes long becomes the first node of c's list.
Malloc(c, s, a) ==
  /\ op = "idle"
  /\ owner[a] = None
  /\ next' = AddNext(next, a, c)
  /\ prev' = AddPrev(next, prev, a, c)
  /\ size' = [size EXCEPT ![a] = SizeField(s)]
  /\ req' = [req EXCEPT ![a] = s]
  /\ owner' = [owner EXCEPT ![a] = c]
  /\ below' = [below EXCEPT ![a] = Owned(c)]
  /\ UNCHANGED <<marked, loop>>

\* The callers of ta_malloc, by the size they ask for.
Calloc(c, n, e, a) == n * e \in Requests /\ Malloc(c, n * e, a)
Strdup(c, len, a) == len + 1 \in Requests /\ Malloc(c, len + 1, a)
Strndup(c, n, a) == n + 1 \in Requests /\ Malloc(c, n + 1, a)
Memclone(c, n, a) == Malloc(c, n, a)

\* free() of the blocks S: what they held is gone.
Release(S) ==
  /\ size' = [a \in Addr |-> IF a \in S THEN 0 ELSE size[a]]
  /\ req' = [a \in Addr |-> IF a \in S THEN 0 ELSE req[a]]
  /\ marked' = marked \ S
  /\ owner' = Forget(owner, S)
  /\ below' = [a \in Addr |-> IF a \in S THEN {} ELSE below[a] \ S]

\* ta_free: unlink, then free.
Unlink(a) ==
  /\ next' = Forget(DelNext(next, prev, a), {a})
  /\ prev' = Forget(DelPrev(next, prev, a), {a})
  /\ Release({a})

Free(a) ==
  /\ op = "idle"
  /\ a \in Live
  /\ Unlink(a)
  /\ UNCHANGED loop

\* ta_realloc unlinks the node first, then puts the node realloc returned --
\* the same one or another -- at the head of the list it was given, which need
\* not be the list it came from.
Relink(c, a, b) ==
  LET nx == DelNext(next, prev, a)
      pv == DelPrev(next, prev, a)
      gone == {a} \ {b}
  IN /\ next' = Forget(AddNext(nx, b, c), gone)
     /\ prev' = Forget(AddPrev(nx, pv, b, c), gone)
     /\ owner' = [Forget(owner, gone) EXCEPT ![b] = c]
     /\ below' = [x \in Addr |-> IF x = b THEN Owned(c) \ {a}
                                 ELSE IF x \in gone THEN {}
                                 ELSE below[x] \ {a}]

Realloc(c, a, b, s) ==
  /\ op = "idle"
  /\ a \in Live
  /\ b = a \/ owner[b] = None
  /\ Relink(c, a, b)
  /\ size' = [size EXCEPT ![a] = 0, ![b] = SizeField(s)]
  /\ req' = [req EXCEPT ![a] = 0, ![b] = s]
  /\ marked' = marked \ {a}
  /\ UNCHANGED loop

ReallocFail(c, a) ==
  /\ op = "idle"
  /\ a \in Live
  /\ Relink(c, a, a)
  /\ UNCHANGED <<size, req, marked, loop>>

\* ta_strncat: room for the string in a, whose length its size bounds, for
\* qlen bytes more and for the terminator.
Strncat(c, a, b, qlen) ==
  \E plen \in 0 .. req[a] :
    /\ plen < req[a]
    /\ plen + qlen + 1 \in Requests
    /\ Realloc(c, a, b, plen + qlen + 1)

Mark(a) ==
  /\ op = "idle"
  /\ a \in Live
  /\ marked' = marked \cup {a}
  /\ UNCHANGED <<next, prev, size, owner, below, req, loop>>

-----------------------------------------------------------------------------
(* Operations that loop, with list_for_each_safe *)

Begin(o, c) ==
  /\ op = "idle"
  /\ op' = o
  /\ ctx' = c
  /\ pos' = next[c]
  /\ nxt' = Follow(next, next[c])
  /\ acc' = 0
  /\ UNCHANGED heap

\* Slips: list_for_each, which reads the node the body freed, and a cursor that
\* advances twice.
AdvanceUnsafe ==
  /\ pos' = Follow(next', pos)
  /\ nxt' = Follow(next', Follow(next', pos))
  /\ UNCHANGED <<op, ctx>>
AdvanceTwice ==
  /\ pos' = Follow(next', nxt)
  /\ nxt' = Follow(next', Follow(next', nxt))
  /\ UNCHANGED <<op, ctx>>

\* pos = n, n = pos->next, after the body of the loop has run.
Advance ==
  /\ pos' = nxt
  /\ nxt' = Follow(next', nxt)
  /\ UNCHANGED <<op, ctx>>

End ==
  /\ pos = ctx
  /\ op' = "idle"
  /\ ctx' = None /\ pos' = None /\ nxt' = None /\ acc' = 0

\* ta_list_destroy frees the nodes without unlinking them ...
DestroyStep ==
  /\ op = "destroy"
  /\ pos # ctx
  /\ next' = Forget(next, {pos})
  /\ prev' = Forget(prev, {pos})
  /\ Release({pos})
  /\ Advance
  /\ UNCHANGED acc

\* ... and makes the head a list of none.
DestroyEnd ==
  /\ op = "destroy"
  /\ End
  /\ next' = [next EXCEPT ![ctx] = ctx]
  /\ prev' = [prev EXCEPT ![ctx] = ctx]
  /\ UNCHANGED <<size, marked, owner, below, req>>

\* n->mark == 1, and ta.h:29's reading of it, a slip.
ToSweepCleared(n) == n \notin marked
ToSweep(n) == n \in marked

SweepFree ==
  /\ op = "sweep"
  /\ pos # ctx
  /\ ToSweep(pos)
  /\ Unlink(pos)
  /\ Advance
  /\ UNCHANGED acc

SweepSkip ==
  /\ op = "sweep"
  /\ pos # ctx
  /\ ~ ToSweep(pos)
  /\ UNCHANGED <<heap, acc>>
  /\ Advance

TotalStep ==
  /\ op = "total"
  /\ pos # ctx
  /\ acc' = acc + size[pos]
  /\ UNCHANGED heap
  /\ Advance

LoopEnd ==
  /\ op \in {"sweep", "total"}
  /\ End
  /\ UNCHANGED heap

LoopNext ==
  DestroyStep \/ DestroyEnd \/ SweepFree \/ SweepSkip \/ TotalStep \/ LoopEnd

Next ==
  \/ \E c \in Contexts, a \in Addr, s \in Requests :
       \/ Malloc(c, s, a)
       \/ \E e \in Requests : Calloc(c, s, e, a)
       \/ Strdup(c, s, a)
       \/ Strndup(c, s, a)
       \/ Memclone(c, s, a)
       \/ \E b \in Addr : Realloc(c, a, b, s) \/ Strncat(c, a, b, s)
  \/ \E c \in Contexts, a \in Addr : ReallocFail(c, a)
  \/ \E a \in Addr : Free(a) \/ Mark(a)
  \/ \E c \in Contexts, o \in {"destroy", "sweep", "total"} : Begin(o, c)
  \/ LoopNext

Spec == TAInit /\ [][Next]_vars

\* A loop that has begun runs on: nothing in it blocks or waits.
FairSpec == Spec /\ WF_vars(LoopNext)

-----------------------------------------------------------------------------
(* Properties *)

TypeOK ==
  /\ next \in [Node -> Node \cup {None}]
  /\ prev \in [Node -> Node \cup {None}]
  /\ size \in [Addr -> 0 .. SizeMod - 1]
  /\ marked \in SUBSET Live
  /\ op \in {"idle", "destroy", "sweep", "total"}
  /\ ctx \in Contexts \cup {None}
  /\ pos \in Node \cup {None}
  /\ nxt \in Node \cup {None}
  /\ acc \in Nat
  /\ owner \in [Addr -> Contexts \cup {None}]
  /\ below \in [Addr -> SUBSET Addr]
  /\ req \in [Addr -> Nat]

\* The contexts whose lists are whole: all but the one being destroyed.
Whole == Contexts \ (IF op = "destroy" THEN {ctx} ELSE {})
Ring(c) == {c} \cup Owned(c)

\* On the list of every whole context next and prev are each other's inverse
\* and never lead off the list: no node is on two lists, and none links to a
\* freed block (list_add, list_del, and ta_realloc's unlink and re-link).
RingOK ==
  \A c \in Whole : \A n \in Ring(c) :
    /\ next[n] \in Ring(c) /\ prev[next[n]] = n
    /\ prev[n] \in Ring(c) /\ next[prev[n]] = n

\* The head of every whole context reaches each of its blocks: the first node
\* and the ones below it are all there are, and every node's successor heads
\* what is below it.  A block off this chain would never be freed.
ChainOK ==
  /\ \A c \in Whole :
       Owned(c) = IF next[c] = c THEN {} ELSE {next[c]} \cup below[next[c]]
  /\ \A a \in Live :
       /\ a \notin below[a]
       /\ below[a] \subseteq Owned(owner[a])
       /\ below[a] = IF next[a] = owner[a] THEN {}
                     ELSE {next[a]} \cup below[next[a]]

\* The loops never stand on freed memory: the node a cursor is about to read
\* is a live node of the context they were called for, and the node after it
\* is the next one although the body may free the one they stand on
\* (list_for_each_safe in ta_list_destroy and ta_sweep).
CursorSafe ==
  op # "idle" =>
    /\ ctx \in Contexts
    /\ pos \in Ring(ctx)
    /\ pos # ctx => nxt \in Ring(ctx) /\ nxt = next[pos] /\ nxt # pos

\* What a loop has still to do lies ahead of its cursor: ta_list_destroy has
\* freed all it has passed, and ta_sweep has left no marked node behind.
Ahead == IF pos = ctx THEN {} ELSE {pos} \cup below[pos]
LoopProgress ==
  /\ op = "destroy" => Owned(ctx) = Ahead
  /\ op = "sweep" => Owned(ctx) \cap marked \subseteq Ahead

\* What ta_list_total_mem adds up is the sum of the sizes its callers asked
\* for, as long as each of them fits node->size.
TotalMem ==
  op = "total" /\ pos = ctx /\ (\A a \in Owned(ctx) : req[a] < SizeMod)
    => acc = MapThenSumSet(LAMBDA a : req[a], Owned(ctx))

\* A loop gives up nothing but blocks of the context it was called for, and
\* ta_sweep nothing but marked ones.
LoopFrees ==
  [][op # "idle" =>
       \A a \in Live : owner'[a] # owner[a] =>
         /\ owner'[a] = None
         /\ owner[a] = ctx
         /\ op = "destroy" \/ (op = "sweep" /\ a \in marked)]_vars

\* Every loop ends, that is, no list ever runs into a cycle that misses its
\* head.
LoopsEnd == op # "idle" ~> op = "idle"

\* To its callers the allocator is TAContexts: a loop takes effect when it
\* begins, and must have released all of it when it ends.
Doomed(a) ==
  /\ op # "idle"
  /\ owner[a] = ctx
  /\ op = "destroy" \/ (op = "sweep" /\ a \in marked)
SeenOwner == [a \in Addr |-> IF Doomed(a) THEN None ELSE owner[a]]
SeenMarked == {a \in marked : ~ Doomed(a)}
TA == INSTANCE TAContexts WITH owner <- SeenOwner, marked <- SeenMarked
Contract == TA!Spec
=============================================================================
