------------------------- MODULE TrackedAllocProofs -------------------------
(***************************************************************************)
(* Proofs about TrackedAlloc, for any number of contexts and blocks and    *)
(* any request sizes.  First, what list_add and list_del of src/src/list.h *)
(* do to the lists: those lemmas take the links, the owners and the order  *)
(* of the lists as parameters, so that the several list operations of one  *)
(* allocator operation compose.                                            *)
(***************************************************************************)
EXTENDS TrackedAlloc, FiniteSetTheorems, WellFoundedInduction, TLAPS

-----------------------------------------------------------------------------
(* Adding to a list and deleting from it *)

USE TAAssumption DEF TAAssumption

\* The types of the parameters.
Links == [Node -> Node \cup {None}]
Owners == [Addr -> Contexts \cup {None}]
Belows == [Addr -> SUBSET Addr]

\* n is on the list whose head is c, as ow has it.
On(ow, c, n) == n = c \/ (n \in Addr /\ ow[n] = c)

\* RingOK of the lists of W, with the variables as parameters.
Rings(nx, pv, ow, W) ==
  \A c \in W : \A n \in Node : On(ow, c, n) =>
    /\ nx[n] \in Node /\ On(ow, c, nx[n]) /\ pv[nx[n]] = n
    /\ pv[n] \in Node /\ On(ow, c, pv[n]) /\ nx[pv[n]] = n

\* ChainOK likewise.
Chains(nx, ow, bl, W) ==
  /\ \A c \in W : \A x \in Addr :
       ow[x] = c <=> nx[c] # c /\ (x = nx[c] \/ x \in bl[nx[c]])
  /\ \A a \in Addr : ow[a] # None =>
       /\ a \notin bl[a]
       /\ \A x \in bl[a] : ow[x] = ow[a]
       /\ nx[a] # ow[a] => nx[a] \in Addr
       /\ \A x \in Addr :
            x \in bl[a] <=> nx[a] # ow[a] /\ (x = nx[a] \/ x \in bl[nx[a]])

\* What comes after a block comes after all the blocks before it.
Nested(ow, bl) ==
  \A a \in Addr : ow[a] # None =>
    \A x \in bl[a] : ow[x] = ow[a] /\ bl[x] \subseteq bl[a]

LEMMA AddRings ==
  ASSUME NEW nx \in Links, NEW pv \in Links, NEW ow \in Owners,
         NEW W \in SUBSET Contexts, NEW c \in W, NEW a \in Addr,
         ow[a] = None, Rings(nx, pv, ow, W)
  PROVE  Rings(AddNext(nx, a, c), AddPrev(nx, pv, a, c), [ow EXCEPT ![a] = c], W)
BY DEF Rings, On, AddNext, AddPrev, Links, Owners, Node

LEMMA DelRings ==
  ASSUME NEW nx \in Links, NEW pv \in Links, NEW ow \in Owners,
         NEW W \in SUBSET Contexts, NEW a \in Addr,
         ow[a] \in W, Rings(nx, pv, ow, W)
  PROVE  Rings(DelNext(nx, pv, a), DelPrev(nx, pv, a), [ow EXCEPT ![a] = None], W)
BY DEF Rings, On, DelNext, DelPrev, Links, Owners, Node

LEMMA AddChains ==
  ASSUME NEW nx \in Links, NEW pv \in Links, NEW ow \in Owners,
         NEW bl \in Belows,
         NEW W \in SUBSET Contexts, NEW c \in W, NEW a \in Addr,
         ow[a] = None, Rings(nx, pv, ow, W), Chains(nx, ow, bl, W)
  PROVE  Chains(AddNext(nx, a, c), [ow EXCEPT ![a] = c],
                [bl EXCEPT ![a] = {x \in Addr : ow[x] = c}], W)
<1> DEFINE nx1 == AddNext(nx, a, c)
           ow1 == [ow EXCEPT ![a] = c]
           bl1 == [bl EXCEPT ![a] = {x \in Addr : ow[x] = c}]
<1> SUFFICES Chains(nx1, ow1, bl1, W)
  OBVIOUS
<1>1. /\ nx1[c] = a /\ nx1[a] = nx[c]
      /\ \A n \in Node \ {a, c} : nx1[n] = nx[n]
  BY DEF AddNext, Links, Node
<1>2. ow1[a] = c /\ \A x \in Addr \ {a} : ow1[x] = ow[x]
  BY DEF Owners
<1>3. /\ \A x \in Addr : x \in bl1[a] <=> ow[x] = c
      /\ \A x \in Addr \ {a} : bl1[x] = bl[x]
  BY DEF Belows
<1>4. nx[c] = c \/ (nx[c] \in Addr /\ ow[nx[c]] = c)
  BY DEF Rings, On, Node
<1> HIDE DEF nx1, ow1, bl1
<1>5. \A d \in W : \A x \in Addr :
       ow1[x] = d <=> nx1[d] # d /\ (x = nx1[d] \/ x \in bl1[nx1[d]])
  <2> SUFFICES ASSUME NEW d \in W, NEW x \in Addr
               PROVE  ow1[x] = d <=>
                        nx1[d] # d /\ (x = nx1[d] \/ x \in bl1[nx1[d]])
    OBVIOUS
  <2>1. CASE d = c
    BY <2>1, <1>1, <1>2, <1>3, <1>4
  <2>2. CASE d # c
    BY <2>2, <1>1, <1>2, <1>3, <1>4 DEF Chains, Node, Rings, On
  <2> QED
    BY <2>1, <2>2
<1>6. ASSUME NEW y \in Addr, ow1[y] # None
      PROVE  /\ y \notin bl1[y]
             /\ \A x \in bl1[y] : ow1[x] = ow1[y]
             /\ nx1[y] # ow1[y] => nx1[y] \in Addr
             /\ \A x \in Addr :
                  x \in bl1[y] <=>
                    nx1[y] # ow1[y] /\ (x = nx1[y] \/ x \in bl1[nx1[y]])
  <2>0. bl1[y] \subseteq Addr
    BY DEF bl1, Belows
  <2>1. CASE y = a
    BY <2>0, <2>1, <1>1, <1>2, <1>3, <1>4 DEF Chains
  <2>2. CASE y # a
    <3>1. /\ y \in Node \ {a, c}
          /\ ow[y] # None
          /\ a \notin bl[y]
      BY <2>2, <1>6, <1>2 DEF Chains, Node
    <3> QED
      BY <2>0, <2>2, <3>1, <1>1, <1>2, <1>3 DEF Chains
  <2> QED
    BY <2>1, <2>2
<1> QED
  BY <1>5, <1>6 DEF Chains

LEMMA DelChains ==
  ASSUME NEW nx \in Links, NEW pv \in Links, NEW ow \in Owners,
         NEW bl \in Belows,
         NEW W \in SUBSET Contexts, NEW a \in Addr,
         ow[a] \in W, Rings(nx, pv, ow, W), Chains(nx, ow, bl, W)
  PROVE  Chains(DelNext(nx, pv, a), [ow EXCEPT ![a] = None],
                [x \in Addr |-> bl[x] \ {a}], W)
BY DEF Rings, Chains, On, DelNext, Links, Owners, Belows, Node

\* Only the links of the nodes on a list matter.
LEMMA SameLists ==
  ASSUME NEW nx \in Links, NEW pv \in Links, NEW ow \in Owners,
         NEW bl \in Belows, NEW W \in SUBSET Contexts,
         Rings(nx, pv, ow, W), Chains(nx, ow, bl, W),
         NEW nx1 \in Links, NEW pv1 \in Links, NEW bl1 \in Belows,
         \A n \in Node : n \in Contexts \/ ow[n] # None =>
           nx1[n] = nx[n] /\ pv1[n] = pv[n],
         \A a \in Addr : ow[a] # None => bl1[a] = bl[a]
  PROVE  Rings(nx1, pv1, ow, W) /\ Chains(nx1, ow, bl1, W)
<1>1. Rings(nx1, pv1, ow, W)
  BY DEF Rings, On, Node
<1>2. Chains(nx1, ow, bl1, W)
  <2>1. ASSUME NEW c \in W, NEW x \in Addr
        PROVE  ow[x] = c <=> nx1[c] # c /\ (x = nx1[c] \/ x \in bl1[nx1[c]])
    <3>1. nx[c] = c \/ (nx[c] \in Addr /\ ow[nx[c]] = c)
      BY DEF Rings, On, Node
    <3> QED
      BY <3>1 DEF Chains, Node
  <2>2. ASSUME NEW a \in Addr, ow[a] # None
        PROVE  /\ a \notin bl1[a]
               /\ \A x \in bl1[a] : ow[x] = ow[a]
               /\ nx1[a] # ow[a] => nx1[a] \in Addr
               /\ \A x \in Addr :
                   x \in bl1[a] <=>
                     nx1[a] # ow[a] /\ (x = nx1[a] \/ x \in bl1[nx1[a]])
    <3>1. /\ nx1[a] = nx[a] /\ bl1[a] = bl[a] /\ a \notin bl[a]
          /\ \A x \in bl[a] : ow[x] = ow[a]
          /\ nx[a] # ow[a] => nx[a] \in Addr
          /\ \A x \in Addr :
               x \in bl[a] <=> nx[a] # ow[a] /\ (x = nx[a] \/ x \in bl[nx[a]])
      BY <2>2 DEF Chains, Node
    <3>2. nx[a] # ow[a] => bl1[nx[a]] = bl[nx[a]]
      BY <2>2, <3>1
    <3> QED
      BY <3>1, <3>2
  <2> QED
    BY <2>1, <2>2 DEF Chains
<1> QED
  BY <1>1, <1>2

\* The first node of a list that is being destroyed goes: the others keep
\* their successors.
LEMMA PopLists ==
  ASSUME NEW nx \in Links, NEW pv \in Links, NEW ow \in Owners,
         NEW bl \in Belows, NEW W \in SUBSET Contexts, NEW a \in Addr,
         ow[a] # None, ow[a] \notin W,
         \A x \in Addr : ow[x] = ow[a] => x = a \/ x \in bl[a],
         Rings(nx, pv, ow, W), Chains(nx, ow, bl, W), Nested(ow, bl)
  PROVE  /\ Rings(nx, pv, [ow EXCEPT ![a] = None], W)
         /\ Chains(nx, [ow EXCEPT ![a] = None], [x \in Addr |-> bl[x] \ {a}], W)
<1>1. Rings(nx, pv, [ow EXCEPT ![a] = None], W)
  BY DEF Rings, On, Owners
<1>2. Chains(nx, [ow EXCEPT ![a] = None], [x \in Addr |-> bl[x] \ {a}], W)
  <2>1. ASSUME NEW x \in Addr, ow[x] # None, x # a
        PROVE  nx[x] # a /\ a \notin bl[x]
    <3>1. a \notin bl[x]
      <4> SUFFICES ASSUME a \in bl[x] PROVE FALSE
        OBVIOUS
      <4>1. ow[a] = ow[x] /\ x \notin bl[x]
        BY <2>1 DEF Chains
      <4>2. x \in bl[a] /\ bl[a] \subseteq bl[x]
        BY <2>1, <4>1 DEF Nested
      <4> QED
        BY <4>1, <4>2
    <3> QED
      BY <2>1, <3>1 DEF Chains, Owners
  <2>2. ASSUME NEW c \in W
        PROVE  nx[c] = c \/ (nx[c] \in Addr \ {a} /\ ow[nx[c]] = c)
    BY <2>2 DEF Rings, On, Node
  <2>3. ASSUME NEW c \in W, NEW x \in Addr
        PROVE  [ow EXCEPT ![a] = None][x] = c <=>
                 nx[c] # c /\ (x = nx[c] \/
                   x \in [y \in Addr |-> bl[y] \ {a}][nx[c]])
    <3>1. CASE nx[c] = c
      BY <3>1 DEF Chains, Owners
    <3>2. CASE nx[c] # c
      <4>1. nx[c] \in Addr \ {a} /\ ow[nx[c]] = c
        BY <2>2, <3>2
      <4>2. [y \in Addr |-> bl[y] \ {a}][nx[c]] = bl[nx[c]] \ {a}
        BY <4>1
      <4> QED
        BY <3>2, <4>1, <4>2 DEF Chains, Owners
    <3> QED
      BY <3>1, <3>2
  <2>4. ASSUME NEW x \in Addr, x # a, ow[x] # None
        PROVE  /\ x \notin bl[x] \ {a}
               /\ \A y \in bl[x] \ {a} : [ow EXCEPT ![a] = None][y] = ow[x]
               /\ nx[x] # ow[x] => nx[x] \in Addr
               /\ \A y \in Addr :
                    y \in bl[x] \ {a} <=>
                      nx[x] # ow[x] /\ (y = nx[x] \/ y \in bl[nx[x]] \ {a})
    <3>1. nx[x] # ow[x] => nx[x] \in Addr
      BY <2>4 DEF Chains
    <3>2. \A y \in bl[x] \ {a} : [ow EXCEPT ![a] = None][y] = ow[x]
      BY <2>4 DEF Chains, Owners, Belows
    <3> QED
      BY <2>1, <2>4, <3>1, <3>2 DEF Chains
  <2> QED
    BY <2>3, <2>4 DEF Chains, Owners
<1> QED
  BY <1>1, <1>2

LEMMA AddNested ==
  ASSUME NEW ow \in Owners, NEW bl \in Belows,
         NEW c \in Contexts, NEW a \in Addr,
         ow[a] = None, Nested(ow, bl)
  PROVE  Nested([ow EXCEPT ![a] = c],
                [bl EXCEPT ![a] = {x \in Addr : ow[x] = c}])
<1> DEFINE ow1 == [ow EXCEPT ![a] = c]
           bl1 == [bl EXCEPT ![a] = {x \in Addr : ow[x] = c}]
<1> SUFFICES ASSUME NEW y \in Addr, ow1[y] # None, NEW x \in bl1[y]
             PROVE  ow1[x] = ow1[y] /\ bl1[x] \subseteq bl1[y]
  BY DEF Nested
<1>1. CASE y = a
  <2>1. x \in Addr /\ ow[x] = c /\ x # a
    BY <1>1 DEF Belows
  <2>2. bl1[x] = bl[x] /\ \A z \in bl[x] : z \in Addr /\ ow[z] = c
    BY <2>1 DEF Nested, Belows
  <2> QED
    BY <1>1, <2>1, <2>2 DEF Belows, Owners
<1>2. CASE y # a
  <2>1. ow[y] # None /\ bl1[y] = bl[y] /\ x \in bl[y] /\ x \in Addr
    BY <1>2 DEF Owners, Belows
  <2>2. ow[x] = ow[y] /\ x # a
    BY <2>1 DEF Nested
  <2> QED
    BY <1>2, <2>1, <2>2 DEF Nested, Belows, Owners
<1> QED
  BY <1>1, <1>2

LEMMA DelNested ==
  ASSUME NEW ow \in Owners, NEW bl \in Belows, NEW a \in Addr,
         ow[a] # None, Nested(ow, bl)
  PROVE  Nested([ow EXCEPT ![a] = None], [x \in Addr |-> bl[x] \ {a}])
BY DEF Nested, Owners, Belows

-----------------------------------------------------------------------------
(* Type correctness *)

LEMMA ForgetType ==
  ASSUME NEW f \in Links, NEW S
  PROVE  Forget(f, S) \in Links
BY DEF Forget, Links, Node

LEMMA AddType ==
  ASSUME NEW nx \in Links, NEW pv \in Links, NEW a \in Addr, NEW c \in Contexts
  PROVE  /\ AddNext(nx, a, c) \in Links
         /\ AddPrev(nx, pv, a, c) \in Links
BY DEF AddNext, AddPrev, Links, Node

LEMMA DelType ==
  ASSUME NEW nx \in Links, NEW pv \in Links, NEW a \in Addr
  PROVE  /\ DelNext(nx, pv, a) \in Links
         /\ DelPrev(nx, pv, a) \in Links
BY DEF DelNext, DelPrev, Links, Node

LEMMA UnlinkType ==
  ASSUME TypeOK, NEW a \in Addr, Unlink(a)
  PROVE  /\ next' \in Links /\ prev' \in Links
         /\ size' \in [Addr -> 0 .. SizeMod - 1]
         /\ marked' \in SUBSET (Live')
         /\ owner' \in [Addr -> Contexts \cup {None}]
         /\ below' \in [Addr -> SUBSET Addr]
         /\ req' \in [Addr -> Nat]
<1>1. next' \in Links /\ prev' \in Links
  BY DelType, ForgetType DEF Unlink, TypeOK, Links
<1>2. size' \in [Addr -> 0 .. SizeMod - 1]
  BY DEF Unlink, Release, TypeOK
<1>3. owner' \in [Addr -> Contexts \cup {None}]
  BY DEF Unlink, Release, Forget, TypeOK
<1>4. marked' \in SUBSET (Live')
  BY DEF Unlink, Release, Forget, TypeOK, Live
<1>5. below' \in [Addr -> SUBSET Addr] /\ req' \in [Addr -> Nat]
  BY DEF Unlink, Release, TypeOK
<1> QED
  BY <1>1, <1>2, <1>3, <1>4, <1>5

LEMMA RelinkType ==
  ASSUME TypeOK, NEW a \in Live, NEW b \in Addr, NEW c \in Contexts,
         Relink(c, a, b)
  PROVE  /\ next' \in Links /\ prev' \in Links
         /\ owner' \in [Addr -> Contexts \cup {None}]
         /\ \A x \in Live \ {a} : owner'[x] # None
         /\ owner'[b] = c
         /\ below' \in [Addr -> SUBSET Addr]
<1> DEFINE nx == DelNext(next, prev, a)
           pv == DelPrev(next, prev, a)
<1>1. nx \in Links /\ pv \in Links
  BY DelType DEF TypeOK, Links, Live
<1>2. AddNext(nx, b, c) \in Links /\ AddPrev(nx, pv, b, c) \in Links
  BY <1>1, AddType
<1>3. next' \in Links /\ prev' \in Links
  BY <1>2, ForgetType DEF Relink
<1>4. /\ owner' \in [Addr -> Contexts \cup {None}]
      /\ \A x \in Live \ {a} : owner'[x] # None
      /\ owner'[b] = c
  BY DEF Relink, Forget, TypeOK, Live
<1>5. below' \in [Addr -> SUBSET Addr]
  BY DEF Relink, TypeOK, Owned
<1> QED
  BY <1>3, <1>4, <1>5

LEMMA AdvanceType ==
  ASSUME TypeOK, next' \in Links, Advance
  PROVE  pos' \in Node \cup {None} /\ nxt' \in Node \cup {None}
BY DEF TypeOK, Links, Advance, Follow

-----------------------------------------------------------------------------
(* The inductive invariant *)

\* RingOK and ChainOK, and the order of each list is transitive.
Lists ==
  /\ Rings(next, prev, owner, Whole)
  /\ Chains(next, owner, below, Whole)
  /\ Nested(owner, below)

\* CursorSafe, without what follows from Lists.
Cursor ==
  op # "idle" =>
    /\ ctx \in Contexts
    /\ pos \in Node /\ On(owner, ctx, pos)
    /\ pos # ctx => nxt \in Node /\ On(owner, ctx, nxt) /\ nxt = next[pos]

IInv == TypeOK /\ Lists /\ Cursor /\ LoopProgress

LEMMA TypeStep ==
  ASSUME TypeOK, Cursor, [Next]_vars
  PROVE  TypeOK'
<1>1. ASSUME NEW c \in Contexts, NEW s \in Nat, NEW a \in Addr,
             Malloc(c, s, a)
      PROVE  TypeOK'
  <2>1. next' \in Links /\ prev' \in Links
    BY <1>1, AddType DEF Malloc, TypeOK, Links
  <2>2. size' \in [Addr -> 0 .. SizeMod - 1] /\ req' \in [Addr -> Nat]
    <3>1. SizeField(s) \in 0 .. SizeMod - 1
      BY DEF SizeField
    <3> QED
      BY <1>1, <3>1 DEF Malloc, TypeOK
  <2>3. /\ owner' \in [Addr -> Contexts \cup {None}]
        /\ below' \in [Addr -> SUBSET Addr]
        /\ marked' \in SUBSET (Live')
    BY <1>1 DEF Malloc, TypeOK, Live, Owned
  <2> QED
    BY <1>1, <2>1, <2>2, <2>3 DEF TypeOK, Links, Malloc, loop
<1>2. ASSUME NEW c \in Contexts, NEW s \in Nat, NEW a \in Addr,
             NEW b \in Addr, Realloc(c, a, b, s)
      PROVE  TypeOK'
  <2>1. SizeField(s) \in 0 .. SizeMod - 1
    BY DEF SizeField
  <2>2. size' \in [Addr -> 0 .. SizeMod - 1] /\ req' \in [Addr -> Nat]
    BY <1>2, <2>1 DEF Realloc, TypeOK
  <2>3. marked' \in SUBSET (Live')
    BY <1>2, RelinkType DEF Realloc, TypeOK, Live
  <2> QED
    BY <1>2, <2>2, <2>3, RelinkType DEF Realloc, TypeOK, Links, loop, Live
<1>3. ASSUME NEW c \in Contexts, NEW a \in Addr, ReallocFail(c, a)
      PROVE  TypeOK'
  <2>1. marked' \in SUBSET (Live')
    BY <1>3, RelinkType DEF ReallocFail, TypeOK, Live
  <2> QED
    BY <1>3, <2>1, RelinkType DEF ReallocFail, TypeOK, Links, loop, Live
<1>4. ASSUME NEW a \in Addr, Free(a)
      PROVE  TypeOK'
  BY <1>4, UnlinkType DEF Free, TypeOK, Links, loop
<1>5. ASSUME NEW a \in Addr, Mark(a)
      PROVE  TypeOK'
  BY <1>5 DEF Mark, TypeOK, loop, Live
<1>6. ASSUME NEW c \in Contexts, NEW o \in {"destroy", "sweep", "total"},
             Begin(o, c)
      PROVE  TypeOK'
  BY <1>6 DEF Begin, TypeOK, heap, Follow, Node, Live
<1>7. CASE DestroyStep
  <2>1. next' \in Links /\ prev' \in Links
    BY <1>7, ForgetType DEF DestroyStep, TypeOK, Links
  <2>2. /\ size' \in [Addr -> 0 .. SizeMod - 1]
        /\ req' \in [Addr -> Nat]
        /\ below' \in [Addr -> SUBSET Addr]
        /\ owner' \in [Addr -> Contexts \cup {None}]
        /\ marked' \in SUBSET (Live')
    BY <1>7 DEF DestroyStep, Release, Forget, TypeOK, Live
  <2> QED
    BY <1>7, <2>1, <2>2, AdvanceType DEF DestroyStep, TypeOK, Links, Advance
<1>8. CASE DestroyEnd
  BY <1>8 DEF DestroyEnd, End, TypeOK, Node, Live
<1>9. CASE SweepFree
  <2>1. pos \in Addr
    BY <1>9 DEF SweepFree, ToSweep, TypeOK, Live
  <2> QED
    BY <1>9, <2>1, UnlinkType, AdvanceType
       DEF SweepFree, ToSweep, TypeOK, Links, Advance
<1>10. CASE SweepSkip
  BY <1>10, AdvanceType DEF SweepSkip, TypeOK, Links, Advance, heap, Live
<1>11. CASE TotalStep
  <2>1. size[pos] \in Nat
    BY <1>11 DEF TotalStep, TypeOK, Cursor, On
  <2> QED
    BY <1>11, <2>1, AdvanceType
       DEF TotalStep, TypeOK, Links, Advance, heap, Live
<1>12. CASE LoopEnd
  BY <1>12 DEF LoopEnd, End, TypeOK, heap, Live
<1>13. CASE UNCHANGED vars
  BY <1>13 DEF vars, TypeOK, Live
<1>14. ASSUME NEW c \in Contexts, NEW s \in Nat, NEW a \in Addr,
              \/ \E e \in Requests : Calloc(c, s, e, a)
              \/ Strdup(c, s, a) \/ Strndup(c, s, a) \/ Memclone(c, s, a)
       PROVE  \E t \in Nat : Malloc(c, t, a)
  BY <1>14 DEF Calloc, Strdup, Strndup, Memclone
<1>15. ASSUME NEW c \in Contexts, NEW s \in Nat, NEW a \in Addr,
              NEW b \in Addr, Strncat(c, a, b, s)
       PROVE  \E t \in Nat : Realloc(c, a, b, t)
  BY <1>15 DEF Strncat
<1> QED
  BY <1>1, <1>2, <1>3, <1>4, <1>5, <1>6, <1>7, <1>8, <1>9, <1>10, <1>11,
     <1>12, <1>13, <1>14, <1>15
  DEF Next, LoopNext

-----------------------------------------------------------------------------
(* The lists *)

LEMMA MallocLists ==
  ASSUME TypeOK, Lists, NEW c \in Contexts, NEW s, NEW a \in Addr,
         Malloc(c, s, a)
  PROVE  Lists'
<1>1. Whole = Contexts /\ Whole' = Contexts /\ c \in Whole
  BY DEF Malloc, Whole, loop
<1>2. next \in Links /\ prev \in Links /\ owner \in Owners /\ below \in Belows
  BY DEF TypeOK, Links, Owners, Belows
<1>3. /\ next' = AddNext(next, a, c)
      /\ prev' = AddPrev(next, prev, a, c)
      /\ owner' = [owner EXCEPT ![a] = c]
      /\ below' = [below EXCEPT ![a] = {x \in Addr : owner[x] = c}]
      /\ owner[a] = None
  BY DEF Malloc, Owned
<1>4. Rings(next', prev', owner', Whole)
  BY <1>1, <1>2, <1>3, AddRings DEF Lists
<1>5. Chains(next', owner', below', Whole)
  BY <1>1, <1>2, <1>3, AddChains DEF Lists
<1>6. Nested(owner', below')
  BY <1>2, <1>3, AddNested DEF Lists
<1> QED
  BY <1>1, <1>4, <1>5, <1>6 DEF Lists

LEMMA UnlinkLists ==
  ASSUME TypeOK, Lists, NEW a \in Addr, owner[a] \in Whole, Unlink(a),
         Whole' = Whole
  PROVE  Lists'
<1> DEFINE nx == DelNext(next, prev, a)
           pv == DelPrev(next, prev, a)
           ow == [owner EXCEPT ![a] = None]
           bl == [x \in Addr |-> below[x] \ {a}]
<1>1. next \in Links /\ prev \in Links /\ owner \in Owners /\ below \in Belows
  BY DEF TypeOK, Links, Owners, Belows
<1>2. nx \in Links /\ pv \in Links /\ ow \in Owners /\ bl \in Belows
  BY <1>1, DelType DEF Owners, Belows
<1>3. next' \in Links /\ prev' \in Links /\ below' \in Belows
  BY UnlinkType DEF Belows
<1>4. Whole \in SUBSET Contexts
  BY DEF Whole
<1>5. Rings(nx, pv, ow, Whole) /\ Chains(nx, ow, bl, Whole) /\ Nested(ow, bl)
  BY <1>1, <1>4, DelRings, DelChains, DelNested DEF Lists
<1>6. owner' = ow
  BY DEF Unlink, Release, Forget, TypeOK
<1>7. \A n \in Node : n \in Contexts \/ ow[n] # None =>
        next'[n] = nx[n] /\ prev'[n] = pv[n]
  BY <1>2, <1>6 DEF Unlink, Forget, Links, Node, TypeOK
<1>8. \A x \in Addr : ow[x] # None => below'[x] = bl[x]
  BY DEF Unlink, Release, TypeOK
<1> HIDE DEF nx, pv, ow, bl
<1>9. Rings(next', prev', ow, Whole) /\ Chains(next', ow, below', Whole)
  BY <1>2, <1>3, <1>4, <1>5, <1>7, <1>8, SameLists
<1>10. Nested(ow, below')
  BY <1>2, <1>5, <1>8 DEF Nested, Belows, Owners, Chains
<1> QED
  BY <1>6, <1>9, <1>10 DEF Lists

LEMMA RelinkLists ==
  ASSUME TypeOK, Lists, NEW c \in Contexts, NEW a \in Live, NEW b \in Addr,
         b = a \/ owner[b] = None, Relink(c, a, b),
         Whole = Contexts, Whole' = Contexts
  PROVE  Lists'
<1> DEFINE nx1 == DelNext(next, prev, a)
           pv1 == DelPrev(next, prev, a)
           ow1 == [owner EXCEPT ![a] = None]
           bl1 == [x \in Addr |-> below[x] \ {a}]
           nx2 == AddNext(nx1, b, c)
           pv2 == AddPrev(nx1, pv1, b, c)
           ow2 == [ow1 EXCEPT ![b] = c]
           bl2 == [bl1 EXCEPT ![b] = {x \in Addr : ow1[x] = c}]
<1>1. next \in Links /\ prev \in Links /\ owner \in Owners /\ below \in Belows
  BY DEF TypeOK, Links, Owners, Belows
<1>2. a \in Addr /\ owner[a] \in Contexts
  BY DEF Live, TypeOK
<1>3. nx1 \in Links /\ pv1 \in Links /\ ow1 \in Owners /\ bl1 \in Belows
  BY <1>1, <1>2, DelType DEF Owners, Belows
<1>4. /\ Rings(nx1, pv1, ow1, Contexts)
      /\ Chains(nx1, ow1, bl1, Contexts)
      /\ Nested(ow1, bl1)
  BY <1>1, <1>2, DelRings, DelChains, DelNested DEF Lists
<1>5. ow1[b] = None
  BY <1>1, <1>2 DEF Owners
<1>6. owner' = ow2
  BY <1>1, <1>2 DEF Relink, Forget, Owners
<1>7. \A x \in Addr : ow2[x] # None => below'[x] = bl2[x]
  BY <1>1, <1>2 DEF Relink, Owned, Owners, Belows
<1>8. \A n \in Node : n \in Contexts \/ ow2[n] # None =>
        next'[n] = nx2[n] /\ prev'[n] = pv2[n]
  <2>1. nx2 \in Links /\ pv2 \in Links
    BY <1>3, AddType
  <2>2. next' = Forget(nx2, {a} \ {b}) /\ prev' = Forget(pv2, {a} \ {b})
    BY DEF Relink
  <2> HIDE DEF nx2, pv2
  <2> QED
    BY <2>1, <2>2, <1>1, <1>2 DEF Forget, Links, Owners, Node
<1> HIDE DEF nx1, pv1, ow1, bl1
<1>9. nx2 \in Links /\ pv2 \in Links /\ ow2 \in Owners /\ bl2 \in Belows
  BY <1>3, AddType DEF Owners, Belows
<1>10. /\ Rings(nx2, pv2, ow2, Contexts)
       /\ Chains(nx2, ow2, bl2, Contexts)
       /\ Nested(ow2, bl2)
  BY <1>3, <1>4, <1>5, AddRings, AddChains, AddNested
<1>11. next' \in Links /\ prev' \in Links /\ below' \in Belows
  BY RelinkType DEF Belows
<1> HIDE DEF nx2, pv2, ow2, bl2
<1>12. Rings(next', prev', ow2, Contexts) /\ Chains(next', ow2, below', Contexts)
  BY <1>7, <1>8, <1>9, <1>10, <1>11, SameLists
<1>13. Nested(ow2, below')
  BY <1>7, <1>9, <1>10 DEF Nested, Belows, Owners, Chains
<1> QED
  BY <1>6, <1>12, <1>13 DEF Lists

\* ta_list_destroy frees the first of the remaining nodes.
LEMMA DestroyLists ==
  ASSUME IInv, DestroyStep
  PROVE  /\ Lists'
         /\ Cursor'
         /\ LoopProgress'
<1>1. next \in Links /\ prev \in Links /\ owner \in Owners /\ below \in Belows
  BY DEF IInv, TypeOK, Links, Owners, Belows
<1>2. /\ op = "destroy" /\ ctx \in Contexts /\ ctx \notin Whole
      /\ pos \in Addr /\ owner[pos] = ctx
      /\ nxt \in Node /\ On(owner, ctx, nxt) /\ nxt = next[pos]
  BY DEF IInv, Cursor, DestroyStep, On, Whole
<1>3. \A x \in Addr : owner[x] = ctx <=> x = pos \/ x \in below[pos]
  BY <1>1, <1>2 DEF IInv, LoopProgress, Ahead, Owned, DestroyStep, Belows
<1> DEFINE ow == [owner EXCEPT ![pos] = None]
           bl == [x \in Addr |-> below[x] \ {pos}]
<1>4. Whole' = Whole /\ Whole \in SUBSET Contexts
  BY DEF DestroyStep, Advance, Whole
<1>5. Rings(next, prev, ow, Whole) /\ Chains(next, ow, bl, Whole)
  <2>1. owner[pos] # None /\ owner[pos] \notin Whole
    BY <1>2
  <2>2. \A x \in Addr : owner[x] = owner[pos] => x = pos \/ x \in below[pos]
    BY <1>2, <1>3
  <2> QED
    BY <1>1, <1>2, <1>4, <2>1, <2>2, PopLists DEF IInv, Lists
<1>6. Nested(ow, bl)
  BY <1>1, <1>2, <1>4, DelNested DEF IInv, Lists
<1>7. owner' = ow
  BY <1>1 DEF DestroyStep, Release, Forget, Owners
<1>8. \A n \in Node : n \in Contexts \/ ow[n] # None =>
        next'[n] = next[n] /\ prev'[n] = prev[n]
  BY <1>1, <1>2 DEF DestroyStep, Forget, Links, Owners, Node
<1>9. next' \in Links /\ prev' \in Links
  BY <1>1, ForgetType DEF DestroyStep
<1>10. below' \in Belows /\ \A x \in Addr : ow[x] # None => below'[x] = bl[x]
  BY <1>1 DEF DestroyStep, Release, Belows, Owners
<1>11. ow \in Owners /\ bl \in Belows
  BY <1>1 DEF Owners, Belows
<1>12. Lists'
  <2> HIDE DEF ow, bl
  <2>1. Rings(next', prev', ow, Whole) /\ Chains(next', ow, below', Whole)
    BY <1>1, <1>4, <1>5, <1>8, <1>9, <1>10, <1>11, SameLists
  <2>2. Nested(ow, below')
    BY <1>5, <1>6, <1>10, <1>11 DEF Nested, Belows, Owners, Chains
  <2> QED
    BY <1>4, <1>7, <2>1, <2>2 DEF Lists
\* What was below the freed node is what the next cursor heads.
<1>13. /\ pos \notin below[pos]
       /\ \A x \in Addr :
            x \in below[pos] <=> nxt # ctx /\ (x = nxt \/ x \in below[nxt])
  BY <1>2 DEF IInv, Lists, Chains
<1>14. pos' = nxt /\ ctx' = ctx /\ op' = op /\ nxt' = Follow(next', nxt)
  BY DEF DestroyStep, Advance
<1>15. nxt # pos
  BY <1>2, <1>13 DEF Node, On
<1>16. nxt # ctx => nxt \in Addr /\ owner[nxt] = ctx /\ owner'[nxt] = ctx
  BY <1>1, <1>2, <1>7, <1>15 DEF Node, On, Owners
<1>17. nxt # ctx => /\ next'[nxt] \in Node
                    /\ On(owner', ctx, next'[nxt])
  <2> SUFFICES ASSUME nxt # ctx
               PROVE  next'[nxt] \in Node /\ On(owner', ctx, next'[nxt])
    OBVIOUS
  <2>1. next'[nxt] # ctx => next'[nxt] \in Addr
    BY <1>2, <1>12, <1>16 DEF Lists, Chains
  <2>2. next'[nxt] # ctx => next'[nxt] \in below'[nxt]
    BY <1>2, <1>12, <1>16, <2>1 DEF Lists, Chains
  <2>3. next'[nxt] # ctx => owner'[next'[nxt]] = ctx
    BY <1>2, <1>12, <1>16, <2>1, <2>2 DEF Lists, Chains
  <2> QED
    BY <1>2, <2>1, <2>3 DEF On, Node
<1>18. Cursor'
  BY <1>2, <1>14, <1>16, <1>17 DEF Cursor, On, Follow, Node
<1>19. \A x \in Addr : owner'[x] = ctx <=> nxt # ctx /\ (x = nxt \/ x \in below'[nxt])
  <2>1. \A x \in Addr : owner'[x] = ctx <=> owner[x] = ctx /\ x # pos
    BY <1>1, <1>2, <1>7 DEF Owners
  <2>2. nxt # ctx => below'[nxt] = below[nxt] \ {pos}
    BY <1>10, <1>15, <1>16, <1>7, <1>2
  <2> QED
    BY <2>1, <2>2, <1>3, <1>13, <1>15
<1>20. LoopProgress'
  BY <1>2, <1>10, <1>14, <1>16, <1>19 DEF LoopProgress, Ahead, Owned, Belows
<1> QED
  BY <1>12, <1>18, <1>20

\* ta_sweep unlinks and frees the node its cursor stands on.
LEMMA SweepLists ==
  ASSUME IInv, SweepFree
  PROVE  Lists' /\ Cursor' /\ LoopProgress'
<1>1. next \in Links /\ prev \in Links /\ owner \in Owners /\ below \in Belows
  BY DEF IInv, TypeOK, Links, Owners, Belows
<1>2. /\ op = "sweep" /\ ctx \in Contexts /\ Whole = Contexts
      /\ pos \in Addr /\ owner[pos] = ctx
      /\ nxt \in Node /\ On(owner, ctx, nxt) /\ nxt = next[pos]
  BY DEF IInv, Cursor, SweepFree, On, Whole
<1>3. pos' = nxt /\ ctx' = ctx /\ op' = op /\ nxt' = Follow(next', nxt)
  BY DEF SweepFree, ToSweep, Advance
<1>4. Whole' = Contexts
  BY <1>2, <1>3 DEF Whole
<1>5. Lists'
  BY <1>2, <1>4, UnlinkLists DEF IInv, SweepFree
<1>6. /\ pos \notin below[pos]
      /\ \A x \in Addr :
           x \in below[pos] <=> nxt # ctx /\ (x = nxt \/ x \in below[nxt])
  BY <1>2 DEF IInv, Lists, Chains
<1>7. nxt # pos
  BY <1>2, <1>6 DEF Node, On
<1>8. owner' = [owner EXCEPT ![pos] = None]
  BY <1>1 DEF SweepFree, ToSweep, Unlink, Release, Forget, Owners
<1>9. On(owner', ctx, nxt)
  BY <1>1, <1>2, <1>7, <1>8 DEF On, Owners
<1>10. next'[nxt] \in Node /\ On(owner', ctx, next'[nxt])
  BY <1>2, <1>4, <1>5, <1>9 DEF Lists, Rings
<1>11. Cursor'
  BY <1>2, <1>3, <1>9, <1>10 DEF Cursor, Follow
<1>12. LoopProgress'
  <2>1. \A x \in marked : owner[x] = ctx => x = pos \/ x \in below[pos]
    BY <1>2 DEF IInv, TypeOK, LoopProgress, Ahead, Owned, SweepFree, ToSweep, Live
  <2>2. marked' = marked \ {pos}
    BY DEF SweepFree, ToSweep, Unlink, Release
  <2>3. marked \subseteq Addr
    BY DEF IInv, TypeOK, Live
  <2>4. nxt # ctx => below'[nxt] = below[nxt] \ {pos}
    BY <1>1, <1>2, <1>7 DEF SweepFree, ToSweep, Unlink, Release, Node, On
  <2>5. \A x \in marked' : owner'[x] = ctx =>
          nxt # ctx /\ (x = nxt \/ x \in below'[nxt])
    BY <1>1, <1>6, <1>8, <2>1, <2>2, <2>3, <2>4 DEF Owners
  <2> QED
    BY <1>2, <1>3, <2>5 DEF LoopProgress, Ahead, Owned
<1> QED
  BY <1>5, <1>11, <1>12

\* A step of a loop that leaves the heap alone.
LEMMA SkipStep ==
  ASSUME IInv, op \in {"sweep", "total"}, pos # ctx, UNCHANGED heap, Advance,
         op = "sweep" => pos \notin marked
  PROVE  Lists' /\ Cursor' /\ LoopProgress'
<1>1. /\ ctx \in Contexts /\ Whole = Contexts
      /\ pos \in Addr /\ owner[pos] = ctx
      /\ nxt \in Node /\ On(owner, ctx, nxt) /\ nxt = next[pos]
  BY DEF IInv, Cursor, On, Whole
<1>2. /\ pos' = nxt /\ ctx' = ctx /\ op' = op /\ nxt' = Follow(next, nxt)
      /\ next' = next /\ prev' = prev /\ owner' = owner /\ below' = below
      /\ marked' = marked
  BY DEF Advance, heap
<1>3. Lists'
  BY <1>2 DEF IInv, Lists, Whole
<1>4. next[nxt] \in Node /\ On(owner, ctx, next[nxt])
  BY <1>1 DEF IInv, Lists, Rings
<1>5. Cursor'
  BY <1>1, <1>2, <1>4 DEF Cursor, Follow
<1>6. LoopProgress'
  <2>1. \A x \in Addr :
          x \in below[pos] <=> nxt # ctx /\ (x = nxt \/ x \in below[nxt])
    BY <1>1 DEF IInv, Lists, Chains
  <2>2. op = "sweep" =>
          \A x \in marked : owner[x] = ctx => x = pos \/ x \in below[pos]
    BY <1>1 DEF IInv, TypeOK, LoopProgress, Ahead, Owned, Live
  <2>3. marked \subseteq Addr
    BY DEF IInv, TypeOK, Live
  <2>4. op = "sweep" => \A x \in marked : owner[x] = ctx =>
          nxt # ctx /\ (x = nxt \/ x \in below[nxt])
    BY <2>1, <2>2, <2>3
  <2> QED
    BY <1>1, <1>2, <2>4 DEF LoopProgress, Ahead, Owned
<1> QED
  BY <1>3, <1>5, <1>6

LEMMA BeginStep ==
  ASSUME IInv, NEW c \in Contexts, NEW o \in {"destroy", "sweep", "total"},
         Begin(o, c)
  PROVE  Lists' /\ Cursor' /\ LoopProgress'
<1>1. /\ op' = o /\ ctx' = c /\ pos' = next[c] /\ nxt' = Follow(next, pos')
      /\ next' = next /\ prev' = prev /\ owner' = owner /\ below' = below
      /\ marked' = marked
      /\ op = "idle" /\ Whole = Contexts /\ Whole' \subseteq Contexts
  BY DEF Begin, heap, Whole
<1>2. Lists'
  BY <1>1 DEF IInv, Lists, Rings, Chains
<1>3. next[c] \in Node /\ On(owner, c, next[c])
  BY <1>1 DEF IInv, Lists, Rings, On, Node
<1>4. next[next[c]] \in Node /\ On(owner, c, next[next[c]])
  BY <1>1, <1>3 DEF IInv, Lists, Rings
<1>5. Cursor'
  BY <1>1, <1>3, <1>4 DEF Cursor, Follow
<1>6. LoopProgress'
  <2>1. \A x \in Addr :
          owner[x] = c <=> next[c] # c /\ (x = next[c] \/ x \in below[next[c]])
    BY <1>1 DEF IInv, Lists, Chains
  <2>2. next[c] # c => next[c] \in Addr /\ below[next[c]] \subseteq Addr
    BY <1>3 DEF On, IInv, TypeOK
  <2> QED
    BY <1>1, <2>1, <2>2 DEF LoopProgress, Ahead, Owned
<1> QED
  BY <1>2, <1>5, <1>6

\* The emptied list is whole again.
LEMMA DestroyEndStep ==
  ASSUME IInv, DestroyEnd
  PROVE  Lists' /\ Cursor' /\ LoopProgress'
<1>1. /\ ctx \in Contexts /\ Whole = Contexts \ {ctx} /\ Whole' = Contexts
      /\ next' = [next EXCEPT ![ctx] = ctx]
      /\ prev' = [prev EXCEPT ![ctx] = ctx]
      /\ owner' = owner /\ below' = below
      /\ op' = "idle"
      /\ \A x \in Addr : owner[x] # ctx
  BY DEF IInv, Cursor, DestroyEnd, End, Whole, LoopProgress, Ahead, Owned
<1>2. next \in Links /\ prev \in Links /\ owner \in Owners /\ below \in Belows
  BY DEF IInv, TypeOK, Links, Owners, Belows
<1>3. next'[ctx] = ctx /\ prev'[ctx] = ctx
      /\ \A n \in Node \ {ctx} : next'[n] = next[n] /\ prev'[n] = prev[n]
  BY <1>1, <1>2 DEF Links, Node
<1>4. Rings(next', prev', owner, Contexts)
  <2> SUFFICES ASSUME NEW c \in Contexts, NEW n \in Node, On(owner, c, n)
               PROVE  /\ next'[n] \in Node /\ On(owner, c, next'[n])
                      /\ prev'[next'[n]] = n
                      /\ prev'[n] \in Node /\ On(owner, c, prev'[n])
                      /\ next'[prev'[n]] = n
    BY DEF Rings
  <2>1. CASE c = ctx
    BY <1>1, <1>3, <2>1 DEF On, Node
  <2>2. CASE c # ctx
    <3>1. /\ next[n] \in Node /\ On(owner, c, next[n]) /\ prev[next[n]] = n
          /\ prev[n] \in Node /\ On(owner, c, prev[n]) /\ next[prev[n]] = n
      BY <1>1, <2>2 DEF IInv, Lists, Rings
    <3>2. n # ctx /\ next[n] # ctx /\ prev[n] # ctx
      BY <1>1, <2>2, <3>1 DEF On
    <3> QED
      BY <1>3, <3>1, <3>2
  <2> QED
    BY <2>1, <2>2
<1>5. Chains(next', owner, below, Contexts)
  <2>1. ASSUME NEW c \in Contexts, NEW x \in Addr
        PROVE  owner[x] = c <=>
                 next'[c] # c /\ (x = next'[c] \/ x \in below[next'[c]])
    BY <1>1, <1>3 DEF IInv, Lists, Chains, Node
  <2>2. ASSUME NEW a \in Addr
        PROVE  next'[a] = next[a]
    BY <1>1, <1>3 DEF Node
  <2> QED
    BY <2>1, <2>2 DEF IInv, Lists, Chains
<1>6. Lists'
  BY <1>1, <1>4, <1>5 DEF IInv, Lists
<1> QED
  BY <1>1, <1>6 DEF Cursor, LoopProgress

-----------------------------------------------------------------------------
(* The theorems *)

LEMMA ListStep ==
  ASSUME IInv, [Next]_vars
  PROVE  Lists' /\ Cursor' /\ LoopProgress'
<1>1. ASSUME op = "idle", op' = "idle"
      PROVE  Cursor' /\ LoopProgress' /\ Whole = Contexts /\ Whole' = Contexts
  BY <1>1 DEF Cursor, LoopProgress, Whole
<1>2. ASSUME NEW c \in Contexts, NEW s, NEW a \in Addr, Malloc(c, s, a)
      PROVE  Lists' /\ Cursor' /\ LoopProgress'
  BY <1>2, <1>1, MallocLists DEF IInv, Malloc, loop
<1>3. ASSUME NEW c \in Contexts, NEW s, NEW a \in Addr, NEW b \in Addr,
             Realloc(c, a, b, s)
      PROVE  Lists' /\ Cursor' /\ LoopProgress'
  BY <1>3, <1>1, RelinkLists DEF IInv, Realloc, loop
<1>4. ASSUME NEW c \in Contexts, NEW a \in Addr, ReallocFail(c, a)
      PROVE  Lists' /\ Cursor' /\ LoopProgress'
  BY <1>4, <1>1, RelinkLists DEF IInv, ReallocFail, loop, Live
<1>5. ASSUME NEW a \in Addr, Free(a)
      PROVE  Lists' /\ Cursor' /\ LoopProgress'
  <2>1. owner[a] \in Whole /\ Whole' = Whole
    BY <1>5, <1>1 DEF IInv, TypeOK, Free, loop, Live
  <2> QED
    BY <1>5, <1>1, <2>1, UnlinkLists DEF IInv, Free, loop
<1>6. ASSUME NEW a \in Addr, Mark(a)
      PROVE  Lists' /\ Cursor' /\ LoopProgress'
  BY <1>6, <1>1 DEF IInv, Lists, Mark, loop
<1>7. CASE DestroyStep
  BY <1>7, DestroyLists
<1>8. CASE DestroyEnd
  BY <1>8, DestroyEndStep
<1>9. CASE SweepFree
  BY <1>9, SweepLists
<1>10. CASE SweepSkip
  BY <1>10, SkipStep DEF SweepSkip, ToSweep
<1>11. CASE TotalStep
  BY <1>11, SkipStep DEF TotalStep
<1>12. CASE LoopEnd
  BY <1>12 DEF IInv, LoopEnd, End, heap, Lists, Cursor, LoopProgress, Whole
<1>13. CASE UNCHANGED vars
  BY <1>13 DEF IInv, vars, Lists, Cursor, LoopProgress, Whole, Ahead, Owned
<1>14. ASSUME NEW c \in Contexts, NEW s \in Requests, NEW a \in Addr,
              \/ \E e \in Requests : Calloc(c, s, e, a)
              \/ Strdup(c, s, a) \/ Strndup(c, s, a) \/ Memclone(c, s, a)
       PROVE  \E t \in Nat : Malloc(c, t, a)
  BY <1>14 DEF Calloc, Strdup, Strndup, Memclone
<1>15. ASSUME NEW c \in Contexts, NEW s \in Requests, NEW a \in Addr,
              NEW b \in Addr, Strncat(c, a, b, s)
       PROVE  \E t \in Nat : Realloc(c, a, b, t)
  BY <1>15 DEF Strncat
<1> QED
  BY <1>2, <1>3, <1>4, <1>5, <1>6, <1>7, <1>8, <1>9, <1>10, <1>11, <1>12,
     <1>13, <1>14, <1>15, BeginStep
  DEF Next, LoopNext

LEMMA Invariance == Spec => []IInv
<1>1. TAInit => IInv
  BY DEF TAInit, IInv, TypeOK, Node, Live, Lists, Rings, Chains, Nested, On,
         Cursor, LoopProgress, Whole
<1>2. IInv /\ [Next]_vars => IInv'
  BY TypeStep, ListStep DEF IInv
<1> QED
  BY <1>1, <1>2, PTL DEF Spec

\* Whatever the callers do, the allocator's variables keep their types, and
\* only live blocks are marked.
THEOREM TypeCorrect == Spec => []TypeOK
BY Invariance, PTL DEF IInv

\* However blocks are allocated, resized, carried from one context to another
\* and freed, every list that is not being destroyed is a closed ring of
\* exactly the blocks of its context.
THEOREM RingsStayWhole == Spec => []RingOK
<1>1. IInv => RingOK
  BY DEF IInv, TypeOK, Lists, Rings, On, RingOK, Ring, Owned, Whole, Node
<1> QED
  BY <1>1, Invariance, PTL

LEMMA ChainHolds == ASSUME IInv PROVE ChainOK
<1>1. \A a \in Addr : below[a] \subseteq Addr
  BY DEF IInv, TypeOK
<1>2. \A c \in Whole : next[c] = c \/ next[c] \in Addr
  BY DEF IInv, Lists, Rings, On, Node, Whole
<1>3. ASSUME NEW c \in Whole
      PROVE  Owned(c) = IF next[c] = c THEN {} ELSE {next[c]} \cup below[next[c]]
  BY <1>1, <1>2 DEF IInv, Lists, Chains, Owned, Whole
<1>4. ASSUME NEW a \in Live
      PROVE  /\ a \notin below[a]
             /\ below[a] \subseteq Owned(owner[a])
             /\ below[a] = IF next[a] = owner[a] THEN {}
                           ELSE {next[a]} \cup below[next[a]]
  <2>1. a \in Addr /\ owner[a] # None
    BY DEF Live
  <2>2. /\ a \notin below[a]
        /\ \A x \in below[a] : owner[x] = owner[a]
        /\ next[a] # owner[a] => next[a] \in Addr
        /\ \A x \in Addr : x \in below[a] <=>
             next[a] # owner[a] /\ (x = next[a] \/ x \in below[next[a]])
    BY <2>1 DEF IInv, Lists, Chains
  <2>3. below[a] \subseteq Owned(owner[a])
    BY <1>1, <2>1, <2>2 DEF Owned
  <2>4. CASE next[a] = owner[a]
    BY <1>1, <2>1, <2>2, <2>3, <2>4
  <2>5. CASE next[a] # owner[a]
    BY <1>1, <2>1, <2>2, <2>3, <2>5
  <2> QED
    BY <2>4, <2>5
<1> QED
  BY <1>3, <1>4 DEF ChainOK

\* No block is ever lost from its context's list: the head reaches them all.
THEOREM NothingLost == Spec => []ChainOK
BY Invariance, ChainHolds, PTL

\* No loop reads a freed node, although ta_list_destroy and ta_sweep free the
\* node they stand on.
THEOREM LoopsReadLiveNodes == Spec => []CursorSafe
<1> SUFFICES ASSUME IInv PROVE CursorSafe
  BY Invariance, PTL
<1> SUFFICES ASSUME op # "idle" PROVE CursorSafe
  BY DEF CursorSafe
<1>1. /\ ctx \in Contexts /\ pos \in Ring(ctx)
      /\ pos # ctx => nxt \in Ring(ctx) /\ nxt = next[pos]
  BY DEF IInv, Cursor, On, Ring, Owned
<1>2. pos # ctx => nxt # pos
  BY <1>1 DEF IInv, Lists, Chains, Ring, Owned
<1> QED
  BY <1>1, <1>2 DEF CursorSafe

\* ta_list_destroy leaves no block of its context, ta_sweep no marked one.
THEOREM LoopsMissNothing == Spec => []LoopProgress
BY Invariance, PTL DEF IInv

\* A loop frees blocks of its own context only, and ta_sweep only marked ones.
THEOREM LoopsFreeTheirOwn == Spec => LoopFrees
<1>1. IInv /\ [Next]_vars =>
        (op # "idle" => \A a \in Live : owner'[a] # owner[a] =>
           /\ owner'[a] = None
           /\ owner[a] = ctx
           /\ op = "destroy" \/ (op = "sweep" /\ a \in marked))
  <2> SUFFICES ASSUME IInv, [Next]_vars, op # "idle", NEW a \in Live,
                      owner'[a] # owner[a]
               PROVE  /\ owner'[a] = None
                      /\ owner[a] = ctx
                      /\ op = "destroy" \/ (op = "sweep" /\ a \in marked)
    OBVIOUS
  <2>1. \/ op = "destroy" /\ pos # ctx /\ Release({pos})
        \/ op = "sweep" /\ pos # ctx /\ pos \in marked /\ Release({pos})
    <3>1. CASE LoopNext
      BY <3>1 DEF LoopNext, DestroyStep, DestroyEnd, SweepFree, ToSweep, Unlink,
                  SweepSkip, ToSweep, TotalStep, LoopEnd, heap
    <3>2. CASE UNCHANGED vars
      BY <3>2 DEF vars
    <3>3. CASE Next /\ ~ LoopNext
      BY <3>3 DEF Next, Malloc, Calloc, Strdup, Strndup, Memclone, Realloc,
                  Strncat, ReallocFail, Free, Mark, Begin
    <3> QED
      BY <3>1, <3>2, <3>3
  <2>2. a = pos /\ owner'[a] = None
    BY <2>1 DEF Release, Forget, IInv, TypeOK, Live
  <2>3. owner[pos] = ctx
    BY <2>1, <2>2 DEF IInv, Cursor, On, Live
  <2> QED
    BY <2>1, <2>2, <2>3
<1> QED
  BY <1>1, Invariance, PTL DEF Spec, LoopFrees

-----------------------------------------------------------------------------
(* The contract *)

LEMMA SeenIdle ==
  ASSUME TypeOK, op = "idle"
  PROVE  SeenOwner = owner /\ SeenMarked = marked
BY DEF SeenOwner, SeenMarked, Doomed, TypeOK

LEMMA SeenIdleNext ==
  ASSUME TypeOK', op' = "idle"
  PROVE  SeenOwner' = owner' /\ SeenMarked' = marked'
BY DEF SeenOwner, SeenMarked, Doomed, TypeOK

\* To its callers the allocator is TAContexts: every operation is one step of
\* it, a loop takes effect when it begins, and none of its steps shows.
THEOREM ImplementsContract == Spec => Contract
<1>1. TAInit => TA!Init
  BY DEF TAInit, TA!Init, SeenOwner, SeenMarked, Doomed
<1>2. IInv /\ IInv' /\ [Next]_vars => [TA!Next]_(TA!vars)
  <2> SUFFICES ASSUME IInv, IInv', [Next]_vars PROVE [TA!Next]_(TA!vars)
    OBVIOUS
  <2>0. TypeOK /\ TypeOK'
    BY DEF IInv
  <2>1. ASSUME NEW c \in Contexts, NEW s, NEW a \in Addr, Malloc(c, s, a)
        PROVE  TA!Next
    <3>1. TA!Alloc(c, a)
      BY <2>0, <2>1, SeenIdle, SeenIdleNext DEF Malloc, loop, TA!Alloc
    <3> QED
      BY <3>1 DEF TA!Next
  <2>2. ASSUME NEW c \in Contexts, NEW s, NEW a \in Addr, NEW b \in Addr,
               Realloc(c, a, b, s)
        PROVE  TA!Next
    <3>1. owner' = [owner EXCEPT ![a] = None, ![b] = c]
      BY <2>0, <2>2 DEF Realloc, Relink, Forget, TypeOK, Live
    <3>2. TA!Resize(c, a, b)
      BY <2>0, <2>2, <3>1, SeenIdle, SeenIdleNext
         DEF Realloc, loop, TA!Resize, Live
    <3> QED
      BY <3>2 DEF TA!Next
  <2>3. ASSUME NEW c \in Contexts, NEW a \in Addr, ReallocFail(c, a)
        PROVE  TA!Next
    <3>1. owner' = [owner EXCEPT ![a] = c]
      BY <2>0, <2>3 DEF ReallocFail, Relink, Forget, TypeOK, Live
    <3>2. TA!Adopt(c, a)
      BY <2>0, <2>3, <3>1, SeenIdle, SeenIdleNext
         DEF ReallocFail, loop, TA!Adopt, Live
    <3> QED
      BY <2>3, <3>2 DEF TA!Next, ReallocFail, Live
  <2>4. ASSUME NEW a \in Addr, Free(a)
        PROVE  TA!Next
    <3>1. TA!Free(a)
      BY <2>0, <2>4, SeenIdle, SeenIdleNext
         DEF Free, Unlink, Release, Forget, loop, TA!Free, TA!Release, Live,
             TypeOK
    <3> QED
      BY <3>1 DEF TA!Next
  <2>5. ASSUME NEW a \in Addr, Mark(a)
        PROVE  TA!Next
    <3>1. TA!Mark(a)
      BY <2>0, <2>5, SeenIdle, SeenIdleNext DEF Mark, loop, TA!Mark, Live
    <3> QED
      BY <3>1 DEF TA!Next
  <2>6. ASSUME NEW c \in Contexts, NEW o \in {"destroy", "sweep", "total"},
               Begin(o, c)
        PROVE  [TA!Next]_(TA!vars)
    <3>1. /\ SeenOwner = owner /\ SeenMarked = marked
          /\ op' = o /\ ctx' = c /\ owner' = owner /\ marked' = marked
      BY <2>0, <2>6, SeenIdle DEF Begin, heap
    <3>2. CASE o = "destroy"
      <4>1. TA!Destroy(c)
        BY <2>0, <3>1, <3>2 DEF TA!Destroy, TA!Release, TA!Owned, SeenOwner,
                                SeenMarked, Doomed, TypeOK, Live
      <4> QED
        BY <4>1 DEF TA!Next
    <3>3. CASE o = "sweep"
      <4>1. TA!Sweep(c)
        BY <2>0, <3>1, <3>3 DEF TA!Sweep, TA!Release, TA!Owned, SeenOwner,
                                SeenMarked, Doomed, TypeOK, Live
      <4> QED
        BY <4>1 DEF TA!Next
    <3>4. CASE o = "total"
      BY <2>0, <3>1, <3>4 DEF TA!vars, SeenOwner, SeenMarked, Doomed, TypeOK
    <3> QED
      BY <3>2, <3>3, <3>4
\* The steps of a loop only remove blocks that were doomed when it began ...
  <2>7. ASSUME op \in {"destroy", "sweep"}, op' = op, ctx' = ctx,
               NEW S, S \subseteq Addr, \A a \in S : Doomed(a),
               owner' = Forget(owner, S), marked' = marked \ S
        PROVE  UNCHANGED TA!vars
    <3>1. \A a \in Addr : Doomed(a)' <=> Doomed(a) /\ a \notin S
      BY <2>0, <2>7 DEF Doomed, Forget, TypeOK, IInv, Cursor
    <3>2. SeenOwner' = SeenOwner
      BY <2>0, <2>7, <3>1 DEF SeenOwner, Forget, TypeOK
    <3>3. SeenMarked' = SeenMarked
      BY <2>0, <2>7, <3>1 DEF SeenMarked, TypeOK, Live
    <3> QED
      BY <3>2, <3>3 DEF TA!vars
\* ... and it ends when none is left.
  <2>8. ASSUME \A a \in Addr : ~ Doomed(a), op' = "idle",
               owner' = owner, marked' = marked
        PROVE  UNCHANGED TA!vars
    BY <2>0, <2>8 DEF TA!vars, SeenOwner, SeenMarked, Doomed, TypeOK, Live
  <2>9. CASE DestroyStep
    <3>1. pos \in Addr /\ Doomed(pos)
      BY <2>9 DEF DestroyStep, IInv, Cursor, On, Doomed
    <3> QED
      BY <2>9, <3>1, <2>7 DEF DestroyStep, Release, Advance
  <2>10. CASE SweepFree
    <3>1. pos \in Addr /\ Doomed(pos)
      BY <2>10 DEF SweepFree, ToSweep, IInv, Cursor, On, Doomed
    <3> QED
      BY <2>10, <3>1, <2>7 DEF SweepFree, ToSweep, Unlink, Release, Advance
  <2>11. CASE SweepSkip
    BY <2>11 DEF SweepSkip, heap, Advance, TA!vars, SeenOwner, SeenMarked,
                 Doomed
  <2>12. CASE TotalStep
    BY <2>12 DEF TotalStep, heap, Advance, TA!vars, SeenOwner, SeenMarked,
                 Doomed
  <2>13. CASE DestroyEnd
    <3>1. \A a \in Addr : ~ Doomed(a)
      BY <2>13 DEF DestroyEnd, End, Doomed, IInv, LoopProgress, Ahead, Owned
    <3> QED
      BY <2>13, <3>1, <2>8 DEF DestroyEnd, End
  <2>14. CASE LoopEnd
    <3>1. \A a \in Addr : ~ Doomed(a)
      BY <2>14 DEF LoopEnd, End, Doomed, IInv, LoopProgress, Ahead, Owned
    <3> QED
      BY <2>14, <3>1, <2>8 DEF LoopEnd, End, heap
  <2>15. CASE UNCHANGED vars
    BY <2>15 DEF vars, TA!vars, SeenOwner, SeenMarked, Doomed
  <2>16. ASSUME NEW c \in Contexts, NEW s \in Requests, NEW a \in Addr,
                \/ \E e \in Requests : Calloc(c, s, e, a)
                \/ Strdup(c, s, a) \/ Strndup(c, s, a) \/ Memclone(c, s, a)
         PROVE  \E t \in Nat : Malloc(c, t, a)
    BY <2>16 DEF Calloc, Strdup, Strndup, Memclone
  <2>17. ASSUME NEW c \in Contexts, NEW s \in Requests, NEW a \in Addr,
                NEW b \in Addr, Strncat(c, a, b, s)
         PROVE  \E t \in Nat : Realloc(c, a, b, t)
    BY <2>17 DEF Strncat
  <2> QED
    BY <2>1, <2>2, <2>3, <2>4, <2>5, <2>6, <2>9, <2>10, <2>11, <2>12, <2>13,
       <2>14, <2>15, <2>16, <2>17
    DEF Next, LoopNext
<1> QED
  BY <1>1, <1>2, Invariance, PTL DEF Spec, Contract, TA!Spec
-----------------------------------------------------------------------------
(* Sums over finite sets: the fold is well defined, in any order *)

\* Every set of naturals has a least element.
LEMMA Least ==
  ASSUME NEW S \in SUBSET Nat, S # {}
  PROVE  \E x \in S : \A y \in S : x <= y
<1> DEFINE R == OpToRel(<, Nat)
<1>1. IsWellFoundedOn(R, Nat)
  BY NatLessThanWellFounded
<1>2. ASSUME NEW x \in Nat, NEW y \in Nat, y < x PROVE <<y, x>> \in R
  BY <1>2 DEF OpToRel
<1> HIDE DEF R
<1>3. PICK x \in S : \A y \in S : <<y, x>> \notin R
  BY <1>1, WFMin
<1>4. ASSUME NEW y \in S PROVE x <= y
  <2>1. x \in Nat /\ y \in Nat
    OBVIOUS
  <2>2. ~ (y < x)
    BY <1>2, <1>3, <2>1
  <2> QED
    BY <2>1, <2>2
<1> QED
  BY <1>4

\* The sum of f over a finite set, and the fold that computes it.
SumOf(f, S) == MapThenSumSet(LAMBDA a : f[a], S)
Pick(s) == CHOOSE x \in s : TRUE
Body(f, g, s) == IF s = {} THEN 0 ELSE f[Pick(s)] + g[s \ {Pick(s)}]
Folding(f, S, g) == g = [s \in SUBSET S |-> Body(f, g, s)]

LEMMA Smaller ==
  ASSUME NEW s, IsFiniteSet(s), s # {}
  PROVE  /\ Pick(s) \in s /\ IsFiniteSet(s \ {Pick(s)})
         /\ Cardinality(s) \in Nat /\ Cardinality(s) > 0
         /\ Cardinality(s \ {Pick(s)}) = Cardinality(s) - 1
<1>1. Pick(s) \in s
  BY DEF Pick
<1>2. Cardinality(s) \in Nat
  BY FS_CardinalityType
<1>3. IsFiniteSet(s \ {Pick(s)}) /\ Cardinality(s \ {Pick(s)}) = Cardinality(s) - 1
  BY <1>1, FS_RemoveElement
<1>4. Cardinality(s \ {Pick(s)}) \in Nat
  BY <1>3, FS_CardinalityType
<1> QED
  BY <1>1, <1>2, <1>3, <1>4

\* A fold is determined by its equation.
LEMMA FoldingUnique ==
  ASSUME NEW f, NEW S, IsFiniteSet(S), NEW T \in SUBSET S, NEW g, Folding(f, S, g),
         NEW h, Folding(f, T, h)
  PROVE  \A s \in SUBSET T : g[s] = h[s]
<1> DEFINE Bad == {n \in Nat : \E s \in SUBSET T : Cardinality(s) = n /\ g[s] # h[s]}
<1>1. ASSUME NEW s \in SUBSET T PROVE IsFiniteSet(s) /\ Cardinality(s) \in Nat
  BY FS_Subset, FS_CardinalityType
<1>2. SUFFICES ASSUME NEW t \in SUBSET T, g[t] # h[t] PROVE FALSE
  OBVIOUS
<1>3. Bad \in SUBSET Nat /\ Bad # {}
  BY <1>1, <1>2
<1>4. PICK n \in Bad : \A m \in Bad : n <= m
  BY <1>3, Least
<1>5. PICK s \in SUBSET T : Cardinality(s) = n /\ g[s] # h[s]
  BY <1>4
<1>6. g[s] = Body(f, g, s) /\ h[s] = Body(f, h, s)
  BY DEF Folding
<1>7. s # {}
  BY <1>5, <1>6 DEF Body
<1> DEFINE r == s \ {Pick(s)}
<1>8. r \in SUBSET T /\ Cardinality(r) \in Nat /\ Cardinality(r) < n
  BY <1>1, <1>5, <1>7, Smaller
<1>9. g[r] = h[r]
  BY <1>4, <1>8
<1> QED
  BY <1>5, <1>6, <1>9 DEF Body

\* It exists: on the sets of n elements at most, then on all of them.
LEMMA FoldingExists ==
  ASSUME NEW f, NEW S, IsFiniteSet(S)
  PROVE  \E g : Folding(f, S, g)
<1> DEFINE Level(n) == {s \in SUBSET S : Cardinality(s) <= n}
<1> DEFINE Part(n, g) == g = [s \in Level(n) |-> Body(f, g, s)]
<1> DEFINE Bad == {n \in Nat : ~ \E g : Part(n, g)}
<1>1. ASSUME NEW s \in SUBSET S PROVE IsFiniteSet(s) /\ Cardinality(s) \in Nat
  BY FS_Subset, FS_CardinalityType
<1>2. ASSUME NEW n \in Nat PROVE \E g : Part(n, g)
  <2>1. SUFFICES ASSUME Bad # {} PROVE FALSE
    BY <1>2
  <2>2. PICK k \in Bad : \A m \in Bad : k <= m
    <3>1. Bad \in SUBSET Nat
      OBVIOUS
    <3> HIDE DEF Bad
    <3> QED
      BY <2>1, <3>1, Least
  <2>3. CASE k = 0
    <3> DEFINE g == [s \in Level(0) |-> 0]
    <3>1. ASSUME NEW s \in Level(0) PROVE s = {}
      BY <1>1, FS_EmptySet
    <3>2. ASSUME NEW s \in Level(0) PROVE Body(f, g, s) = 0
      BY <3>1 DEF Body
    <3>3. g = [s \in Level(0) |-> Body(f, g, s)]
      BY <3>2
    <3> QED
      BY <2>3, <3>3
  <2>4. CASE k # 0
    <3>1. k \in Nat /\ k - 1 \in Nat /\ ~ (k <= k - 1)
      BY <2>4
    <3>2. k - 1 \notin Bad
      BY <2>2, <3>1
    <3>3. PICK g : Part(k - 1, g)
      BY <3>1, <3>2
    <3> DEFINE h == [s \in Level(k) |-> Body(f, g, s)]
    <3>4. ASSUME NEW s \in Level(k - 1) PROVE h[s] = g[s]
      <4>1. s \in Level(k)
        BY <1>1, <3>1
      <4>2. g[s] = Body(f, g, s)
        BY <3>3
      <4> QED
        BY <4>1, <4>2
    <3>5. ASSUME NEW s \in Level(k) PROVE Body(f, h, s) = Body(f, g, s)
      <4>1. CASE s = {}
        BY <4>1 DEF Body
      <4>2. CASE s # {}
        <5> DEFINE r == s \ {Pick(s)}
        <5>1. r \in Level(k - 1)
          BY <1>1, <3>1, <4>2, Smaller
        <5>2. h[r] = g[r]
          BY <3>4, <5>1
        <5> HIDE DEF h
        <5> QED
          BY <5>2 DEF Body
      <4> QED
        BY <4>1, <4>2
    <3>6. h = [s \in Level(k) |-> Body(f, h, s)]
      <4> HIDE DEF Level
      <4>1. h = [s \in Level(k) |-> Body(f, g, s)]
        OBVIOUS
      <4> HIDE DEF h
      <4> QED
        BY <3>5, <4>1
    <3> QED
      BY <3>6
  <2> QED
    BY <2>3, <2>4
<1>3. Cardinality(S) \in Nat
  BY <1>1
<1>4. Level(Cardinality(S)) = SUBSET S
  BY FS_Subset
<1>5. PICK g : Part(Cardinality(S), g)
  BY <1>2, <1>3
<1> QED
  BY <1>4, <1>5 DEF Folding

\* The sum, taking away the element that the fold takes.
LEMMA SumUnfolds ==
  ASSUME NEW f, NEW S, IsFiniteSet(S)
  PROVE  SumOf(f, S) = IF S = {} THEN 0 ELSE f[Pick(S)] + SumOf(f, S \ {Pick(S)})
<1> DEFINE Fold(T) == CHOOSE g : Folding(f, T, g)
<1>1. ASSUME NEW T PROVE SumOf(f, T) = Fold(T)[T]
  BY DEF SumOf, MapThenSumSet, MapThenFoldSet, Folding, Body, Pick
<1>2. ASSUME NEW T, IsFiniteSet(T) PROVE Folding(f, T, Fold(T))
  BY <1>2, FoldingExists
<1> HIDE DEF Fold
<1>3. Fold(S)[S] = Body(f, Fold(S), S)
  BY <1>2 DEF Folding
<1>4. CASE S = {}
  BY <1>1, <1>3, <1>4 DEF Body
<1>5. CASE S # {}
  <2> DEFINE R == S \ {Pick(S)}
  <2>1. IsFiniteSet(R) /\ R \in SUBSET S
    BY <1>5, Smaller
  <2>2. Fold(S)[R] = Fold(R)[R]
    <3> HIDE DEF R
    <3>1. Folding(f, S, Fold(S)) /\ Folding(f, R, Fold(R))
      BY <1>2, <2>1
    <3>2. PICK g, h : g = Fold(S) /\ h = Fold(R)
      OBVIOUS
    <3>3. Folding(f, S, g) /\ Folding(f, R, h)
      BY <3>1, <3>2
    <3>4. g[R] = h[R]
      BY <2>1, <3>3, FoldingUnique
    <3> QED
      BY <3>2, <3>4
  <2> QED
    BY <1>1, <1>3, <1>5, <2>2 DEF Body
<1> QED
  BY <1>4, <1>5

LEMMA SumOfNone == ASSUME NEW f PROVE SumOf(f, {}) = 0
BY SumUnfolds, FS_EmptySet

\* ... and any other.
LEMMA SumWithout ==
  ASSUME NEW D, NEW f \in [D -> Nat], NEW S \in SUBSET D, IsFiniteSet(S)
  PROVE  /\ SumOf(f, S) \in Nat
         /\ \A a \in S : SumOf(f, S) = f[a] + SumOf(f, S \ {a})
<1> DEFINE Good(s) == /\ SumOf(f, s) \in Nat
                      /\ \A a \in s : SumOf(f, s) = f[a] + SumOf(f, s \ {a})
<1> DEFINE Bad == {n \in Nat : \E s \in SUBSET S : Cardinality(s) = n /\ ~ Good(s)}
<1>1. ASSUME NEW s \in SUBSET S PROVE IsFiniteSet(s) /\ Cardinality(s) \in Nat
  BY FS_Subset, FS_CardinalityType
<1>2. SUFFICES ASSUME ~ Good(S) PROVE FALSE
  OBVIOUS
<1>3. Bad \in SUBSET Nat /\ Bad # {}
  BY <1>1, <1>2
<1>4. PICK n \in Bad : \A m \in Bad : n <= m
  BY <1>3, Least
<1>5. PICK s \in SUBSET S : Cardinality(s) = n /\ ~ Good(s)
  BY <1>4
<1>6. ASSUME NEW t \in SUBSET S, Cardinality(t) < Cardinality(s) PROVE Good(t)
  BY <1>1, <1>4, <1>5, <1>6
<1> HIDE DEF Bad
<1>7. s # {}
  <2>1. ASSUME s = {} PROVE SumOf(f, s) = 0
    BY <2>1, SumOfNone
  <2> QED
    BY <1>5, <2>1
<1> DEFINE x == Pick(s)
<1> DEFINE r == s \ {x}
<1>8. x \in s /\ r \in SUBSET S /\ SumOf(f, s) = f[x] + SumOf(f, r)
  BY <1>1, <1>7, Smaller, SumUnfolds
<1>9. ASSUME NEW a \in s
      PROVE  s \ {a} \in SUBSET S /\ Cardinality(s \ {a}) < Cardinality(s)
  <2>1. IsFiniteSet(s) /\ Cardinality(s) \in Nat
    BY <1>1
  <2>2. Cardinality(s \ {a}) = Cardinality(s) - 1
    BY <1>9, <2>1, FS_RemoveElement
  <2> QED
    BY <2>1, <2>2
<1>10. Good(r)
  BY <1>6, <1>8, <1>9
<1> HIDE DEF x
<1>11. SumOf(f, s) \in Nat
  BY <1>8, <1>10
<1>12. ASSUME NEW a \in s, a # x PROVE SumOf(f, s) = f[a] + SumOf(f, s \ {a})
  <2>1. a \in r /\ x \in s \ {a}
    BY <1>8, <1>12
  <2>2. Good(s \ {a})
    BY <1>6, <1>9
  <2>3. r \ {a} = (s \ {a}) \ {x}
    OBVIOUS
  <2>4. r \ {a} \in SUBSET S /\ Cardinality(r \ {a}) < Cardinality(s)
    <3>1. IsFiniteSet(r) /\ Cardinality(r) \in Nat /\ Cardinality(s) \in Nat /\ Cardinality(r) < Cardinality(s)
      BY <1>1, <1>8, <1>9
    <3>2. Cardinality(r \ {a}) = Cardinality(r) - 1
      <4> HIDE DEF r
      <4> QED
        BY <2>1, <3>1, FS_RemoveElement
    <3> QED
      BY <1>8, <3>1, <3>2
  <2>5. Good(r \ {a})
    BY <1>6, <2>4
  <2> DEFINE z == SumOf(f, r \ {a})
  <2>6. SumOf(f, r) = f[a] + z /\ SumOf(f, s \ {a}) = f[x] + z
    BY <1>10, <2>1, <2>2, <2>3
  <2>7. f[a] \in Nat /\ f[x] \in Nat /\ z \in Nat
    BY <1>8, <2>5
  <2> HIDE DEF z
  <2> QED
    BY <1>8, <2>6, <2>7
<1> QED
  BY <1>5, <1>8, <1>11, <1>12
-----------------------------------------------------------------------------
(* What ta_list_total_mem adds up *)

\* A live block's size is that its owner asked for, as node->size can hold it.
SizesKept == \A a \in Live : size[a] = SizeField(req[a])

\* What has been added up and what lies ahead is the sum of the whole list, as
\* long as the sizes fit node->size.
TotalAdds ==
  op = "total" /\ (\A a \in Owned(ctx) : req[a] < SizeMod) =>
    acc + SumOf(req, Ahead) = SumOf(req, Owned(ctx))

\* Only so many blocks have been allocated.
FiniteLive == IsFiniteSet(Live)

LEMMA FieldHolds ==
  ASSUME NEW s \in Nat, s < SizeMod
  PROVE  SizeField(s) = s
BY DEF SizeField

LEMMA SizesKeptStep ==
  ASSUME IInv, SizesKept, [Next]_vars
  PROVE  SizesKept'
<1>1. TypeOK
  BY DEF IInv
<1>2. ASSUME NEW c \in Contexts, NEW s, NEW a \in Addr, Malloc(c, s, a)
      PROVE  SizesKept'
  BY <1>1, <1>2 DEF SizesKept, Malloc, Live, TypeOK
<1>3. ASSUME NEW c \in Contexts, NEW s, NEW a \in Addr, NEW b \in Addr, Realloc(c, a, b, s)
      PROVE  SizesKept'
  BY <1>1, <1>3 DEF SizesKept, Realloc, Relink, Forget, Live, TypeOK
<1>4. ASSUME NEW c \in Contexts, NEW a \in Addr, ReallocFail(c, a)
      PROVE  SizesKept'
  BY <1>1, <1>4 DEF SizesKept, ReallocFail, Relink, Forget, Live, TypeOK
<1>5. ASSUME NEW S, Release(S) PROVE SizesKept'
  BY <1>1, <1>5 DEF SizesKept, Release, Forget, Live, TypeOK
<1>6. ASSUME UNCHANGED <<size, owner, req>> PROVE SizesKept'
  BY <1>6 DEF SizesKept, Live
<1>7. CASE LoopNext
  BY <1>5, <1>6, <1>7 DEF LoopNext, DestroyStep, DestroyEnd, SweepFree, Unlink, SweepSkip,
     TotalStep, LoopEnd, heap
<1>8. CASE UNCHANGED vars
  BY <1>6, <1>8 DEF vars
<1>9. ASSUME NEW a \in Addr, Free(a) \/ Mark(a) PROVE SizesKept'
  BY <1>5, <1>6, <1>9 DEF Free, Mark, Unlink
<1>10. ASSUME NEW c \in Contexts, NEW o, Begin(o, c) PROVE SizesKept'
  BY <1>6, <1>10 DEF Begin, heap
<1> QED
  BY <1>2, <1>3, <1>4, <1>7, <1>8, <1>9, <1>10
  DEF Next, Calloc, Strdup, Strndup, Memclone, Strncat

LEMMA OwnedFinite ==
  ASSUME IInv, FiniteLive, NEW c \in Contexts
  PROVE  IsFiniteSet(Owned(c)) /\ Owned(c) \in SUBSET Addr
<1>1. Owned(c) \subseteq Live
  BY TAAssumption DEF Owned, Live
<1> QED
  BY <1>1, FS_Subset DEF FiniteLive, Owned

LEMMA OwnedSum ==
  ASSUME IInv, FiniteLive, NEW c \in Contexts
  PROVE  SumOf(req, Owned(c)) \in Nat
<1>1. req \in [Addr -> Nat]
  BY DEF IInv, TypeOK
<1> QED
  BY <1>1, OwnedFinite, SumWithout

\* NothingLost, and what the cursor has ahead of it when it moves on.
LEMMA WholeListAhead ==
  ASSUME IInv, NEW c \in Whole
  PROVE  (IF next[c] = c THEN {} ELSE {next[c]} \cup below[next[c]]) = Owned(c)
BY ChainHolds DEF ChainOK

LEMMA AheadStep ==
  ASSUME IInv, op # "idle", pos # ctx
  PROVE  /\ ctx \in Contexts /\ Ahead \subseteq Owned(ctx)
         /\ pos \in Ahead
         /\ (IF next[pos] = ctx THEN {} ELSE {next[pos]} \cup below[next[pos]]) = Ahead \ {pos}
<1>1. ctx \in Contexts /\ pos \in Addr /\ owner[pos] = ctx
  BY DEF IInv, Cursor, On, Node
<1>2. pos \in Live
  BY <1>1, TAAssumption DEF Live
<1>3. /\ pos \notin below[pos] /\ below[pos] \subseteq Owned(ctx)
      /\ below[pos] = IF next[pos] = ctx THEN {} ELSE {next[pos]} \cup below[next[pos]]
  BY <1>1, <1>2, ChainHolds DEF ChainOK
<1> QED
  BY <1>1, <1>3 DEF Ahead, Owned

LEMMA PosBelow ==
  ASSUME IInv, op # "idle", pos # ctx
  PROVE  /\ pos \notin below[pos] /\ below[pos] \subseteq Addr
         /\ next[pos] # ctx => next[pos] \in below[pos] /\ below[next[pos]] \subseteq below[pos]
<1>1. ctx \in Contexts /\ pos \in Addr /\ owner[pos] = ctx
  BY DEF IInv, Cursor, On, Node
<1>2. pos \in Live
  BY <1>1, TAAssumption DEF Live
<1>3. /\ pos \notin below[pos] /\ below[pos] \subseteq Owned(ctx)
      /\ below[pos] = IF next[pos] = ctx THEN {} ELSE {next[pos]} \cup below[next[pos]]
  BY <1>1, <1>2, ChainHolds DEF ChainOK
<1>4. below[pos] \subseteq Addr
  BY <1>3 DEF Owned
<1> QED
  BY <1>3, <1>4

LEMMA AheadSum ==
  ASSUME IInv, FiniteLive, op = "total", pos # ctx
  PROVE  /\ SumOf(req, Ahead) = req[pos] + SumOf(req, Ahead \ {pos})
         /\ SumOf(req, Ahead \ {pos}) \in Nat
<1>1. req \in [Addr -> Nat]
  BY DEF IInv, TypeOK
<1>2. pos \in Ahead /\ IsFiniteSet(Ahead) /\ Ahead \in SUBSET Addr
  BY AheadStep, OwnedFinite, FS_Subset
<1>3. IsFiniteSet(Ahead \ {pos}) /\ Ahead \ {pos} \in SUBSET Addr
  BY <1>2, FS_Subset
<1> QED
  BY <1>1, <1>2, <1>3, SumWithout

LEMMA FiniteLiveStep ==
  ASSUME IInv, FiniteLive, [Next]_vars
  PROVE  FiniteLive'
<1>1. TypeOK
  BY DEF IInv
<1>2. ASSUME NEW a \in Addr, \A x \in Addr : x # a => owner'[x] = owner[x] \/ owner'[x] = None
      PROVE  FiniteLive'
  <2>1. Live' \subseteq Live \cup {a}
    BY <1>2 DEF Live
  <2>2. IsFiniteSet(Live \cup {a})
    BY FS_AddElement DEF FiniteLive
  <2> QED
    BY <2>1, <2>2, FS_Subset DEF FiniteLive
<1>3. ASSUME \A x \in Addr : owner'[x] = owner[x] \/ owner'[x] = None
      PROVE  FiniteLive'
  <2>1. Live' \subseteq Live
    BY <1>3 DEF Live
  <2> QED
    BY <2>1, FS_Subset DEF FiniteLive
<1>4. ASSUME NEW c \in Contexts, NEW s, NEW a \in Addr, Malloc(c, s, a)
      PROVE  FiniteLive'
  BY <1>1, <1>2, <1>4 DEF Malloc, TypeOK
<1>5. ASSUME NEW c \in Contexts, NEW a \in Addr, NEW b \in Addr, Relink(c, a, b)
      PROVE  FiniteLive'
  BY <1>1, <1>2, <1>5 DEF Relink, Forget, TypeOK
<1>6. ASSUME NEW S, Release(S) PROVE FiniteLive'
  BY <1>1, <1>3, <1>6 DEF Release, Forget, TypeOK
<1>7. ASSUME UNCHANGED owner PROVE FiniteLive'
  BY <1>3, <1>7
<1>8. CASE LoopNext
  BY <1>6, <1>7, <1>8 DEF LoopNext, DestroyStep, DestroyEnd, SweepFree, Unlink, SweepSkip,
     TotalStep, LoopEnd, heap
<1>9. CASE UNCHANGED vars
  BY <1>7, <1>9 DEF vars
<1>10. ASSUME NEW a \in Addr, Free(a) \/ Mark(a) PROVE FiniteLive'
  BY <1>6, <1>7, <1>10 DEF Free, Mark, Unlink
<1>11. ASSUME NEW c \in Contexts, NEW o, Begin(o, c) PROVE FiniteLive'
  BY <1>7, <1>11 DEF Begin, heap
<1> QED
  BY <1>4, <1>5, <1>8, <1>9, <1>10, <1>11
  DEF Next, Calloc, Strdup, Strndup, Memclone, Strncat, Realloc, ReallocFail

LEMMA TotalAddsStep ==
  ASSUME IInv, SizesKept, FiniteLive, TotalAdds, [Next]_vars
  PROVE  TotalAdds'
<1> SUFFICES ASSUME op' = "total", \A a \in Owned(ctx)' : req'[a] < SizeMod
             PROVE  acc' + SumOf(req', Ahead') = SumOf(req', Owned(ctx)')
  BY DEF TotalAdds
<1>1. CASE \E c \in Contexts : Begin("total", c)
  <2>1. PICK c \in Contexts : Begin("total", c)
    BY <1>1
  <2>2. /\ op = "idle" /\ ctx' = c /\ pos' = next[c] /\ acc' = 0
        /\ owner' = owner /\ below' = below /\ req' = req
    BY <2>1 DEF Begin, heap
  <2>3. Ahead' = Owned(c)
    BY <2>2, WholeListAhead DEF Ahead, Whole
  <2>4. Owned(ctx)' = Owned(c)
    BY <2>2 DEF Owned
  <2>5. SumOf(req, Owned(c)) \in Nat
    BY OwnedSum
  <2> QED
    BY <2>2, <2>3, <2>4, <2>5
<1>2. CASE TotalStep
  <2>1. op = "total" /\ heap' = heap /\ ctx' = ctx /\ pos' = nxt /\ acc' = acc + size[pos]
    BY <1>2 DEF TotalStep, Advance, heap
  <2>2. Owned(ctx)' = Owned(ctx) /\ req' = req /\ \A a \in Owned(ctx) : req[a] < SizeMod
    BY <2>1 DEF Owned, heap
  <2>3. ctx \in Contexts /\ pos \in Owned(ctx) /\ nxt = next[pos]
    BY <1>2, <2>1 DEF TotalStep, IInv, Cursor, On, Owned, Node
  <2>4. size[pos] = req[pos] /\ req[pos] \in Nat
    <3>1. pos \in Live /\ req[pos] \in Nat /\ req[pos] < SizeMod
      <4>1. pos \in Addr /\ owner[pos] = ctx /\ req[pos] < SizeMod
        BY <2>2, <2>3 DEF Owned
      <4> QED
        BY <2>3, <4>1, TAAssumption DEF IInv, TypeOK, Live
    <3>2. size[pos] = SizeField(req[pos])
      BY <3>1 DEF SizesKept
    <3> QED
      BY <3>1, <3>2, FieldHolds
  <2>5. pos \in Ahead /\ Ahead' = Ahead \ {pos}
    BY <1>2, <2>1, <2>3, AheadStep DEF TotalStep, Ahead, heap
  <2>6. SumOf(req, Ahead) = req[pos] + SumOf(req, Ahead \ {pos})
        /\ SumOf(req, Ahead \ {pos}) \in Nat
    BY <1>2, <2>1, AheadSum DEF TotalStep
  <2>7. acc + SumOf(req, Ahead) = SumOf(req, Owned(ctx)) /\ acc \in Nat
    BY <2>1, <2>2 DEF TotalAdds, IInv, TypeOK
  <2> DEFINE z == SumOf(req, Ahead \ {pos})
  <2>8. acc' + z = acc + (req[pos] + z)
    <3> HIDE DEF z
    <3> QED
      BY <2>1, <2>4, <2>6, <2>7 DEF z
  <2> QED
    BY <2>2, <2>5, <2>6, <2>7, <2>8
<1>3. CASE UNCHANGED vars
  <2>1. op = "total" /\ Owned(ctx)' = Owned(ctx) /\ Ahead' = Ahead
    BY <1>3 DEF vars, Owned, Ahead
  <2> QED
    BY <1>3, <2>1 DEF vars, TotalAdds
<1>4. (\E c \in Contexts : Begin("total", c)) \/ TotalStep \/ UNCHANGED vars
  BY DEF Next, Malloc, Calloc, Strdup, Strndup, Memclone, Realloc, Strncat, ReallocFail, Free,
     Mark, Begin, loop, LoopNext, DestroyStep, DestroyEnd, SweepFree, SweepSkip, LoopEnd, End,
     Advance
<1> QED
  BY <1>1, <1>2, <1>3, <1>4

LEMMA FiniteAlways == Spec => []FiniteLive
<1>1. TAInit => FiniteLive
  BY FS_EmptySet DEF TAInit, FiniteLive, Live
<1>2. IInv /\ FiniteLive /\ [Next]_vars => FiniteLive'
  BY FiniteLiveStep
<1> QED
  BY <1>1, <1>2, Invariance, PTL DEF Spec

\* ta_list_total_mem returns the sum of the sizes that were asked for, whatever
\* the blocks of its context, as long as each fits node->size.
THEOREM TotalsAddUp == Spec => []TotalMem
<1> DEFINE J == IInv /\ SizesKept /\ FiniteLive /\ TotalAdds
<1>1. TAInit => SizesKept /\ FiniteLive /\ TotalAdds
  BY FS_EmptySet DEF TAInit, SizesKept, FiniteLive, TotalAdds, Live
<1>2. IInv /\ SizesKept /\ FiniteLive /\ TotalAdds /\ [Next]_vars
        => (SizesKept /\ FiniteLive /\ TotalAdds)'
  BY SizesKeptStep, FiniteLiveStep, TotalAddsStep
<1>3. J => TotalMem
  <2> SUFFICES ASSUME J, op = "total", pos = ctx, \A a \in Owned(ctx) : req[a] < SizeMod
               PROVE  acc = SumOf(req, Owned(ctx))
    BY DEF TotalMem, SumOf
  <2>1. SumOf(req, Ahead) = 0
    BY SumOfNone DEF Ahead
  <2>2. acc \in Nat
    BY DEF IInv, TypeOK
  <2> QED
    BY <2>1, <2>2 DEF TotalAdds
<1> QED
  BY <1>1, <1>2, <1>3, Invariance, PTL DEF Spec

-----------------------------------------------------------------------------
(* Every loop comes to its end *)

\* The nodes ahead of the cursor are finitely many, and every step of a loop
\* takes the one it stands on away from them, until the loop is over: nothing is
\* put ahead of it, and it never comes back.
LoopShrinks ==
  [][op # "idle" =>
       \/ Ahead = {} /\ op' = "idle"
       \/ op' = op /\ ctx' = ctx /\ pos \in Ahead /\ Ahead' = Ahead \ {pos}]_vars

LEMMA ShrinkStep ==
  ASSUME IInv, Next, op # "idle"
  PROVE  \/ Ahead = {} /\ op' = "idle"
         \/ op' = op /\ ctx' = ctx /\ pos \in Ahead /\ Ahead' = Ahead \ {pos}
<1>1. LoopNext
  BY DEF Next, Malloc, Calloc, Strdup, Strndup, Memclone, Realloc, Strncat, ReallocFail,
     Free, Mark, Begin
<1>2. CASE DestroyEnd \/ LoopEnd
  BY <1>2 DEF DestroyEnd, LoopEnd, End, Ahead
<1>3. CASE DestroyStep \/ SweepFree \/ SweepSkip \/ TotalStep
  <2>1. pos # ctx /\ op' = op /\ ctx' = ctx /\ pos' = nxt
    BY <1>3 DEF DestroyStep, SweepFree, SweepSkip, TotalStep, Advance
  <2>2. /\ below' = below \/ below' = [a \in Addr |-> IF a \in {pos} THEN {} ELSE below[a] \ {pos}]
    BY <1>3 DEF DestroyStep, SweepFree, SweepSkip, TotalStep, Unlink, Release, heap
  <2>3. nxt = next[pos] /\ nxt \in Node /\ ctx \in Contexts
    BY <2>1 DEF IInv, Cursor
  <2>4. /\ pos \in Ahead /\ pos \notin below[pos] /\ below[pos] \subseteq Addr
        /\ (IF nxt = ctx THEN {} ELSE {nxt} \cup below[nxt]) = Ahead \ {pos}
    BY <2>1, <2>3, AheadStep, PosBelow
  <2>5. nxt # ctx => nxt \in Addr /\ nxt # pos /\ pos \notin below[nxt]
    BY <2>1, <2>3, <2>4, PosBelow DEF Node
  <2>6. Ahead' = IF nxt = ctx THEN {} ELSE {nxt} \cup below'[nxt]
    BY <2>1 DEF Ahead
  <2>7. nxt # ctx => below'[nxt] = below[nxt]
    BY <2>2, <2>5
  <2> QED
    BY <2>1, <2>4, <2>6, <2>7
<1> QED
  BY <1>1, <1>2, <1>3 DEF LoopNext

\* Every loop makes headway, whatever is on the list: this is what LoopsEnd
\* needs beside the fairness that a loop runs on.
THEOREM LoopsMakeHeadway == Spec => [](op # "idle" => IsFiniteSet(Ahead)) /\ LoopShrinks
<1>1. IInv /\ FiniteLive => (op # "idle" => IsFiniteSet(Ahead))
  <2> SUFFICES ASSUME IInv, FiniteLive, op # "idle" PROVE IsFiniteSet(Ahead)
    OBVIOUS
  <2>1. CASE pos = ctx
    BY <2>1, FS_EmptySet DEF Ahead
  <2>2. CASE pos # ctx
    BY <2>2, AheadStep, OwnedFinite, FS_Subset
  <2> QED
    BY <2>1, <2>2
<1>2. IInv /\ [Next]_vars =>
        [op # "idle" =>
           \/ Ahead = {} /\ op' = "idle"
           \/ op' = op /\ ctx' = ctx /\ pos \in Ahead /\ Ahead' = Ahead \ {pos}]_vars
  BY ShrinkStep
<1> QED
  BY <1>1, <1>2, Invariance, FiniteAlways, PTL DEF Spec, LoopShrinks

=============================================================================
