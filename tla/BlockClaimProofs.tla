-------------------------- MODULE BlockClaimProofs --------------------------
(***************************************************************************)
(* Proofs about BlockClaim, for any number of claimers and a bitmap of any *)
(* size that is an int.  What the calls of the bitmap do and answer comes  *)
(* from BitmapProofs; what is added here is the lock, which makes a search *)
(* and the change after it one claim.                                      *)
(***************************************************************************)
EXTENDS BlockClaim, BitmapProofs

\* Sizes of blocks, and one more, are ints.
TotalFits == Total + 1 < HalfInt

-----------------------------------------------------------------------------
(* The invariant *)

HeldIn(h, e) == UNION {BlocksOf(e[c]) : c \in h}
Held == HeldIn(holds, extent)
Disjoint(h, e) == \A c, d \in h : c # d => BlocksOf(e[c]) \cap BlocksOf(e[d]) = {}

\* Phases in which the bits are those held, and those in which they change.
Reading == {"finding", "found", "asking", "can_grow"}
Writing == {"marking", "growing", "releasing"}
Phases == {"out"} \cup Reading \cup Writing
Extents == [addr : Nat, n : Nat]

ClaimType ==
  /\ lock \in Claimers \cup {NoOne}
  /\ phase \in [Claimers -> Phases]
  /\ extent \in [Claimers -> Extents]
  /\ holds \subseteq Claimers

\* Only who has the lock is at work, and a call is under way just when it says so.
LockInv ==
  /\ \A c \in Claimers : phase[c] # "out" <=> lock = c
  /\ pc = "idle" <=> lock = NoOne \/ phase[lock] \in {"found", "can_grow"}

HoldInv ==
  /\ \A c \in holds : extent[c].n > 0 /\ extent[c].addr + extent[c].n <= Total
  /\ Disjoint(holds, extent)
  /\ \A c \in Claimers :
       /\ phase[c] \in {"asking", "can_grow", "growing", "releasing"} => c \in holds
       /\ phase[c] \in {"finding", "found", "marking"} => c \notin holds /\ extent[c].n \in Sizes

\* Of the bits outside h, e is the first gap of its size.
FirstFit(e, h) ==
  /\ e.addr + e.n <= Total
  /\ BlocksOf(e) \cap h = {}
  /\ \A a \in 0 .. e.addr - 1 : ~ (a .. a + e.n - 1 \cap h = {})

\* The call that is under way is the one the phase stands for.
Under(f, a, n) == op = f /\ arg.addr = a /\ arg.n = n

CallOf(p, e) ==
  /\ p = "finding" => Under("find", 0, Total) /\ arg.gap = e.n
  /\ p \in {"found", "marking"} => FirstFit(e, Held)
  /\ p = "marking" => Under("set_extent", e.addr, e.n) /\ arg.v = 1
  /\ p = "asking" => Under("can_grow", e.addr, e.n + 1)
  /\ p \in {"can_grow", "growing"} => e.addr + e.n < Total /\ e.addr + e.n \notin Held
  /\ p = "growing" => Under("set_bit", e.addr + e.n, 1) /\ arg.v = 1
  /\ p = "releasing" => Under("set_extent", e.addr, e.n) /\ arg.v = 0

CallInv == \A c \in Claimers : CallOf(phase[c], extent[c])

BitsInv ==
  /\ lock = NoOne \/ phase[lock] \in Reading => Ones = Held
  /\ lock # NoOne /\ phase[lock] \in Writing => old = Held

Rest == ClaimType /\ LockInv /\ HoldInv /\ CallInv /\ BitsInv
ClaimInv == SafeInv /\ ExactInv /\ Rest

-----------------------------------------------------------------------------
(* Steps *)

LEMMA ClaimNumbers ==
  ASSUME TotalFits
  PROVE  /\ NoOne \notin Claimers /\ Sizes \subseteq 1 .. Total
         /\ Total \in Nat /\ Total > 0 /\ Word \in Nat /\ Word > Total + 1
         /\ Total < HalfInt /\ Total + 1 < HalfInt /\ HalfInt \in Nat
         /\ \A n \in Sizes : n \in Nat /\ n > 0 /\ n <= Total /\ n < HalfInt
<1>1. /\ Total \in Nat /\ Total > 0 /\ Word \in Nat /\ Word > Total + Bits /\ Bits \in Nat
      /\ Bits > 0 /\ HalfInt \in Nat
  BY Numbers, HalfFits
<1>2. Total + 1 < HalfInt
  BY DEF TotalFits
<1>3. NoOne \notin Claimers /\ Sizes \subseteq 1 .. Total
  BY ClaimAssumption DEF ClaimAssumption
<1> QED
  BY <1>1, <1>2, <1>3

\* What a step of c leaves to be shown.
LEMMA Step ==
  ASSUME Rest, NEW c \in Claimers, lock \in {NoOne, c}, NEW to \in Phases,
         phase' = [phase EXCEPT ![c] = to], lock' = IF to = "out" THEN NoOne ELSE c,
         NEW e \in Extents, extent' = [extent EXCEPT ![c] = e],
         holds' \subseteq Claimers, holds' \ {c} = holds \ {c},
         pc' = "idle" <=> to \in {"out", "found", "can_grow"},
         c \in holds' => e.n > 0 /\ e.addr + e.n <= Total,
         Disjoint(holds', extent'),
         to \in {"asking", "can_grow", "growing", "releasing"} => c \in holds',
         to \in {"finding", "found", "marking"} => c \notin holds' /\ e.n \in Sizes,
         CallOf(to, e)',
         to \notin Writing => Ones' = Held',
         to \in Writing => old' = Held'
  PROVE  Rest'
<1>1. /\ NoOne \notin Claimers /\ lock \in Claimers \cup {NoOne}
      /\ phase \in [Claimers -> Phases] /\ extent \in [Claimers -> Extents]
      /\ \A d \in Claimers : phase[d] # "out" <=> lock = d
  BY ClaimAssumption DEF ClaimAssumption, Rest, ClaimType, LockInv
<1>2. /\ phase' \in [Claimers -> Phases] /\ phase'[c] = to /\ extent'[c] = e
      /\ extent' \in [Claimers -> Extents]
      /\ \A d \in Claimers : d # c => phase'[d] = "out" /\ extent'[d] = extent[d]
  BY <1>1
<1>3. ClaimType'
  BY <1>1, <1>2 DEF ClaimType
<1>4. LockInv'
  BY <1>1, <1>2 DEF LockInv
<1>5. HoldInv'
  <2>1. ASSUME NEW d \in holds' PROVE extent'[d].n > 0 /\ extent'[d].addr + extent'[d].n <= Total
    <3>1. CASE d = c
      BY <1>2, <3>1
    <3>2. CASE d # c
      <4>1. d \in holds /\ extent'[d] = extent[d]
        BY <1>2, <3>2
      <4> QED
        BY <4>1 DEF Rest, HoldInv
    <3> QED
      BY <3>1, <3>2
  <2>2. ASSUME NEW d \in Claimers
        PROVE  /\ phase'[d] \in {"asking", "can_grow", "growing", "releasing"} => d \in holds'
               /\ phase'[d] \in {"finding", "found", "marking"} =>
                    d \notin holds' /\ extent'[d].n \in Sizes
    BY <1>2
  <2> QED
    BY <2>1, <2>2 DEF HoldInv, Disjoint
<1>6. CallInv'
  <2>1. ASSUME NEW d \in Claimers PROVE CallOf(phase[d], extent[d])'
    <3>1. CASE d = c
      BY <1>2, <3>1 DEF CallOf, FirstFit, Under
    <3>2. CASE d # c
      BY <1>2, <3>2 DEF CallOf
    <3> QED
      BY <3>1, <3>2
  <2> QED
    BY <2>1 DEF CallInv
<1>7. BitsInv'
  BY <1>1, <1>2 DEF BitsInv, Reading, Writing
<1> QED
  BY <1>3, <1>4, <1>5, <1>6, <1>7 DEF Rest

\* What a claimer may count on before a step of its own.
LEMMA Before ==
  ASSUME Rest, NEW c \in Claimers, lock \in {NoOne, c}
  PROVE  /\ extent[c] \in Extents /\ extent[c].addr \in Nat /\ extent[c].n \in Nat
         /\ phase \in [Claimers -> Phases] /\ extent \in [Claimers -> Extents]
         /\ holds \subseteq Claimers /\ Disjoint(holds, extent)
         /\ [extent EXCEPT ![c] = extent[c]] = extent
         /\ c \in holds => extent[c].n > 0 /\ extent[c].addr + extent[c].n <= Total
         /\ CallOf(phase[c], extent[c])
         /\ phase[c] \in {"asking", "can_grow", "growing", "releasing"} => c \in holds
         /\ phase[c] \in {"finding", "found", "marking"} => c \notin holds /\ extent[c].n \in Sizes
         /\ phase[c] \notin Writing => Ones = Held
         /\ phase[c] \in Writing => old = Held
<1>1. /\ lock \in Claimers \cup {NoOne} /\ NoOne \notin Claimers
      /\ phase \in [Claimers -> Phases] /\ extent \in [Claimers -> Extents]
      /\ holds \subseteq Claimers
      /\ phase[c] # "out" <=> lock = c
  BY ClaimAssumption DEF ClaimAssumption, Rest, ClaimType, LockInv
<1>2. extent[c] \in Extents /\ extent[c].addr \in Nat /\ extent[c].n \in Nat
  BY <1>1 DEF Extents
<1>3. phase[c] \in Phases /\ (lock = NoOne \/ lock = c)
  BY <1>1
<1>4. /\ phase[c] \notin Writing => Ones = Held
      /\ phase[c] \in Writing => old = Held
  BY <1>1, <1>3 DEF Rest, BitsInv, Phases, Writing
<1>5. /\ Disjoint(holds, extent) /\ CallOf(phase[c], extent[c])
      /\ c \in holds => extent[c].n > 0 /\ extent[c].addr + extent[c].n <= Total
      /\ phase[c] \in {"asking", "can_grow", "growing", "releasing"} => c \in holds
      /\ phase[c] \in {"finding", "found", "marking"} => c \notin holds /\ extent[c].n \in Sizes
  BY DEF Rest, HoldInv, CallInv
<1> QED
  BY <1>1, <1>2, <1>4, <1>5

\* What one who holds nothing writes down changes nobody's extent.
LEMMA HeldSame ==
  ASSUME NEW c \in Claimers, c \notin holds, holds \subseteq Claimers, holds' = holds,
         extent \in [Claimers -> Extents], NEW e, extent' = [extent EXCEPT ![c] = e]
  PROVE  Held' = Held /\ (Disjoint(holds, extent) => Disjoint(holds', extent'))
<1>1. \A d \in holds : extent'[d] = extent[d]
  OBVIOUS
<1> QED
  BY <1>1 DEF Held, HeldIn, Disjoint

LEMMA HeldKept ==
  ASSUME holds' = holds, extent' = extent
  PROVE  Held' = Held /\ (Disjoint(holds, extent) => Disjoint(holds', extent'))
BY DEF Held, HeldIn, Disjoint

\* A call returns.
LEMMA Returned ==
  ASSUME SafeInv, ExactInv, Return
  PROVE  SafeInv' /\ ExactInv' /\ Ones' = Ones /\ pc = "done" /\ pc' = "idle"
BY LoopSafe, LoopExact, Same DEF Return

LEMMA FindStep ==
  ASSUME TotalFits, ClaimInv, NEW c \in Claimers, NEW n \in Sizes, Find(c, n)
  PROVE  ClaimInv'
<1>1. /\ SafeInv /\ ExactInv /\ Rest /\ c \notin holds /\ lock \in {NoOne, c} /\ phase[c] = "out"
      /\ phase' = [phase EXCEPT ![c] = "finding"] /\ lock' = c /\ bm_find(0, Total, n)
      /\ extent' = [extent EXCEPT ![c] = [addr |-> 0, n |-> n]] /\ holds' = holds
  BY DEF ClaimInv, Find, Enter
<1>2. /\ Total \in Nat /\ Word > Total + 1 /\ Total < HalfInt /\ n \in Nat /\ n > 0 /\ n <= Total
      /\ Word \in Nat /\ HalfInt \in Nat /\ NoOne \notin Claimers
  BY ClaimNumbers
<1>3. PICK e \in Extents : e = [addr |-> 0, n |-> n]
  BY <1>2 DEF Extents
<1>4. e.addr = 0 /\ e.n = n /\ extent' = [extent EXCEPT ![c] = e]
  BY <1>1, <1>3
<1>5. SafeInv' /\ ExactInv'
  <2>1. PICK z \in 0 .. Word - 1 : z = 0
    BY <1>2
  <2>2. /\ bm_find(z, Total, n) /\ Total \in 0 .. Word - 1 /\ z + Total < Word
        /\ n \in 0 .. Word - 1 /\ n < HalfInt
    BY <1>1, <1>2, <2>1
  <2> QED
    BY <1>1, <1>2, <2>1, <2>2, FindCallSafe, FindCallExact
<1>6. /\ pc' # "idle" /\ Ones' = Ones /\ op' = "find" /\ arg'.addr = 0 /\ arg'.n = Total
      /\ arg'.gap = n
  BY <1>1, Same DEF bm_find, Call, Goto, Finish, NoArg
<1>7. /\ extent \in [Claimers -> Extents] /\ holds \subseteq Claimers /\ Disjoint(holds, extent)
      /\ Ones = Held
  BY <1>1, Before DEF Writing
<1>8. Held' = Held /\ Disjoint(holds', extent')
  BY <1>1, <1>4, <1>7, HeldSame
<1>9. PICK to \in Phases : to = "finding"
  BY DEF Phases, Reading
<1>10. CallOf(to, e)'
  BY <1>4, <1>6, <1>9 DEF CallOf, Under
<1>11. Rest'
  <2>1. /\ holds' \subseteq Claimers /\ holds' \ {c} = holds \ {c} /\ c \notin holds'
        /\ e.n \in Sizes
    BY <1>1, <1>4, <1>7
  <2>2. /\ lock' = IF to = "out" THEN NoOne ELSE c
        /\ pc' = "idle" <=> to \in {"out", "found", "can_grow"}
        /\ to \notin {"asking", "can_grow", "growing", "releasing"}
        /\ phase' = [phase EXCEPT ![c] = to] /\ to \notin Writing
    BY <1>1, <1>6, <1>9 DEF Writing
  <2> QED
    BY <1>1, <1>4, <1>6, <1>7, <1>8, <1>10, <2>1, <2>2, Step
<1> QED
  BY <1>5, <1>11 DEF ClaimInv

LEMMA NotFoundStep ==
  ASSUME TotalFits, ClaimInv, NEW c \in Claimers, NotFound(c)
  PROVE  ClaimInv'
<1>1. /\ SafeInv /\ ExactInv /\ Rest /\ lock \in {NoOne, c} /\ phase[c] = "finding"
      /\ phase' = [phase EXCEPT ![c] = "out"] /\ lock' = NoOne /\ Return
      /\ extent' = [extent EXCEPT ![c] = [extent[c] EXCEPT !.n = 0]] /\ holds' = holds
  BY DEF ClaimInv, NotFound, Leave
<1>2. /\ extent \in [Claimers -> Extents] /\ holds \subseteq Claimers /\ Disjoint(holds, extent)
      /\ Ones = Held /\ c \notin holds /\ extent[c] \in Extents
  BY <1>1, Before DEF Writing
<1>3. PICK e \in Extents : extent' = [extent EXCEPT ![c] = e]
  <2>1. [extent[c] EXCEPT !.n = 0] \in Extents
    BY <1>2 DEF Extents
  <2> QED
    BY <1>1, <2>1
<1>4. Held' = Held /\ Disjoint(holds', extent')
  BY <1>1, <1>2, <1>3, HeldSame
<1>5. SafeInv' /\ ExactInv' /\ Ones' = Ones /\ pc' = "idle"
  BY <1>1, Returned
<1>6. PICK to \in Phases : to = "out"
  BY DEF Phases
<1>7. Rest'
  <2>1. /\ lock' = IF to = "out" THEN NoOne ELSE c
        /\ pc' = "idle" <=> to \in {"out", "found", "can_grow"}
        /\ to \notin {"finding", "found", "marking", "asking", "can_grow", "growing", "releasing"}
        /\ phase' = [phase EXCEPT ![c] = to] /\ to \notin Writing
    BY <1>1, <1>5, <1>6 DEF Writing
  <2>2. CallOf(to, e)'
    BY <1>6 DEF CallOf
  <2> QED
    BY <1>1, <1>2, <1>3, <1>4, <1>5, <2>1, <2>2, Step
<1> QED
  BY <1>5, <1>7 DEF ClaimInv

\* A step that leaves the extents as they are.
LEMMA StepOn ==
  ASSUME Rest, NEW c \in Claimers, lock \in {NoOne, c}, NEW to \in Phases,
         phase' = [phase EXCEPT ![c] = to], lock' = IF to = "out" THEN NoOne ELSE c,
         extent' = extent, holds' = holds,
         pc' = "idle" <=> to \in {"out", "found", "can_grow"},
         to \in {"asking", "can_grow", "growing", "releasing"} => c \in holds,
         to \in {"finding", "found", "marking"} => c \notin holds /\ extent[c].n \in Sizes,
         NEW e, e = extent[c], CallOf(to, e)',
         to \notin Writing => Ones' = Held,
         to \in Writing => old' = Held
  PROVE  Rest'
<1>1. /\ extent \in [Claimers -> Extents] /\ e \in Extents /\ holds \subseteq Claimers
      /\ Disjoint(holds, extent) /\ extent' = [extent EXCEPT ![c] = e]
      /\ c \in holds => e.n > 0 /\ e.addr + e.n <= Total
  BY Before
<1>2. Held' = Held /\ Disjoint(holds', extent')
  BY <1>1, HeldKept
<1> QED
  BY <1>1, <1>2, Step

\* Under the lock, the gap that was found is the first that fits.
LEMMA GapFoundStep ==
  ASSUME TotalFits, ClaimInv, NEW c \in Claimers, GapFound(c)
  PROVE  ClaimInv'
<1>1. /\ SafeInv /\ ExactInv /\ Rest /\ lock \in {NoOne, c} /\ phase[c] = "finding"
      /\ phase' = [phase EXCEPT ![c] = "found"] /\ lock' = c /\ Return /\ rc = 0
      /\ extent' = [extent EXCEPT ![c] = [extent[c] EXCEPT !.addr = out]] /\ holds' = holds
  BY DEF ClaimInv, GapFound, Back
<1>2. /\ extent \in [Claimers -> Extents] /\ holds \subseteq Claimers /\ Disjoint(holds, extent)
      /\ Ones = Held /\ c \notin holds /\ extent[c] \in Extents /\ extent[c].n \in Sizes
      /\ CallOf("finding", extent[c])
  BY <1>1, Before DEF Writing
<1>3. /\ NoOne \notin Claimers /\ Total \in Nat /\ out \in Nat
      /\ extent[c].n \in Nat /\ extent[c].n > 0
  BY <1>1, <1>2, ClaimNumbers DEF ExactInv
<1>4. PICK e \in Extents : /\ extent' = [extent EXCEPT ![c] = e]
                           /\ e.addr = out /\ e.n = extent[c].n
  <2>1. /\ [extent[c] EXCEPT !.addr = out] \in Extents
        /\ [extent[c] EXCEPT !.addr = out].addr = out
        /\ [extent[c] EXCEPT !.addr = out].n = extent[c].n
    BY <1>2, <1>3 DEF Extents
  <2> QED
    BY <1>1, <2>1
<1>5. Held' = Held /\ Disjoint(holds', extent')
  BY <1>1, <1>2, <1>4, HeldSame
<1>6. SafeInv' /\ ExactInv' /\ Ones' = Ones /\ pc = "done" /\ pc' = "idle"
  BY <1>1, Returned
<1>7. FirstFit(e, Held)
  <2>1. op = "find" /\ arg.addr = 0 /\ arg.n = Total /\ arg.gap = e.n
    BY <1>2, <1>4 DEF CallOf, Under
  <2>2. out \in GapsFound /\ \A a \in GapsFound : out <= a
    BY <1>1, <1>6, <2>1 DEF ExactInv, Answers, FindFirst
  <2> DEFINE n == e.n
  <2>3. n \in Nat /\ n > 0
    BY <1>3, <1>4
  <2>4. GapsFound = {a \in 0 .. Total - n : a + n <= 0 + Total /\ a .. a + n - 1 \cap Held = {}}
    BY <1>2, <2>1 DEF GapsFound
  <2> HIDE DEF n
  <2>5. out + n <= Total /\ out .. out + n - 1 \cap Held = {}
    BY <1>3, <2>2, <2>3, <2>4
  <2>6. ASSUME NEW a \in 0 .. out - 1 PROVE ~ (a .. a + n - 1 \cap Held = {})
    <3>1. a \in 0 .. Total - n /\ a + n <= 0 + Total /\ ~ (out <= a)
      BY <1>3, <2>3, <2>5
    <3> QED
      BY <2>2, <2>4, <3>1
  <2> QED
    BY <1>4, <2>5, <2>6 DEF n, FirstFit, BlocksOf
<1>8. PICK to \in Phases : to = "found"
  BY DEF Phases, Reading
<1>9. Rest'
  <2>1. /\ lock' = IF to = "out" THEN NoOne ELSE c
        /\ pc' = "idle" <=> to \in {"out", "found", "can_grow"}
        /\ to \notin {"asking", "can_grow", "growing", "releasing"}
        /\ phase' = [phase EXCEPT ![c] = to] /\ to \notin Writing
    BY <1>1, <1>6, <1>8 DEF Writing
  <2>2. CallOf(to, e)'
    BY <1>5, <1>7, <1>8 DEF CallOf, FirstFit
  <2>3. c \notin holds' /\ e.n \in Sizes /\ holds' \subseteq Claimers
    BY <1>1, <1>2, <1>4
  <2> QED
    BY <1>1, <1>4, <1>5, <1>2, <1>6, <2>1, <2>2, <2>3, Step
<1> QED
  BY <1>6, <1>9 DEF ClaimInv

LEMMA MarkStep ==
  ASSUME TotalFits, ClaimInv, NEW c \in Claimers, Mark(c)
  PROVE  ClaimInv'
<1>1. /\ SafeInv /\ ExactInv /\ Rest /\ lock \in {NoOne, c} /\ phase[c] = "found"
      /\ phase' = [phase EXCEPT ![c] = "marking"] /\ lock' = c /\ extent' = extent
      /\ bm_set_extent(extent[c].addr, extent[c].n, 1) /\ holds' = holds
  BY DEF ClaimInv, Mark, Enter
<1>2. /\ Ones = Held /\ c \notin holds /\ extent[c].addr \in Nat /\ extent[c].n \in Sizes
      /\ CallOf("found", extent[c])
  BY <1>1, Before DEF Writing
<1>3. PICK e : e = extent[c]
  OBVIOUS
<1>4. /\ NoOne \notin Claimers /\ Total \in Nat /\ Word \in Nat /\ Word > Total + 1
      /\ e.addr \in Nat /\ e.n \in Nat /\ e.n > 0 /\ e.n < HalfInt /\ FirstFit(e, Held)
      /\ e.addr + e.n <= Total
  BY <1>2, <1>3, ClaimNumbers DEF CallOf, FirstFit
<1>5. SafeInv' /\ ExactInv'
  <2>1. e.addr \in 0 .. Word - 1 /\ e.n \in 0 .. Word - 1 /\ e.addr + e.n < Word
    BY <1>4
  <2> QED
    BY <1>1, <1>3, <1>4, <2>1, SetExtentSafe, SetExtentExact
<1>6. /\ pc' # "idle" /\ old' = Ones /\ op' = "set_extent" /\ arg'.addr = e.addr /\ arg'.n = e.n
      /\ arg'.v = 1
  BY <1>1, <1>3 DEF bm_set_extent, Call, Goto, Finish, NoArg
<1>7. PICK to \in Phases : to = "marking"
  BY DEF Phases, Writing
<1>8. Rest'
  <2>1. Held' = Held
    BY <1>1, HeldKept
  <2>2. CallOf(to, e)'
    BY <1>4, <1>6, <1>7, <2>1 DEF CallOf, Under, FirstFit
  <2>3. /\ lock' = IF to = "out" THEN NoOne ELSE c
        /\ pc' = "idle" <=> to \in {"out", "found", "can_grow"}
        /\ to \notin {"asking", "can_grow", "growing", "releasing"}
        /\ phase' = [phase EXCEPT ![c] = to] /\ to \in Writing
    BY <1>1, <1>6, <1>7 DEF Writing
  <2> QED
    BY <1>1, <1>2, <1>3, <1>6, <2>2, <2>3, StepOn
<1> QED
  BY <1>5, <1>8 DEF ClaimInv

\* What a change of an extent of the bitmap leaves.
LEMMA ChangeDone ==
  ASSUME SafeInv, pc = "done", op \in {"set_extent", "set_bit"}, NEW a \in Nat, NEW n \in Nat,
         arg.addr = a, arg.n = n, n > 0, a + n <= Total
  PROVE  Ones = IF arg.v = 1 THEN old \cup (a .. a + n - 1) ELSE old \ (a .. a + n - 1)
<1> DEFINE x == a .. a + n - 1
<1>1. Total \in Nat
  BY Numbers
<1>2. x \subseteq 0 .. Total - 1 /\ a < Total
  BY <1>1
<1>3. /\ rc = IF x \subseteq 0 .. Total - 1 /\ a < Total THEN 0 ELSE -1
      /\ Ones = IF rc = -1 THEN old ELSE IF arg.v = 1 THEN old \cup x ELSE old \ x
  BY DEF SafeInv, ExtentExact
<1> HIDE DEF x
<1>4. rc = 0
  BY <1>2, <1>3
<1> QED
  BY <1>3, <1>4 DEF x

\* The extents of h, with that of c apart.
LEMMA HeldApart ==
  ASSUME NEW h, NEW e, NEW c \in h
  PROVE  /\ HeldIn(h, e) = HeldIn(h \ {c}, e) \cup BlocksOf(e[c])
         /\ Disjoint(h, e) => HeldIn(h \ {c}, e) = HeldIn(h, e) \ BlocksOf(e[c])
BY DEF HeldIn, Disjoint

\* and as a step changes it.
LEMMA HeldOver ==
  ASSUME NEW c, NEW h, NEW e, NEW f, \A d \in h \ {c} : f[d] = e[d], Disjoint(h, e)
  PROVE  /\ HeldIn(h \ {c}, f) = HeldIn(h \ {c}, e)
         /\ Disjoint(h \ {c}, f)
         /\ BlocksOf(f[c]) \cap HeldIn(h \ {c}, e) = {} => Disjoint(h \cup {c}, f)
BY DEF HeldIn, Disjoint

LEMMA MarkedStep ==
  ASSUME TotalFits, ClaimInv, NEW c \in Claimers, Marked(c)
  PROVE  ClaimInv'
<1>1. /\ SafeInv /\ ExactInv /\ Rest /\ lock \in {NoOne, c} /\ phase[c] = "marking"
      /\ phase' = [phase EXCEPT ![c] = "out"] /\ lock' = NoOne /\ Return
      /\ holds' = holds \cup {c} /\ extent' = extent
  BY DEF ClaimInv, Marked, Leave
<1>2. /\ extent \in [Claimers -> Extents] /\ holds \subseteq Claimers /\ Disjoint(holds, extent)
      /\ old = Held /\ c \notin holds /\ CallOf("marking", extent[c])
      /\ extent[c].n \in Sizes /\ extent[c].addr \in Nat
  BY <1>1, Before DEF Writing
<1>3. PICK e \in Extents : e = extent[c]
  BY <1>2
<1>4. extent' = [extent EXCEPT ![c] = e] /\ extent'[c] = e
  BY <1>1, <1>2, <1>3
<1>5. /\ FirstFit(e, Held) /\ Under("set_extent", e.addr, e.n) /\ arg.v = 1
      /\ e.n \in Nat /\ e.n > 0 /\ e.addr \in Nat /\ e.addr + e.n <= Total
  BY <1>2, <1>3, ClaimNumbers DEF CallOf, FirstFit
<1>6. SafeInv' /\ ExactInv' /\ Ones' = Ones /\ pc = "done" /\ pc' = "idle"
  BY <1>1, Returned
<1>7. Ones = Held \cup BlocksOf(e)
  BY <1>1, <1>2, <1>5, <1>6, ChangeDone DEF Under, BlocksOf
<1>8. Held' = Ones /\ Disjoint(holds', extent')
  <2>1. holds' \ {c} = holds /\ c \in holds' /\ holds \ {c} = holds
    BY <1>1, <1>2
  <2>2. Held' = HeldIn(holds', extent') /\ Held = HeldIn(holds, extent)
    BY DEF Held
  <2>3. Held' = Held \cup BlocksOf(e)
    <3>1. HeldIn(holds', extent') = HeldIn(holds' \ {c}, extent') \cup BlocksOf(extent'[c])
      BY <2>1, HeldApart
    <3> QED
      BY <1>1, <1>4, <2>1, <2>2, <3>1
  <2>4. Disjoint(holds', extent')
    <3>1. \A d \in holds \ {c} : extent'[d] = extent[d]
      BY <1>1
    <3>2. BlocksOf(extent'[c]) \cap HeldIn(holds \ {c}, extent) = {}
      BY <1>4, <1>5, <2>1, <2>2 DEF FirstFit
    <3> QED
      BY <1>1, <1>2, <3>1, <3>2, HeldOver
  <2> QED
    BY <1>7, <2>3, <2>4
<1>9. PICK to \in Phases : to = "out"
  BY DEF Phases
<1>10. Rest'
  <2>1. /\ lock' = IF to = "out" THEN NoOne ELSE c
        /\ pc' = "idle" <=> to \in {"out", "found", "can_grow"}
        /\ to \notin {"finding", "found", "marking", "asking", "can_grow", "growing", "releasing"}
        /\ phase' = [phase EXCEPT ![c] = to] /\ to \notin Writing
    BY <1>1, <1>6, <1>9 DEF Writing
  <2>2. CallOf(to, e)'
    BY <1>9 DEF CallOf
  <2>3. holds' \subseteq Claimers /\ holds' \ {c} = holds \ {c}
    BY <1>1, <1>2
  <2> QED
    BY <1>1, <1>2, <1>4, <1>5, <1>6, <1>8, <2>1, <2>2, <2>3, Step
<1> QED
  BY <1>6, <1>10 DEF ClaimInv

LEMMA AskToGrowStep ==
  ASSUME TotalFits, ClaimInv, NEW c \in Claimers, AskToGrow(c)
  PROVE  ClaimInv'
<1>1. /\ SafeInv /\ ExactInv /\ Rest /\ lock \in {NoOne, c} /\ phase[c] = "out" /\ c \in holds
      /\ phase' = [phase EXCEPT ![c] = "asking"] /\ lock' = c /\ extent' = extent
      /\ bm_extent_can_grow(extent[c].addr, extent[c].n + 1) /\ holds' = holds
  BY DEF ClaimInv, AskToGrow, Enter
<1>2. /\ Ones = Held /\ extent[c].addr \in Nat /\ extent[c].n \in Nat
      /\ extent[c].n > 0 /\ extent[c].addr + extent[c].n <= Total
  BY <1>1, Before DEF Writing
<1>3. PICK e : e = extent[c]
  OBVIOUS
<1>4. PICK m \in Nat : m = e.n + 1
  BY <1>2, <1>3
<1>5. /\ NoOne \notin Claimers /\ Total \in Nat /\ Word \in Nat /\ Word > Total + 1
      /\ HalfInt \in Nat /\ Total + 1 < HalfInt
  BY ClaimNumbers
<1>6. SafeInv' /\ ExactInv'
  <2>1. e.addr \in 0 .. Word - 1 /\ m \in 0 .. Word - 1 /\ e.addr + m < Word /\ m < HalfInt
    BY <1>2, <1>3, <1>4, <1>5
  <2> QED
    BY <1>1, <1>3, <1>4, <2>1, CanGrowSafe, CanGrowExact
<1>7. /\ pc' # "idle" /\ Ones' = Ones /\ op' = "can_grow" /\ arg'.addr = e.addr /\ arg'.n = m
  BY <1>1, <1>3, <1>4, Same DEF bm_extent_can_grow, Call, BeginCount, Goto, Finish, NoArg
<1>8. PICK to \in Phases : to = "asking"
  BY DEF Phases, Reading
<1>9. Rest'
  <2>1. CallOf(to, e)'
    BY <1>4, <1>7, <1>8 DEF CallOf, Under
  <2>2. /\ lock' = IF to = "out" THEN NoOne ELSE c
        /\ pc' = "idle" <=> to \in {"out", "found", "can_grow"}
        /\ to \notin {"finding", "found", "marking"}
        /\ phase' = [phase EXCEPT ![c] = to] /\ to \notin Writing
    BY <1>1, <1>5, <1>7, <1>8 DEF Writing
  <2> QED
    BY <1>1, <1>2, <1>3, <1>7, <2>1, <2>2, StepOn
<1> QED
  BY <1>6, <1>9 DEF ClaimInv

LEMMA CannotGrowStep ==
  ASSUME TotalFits, ClaimInv, NEW c \in Claimers, CannotGrow(c)
  PROVE  ClaimInv'
<1>1. /\ SafeInv /\ ExactInv /\ Rest /\ lock \in {NoOne, c} /\ phase[c] = "asking"
      /\ phase' = [phase EXCEPT ![c] = "out"] /\ lock' = NoOne /\ Return
      /\ holds' = holds /\ extent' = extent
  BY DEF ClaimInv, CannotGrow, Leave
<1>2. Ones = Held /\ extent[c] \in Extents
  BY <1>1, Before DEF Writing
<1>3. SafeInv' /\ ExactInv' /\ Ones' = Ones /\ pc' = "idle"
  BY <1>1, Returned
<1>4. PICK to \in Phases, e \in Extents : to = "out" /\ e = extent[c]
  BY <1>2 DEF Phases
<1>5. Rest'
  <2>1. /\ lock' = IF to = "out" THEN NoOne ELSE c
        /\ pc' = "idle" <=> to \in {"out", "found", "can_grow"}
        /\ to \notin {"finding", "found", "marking", "asking", "can_grow", "growing", "releasing"}
        /\ phase' = [phase EXCEPT ![c] = to] /\ to \notin Writing
    BY <1>1, <1>3, <1>4 DEF Writing
  <2>2. CallOf(to, e)'
    BY <1>4 DEF CallOf
  <2> QED
    BY <1>1, <1>2, <1>3, <1>4, <2>1, <2>2, StepOn
<1> QED
  BY <1>3, <1>5 DEF ClaimInv

\* Of a region of ones and one bit more, bm_extent_can_grow says 0 just if that bit
\* is 0 and in the bitmap.
LEMMA GrowFree ==
  ASSUME NEW S, NEW a \in Nat, NEW n \in Nat, n > 0, a .. a + n - 1 \subseteq S,
         GrowIn(S, a, n + 1, 0)
  PROVE  a + n < Total /\ a + n \notin S
<1> DEFINE m == n + 1
<1> DEFINE zeros == RunIn(S, a, m, 0)
<1> DEFINE ones == RunIn(S, a, m, 1)
<1>1. m \in Nat /\ m > 0 /\ m = n + 1 /\ Total \in Nat
  BY Numbers
<1>2. /\ zeros \in 0 .. m /\ ones \in 0 .. m
      /\ Agree(S, 0, a, a + zeros) /\ (ones < m => ~ (a + ones \in S <=> 1 = 1))
  BY <1>1, RunExists
<1>3. /\ m > 0 /\ a + m <= Total
      /\ zeros # m => zeros <= 0 /\ ones # m /\ RunIn(S, a + ones, m - ones, 0) = m - ones
  <2>1. 0 = IF ~ (m > 0 /\ a + m <= Total) THEN -1
            ELSE IF zeros = m THEN 0
            ELSE IF zeros > 0 THEN -2
            ELSE IF ones = m THEN -3
            ELSE IF RunIn(S, a + ones, m - ones, 0) = m - ones THEN 0 ELSE -5
    BY DEF GrowIn
  <2>2. zeros \in Int /\ ones \in Int
    BY <1>2
  <2> HIDE DEF zeros, ones, m
  <2> QED
    BY <2>1, <2>2
<1> HIDE DEF zeros, ones, m
<1>4. \A b \in Nat : a <= b /\ b < a + n => b \in S
  BY <1>1
<1>5. zeros = 0
  <2> SUFFICES ASSUME zeros > 0 PROVE FALSE
    BY <1>1, <1>2
  <2>1. a \in a .. (a + zeros) - 1 /\ a \in S
    BY <1>1, <1>2, <1>4
  <2>2. \A b \in a .. (a + zeros) - 1 : b \in S <=> 0 = 1
    BY <1>2 DEF Agree
  <2> QED
    BY <2>1, <2>2
<1>6. ones = n
  <2>1. ones # m
    BY <1>1, <1>3, <1>5
  <2>2. a + ones \notin S
    BY <1>1, <1>2, <2>1
  <2>3. ~ (ones < n)
    BY <1>2, <1>4, <2>2
  <2> QED
    BY <1>1, <1>2, <2>1, <2>3
<1>7. RunIn(S, a + n, 1, 0) = 1
  <2>1. m - ones = 1
    BY <1>1, <1>6
  <2> QED
    BY <1>1, <1>3, <1>5, <1>6, <2>1
<1>8. Agree(S, 0, a + n, a + n + 1)
  <2>1. PICK b \in Nat : b = a + n
    OBVIOUS
  <2>2. Agree(S, 0, b, b + RunIn(S, b, 1, 0))
    BY RunExists
  <2> QED
    BY <1>7, <2>1, <2>2
<1>9. a + n \in a + n .. (a + n + 1) - 1
  OBVIOUS
<1>10. \A b \in a + n .. (a + n + 1) - 1 : b \in S <=> 0 = 1
  BY <1>8 DEF Agree
<1> QED
  BY <1>1, <1>3, <1>9, <1>10

LEMMA CanGrowStep ==
  ASSUME TotalFits, ClaimInv, NEW c \in Claimers, CanGrow(c)
  PROVE  ClaimInv'
<1>1. /\ SafeInv /\ ExactInv /\ Rest /\ lock \in {NoOne, c} /\ phase[c] = "asking"
      /\ phase' = [phase EXCEPT ![c] = "can_grow"] /\ lock' = c /\ Return /\ rc = 0
      /\ holds' = holds /\ extent' = extent
  BY DEF ClaimInv, CanGrow, Back
<1>2. /\ Ones = Held /\ c \in holds /\ CallOf("asking", extent[c])
      /\ extent[c].addr \in Nat /\ extent[c].n \in Nat /\ extent[c].n > 0
  BY <1>1, Before DEF Writing
<1>3. PICK e : e = extent[c]
  OBVIOUS
<1>4. SafeInv' /\ ExactInv' /\ Ones' = Ones /\ pc = "done" /\ pc' = "idle"
  BY <1>1, Returned
<1>5. e.addr + e.n < Total /\ e.addr + e.n \notin Held
  <2>1. op = "can_grow" /\ arg.addr = e.addr /\ arg.n = e.n + 1
    BY <1>2, <1>3 DEF CallOf, Under
  <2>2. GrowIn(Held, e.addr, e.n + 1, 0)
    BY <1>1, <1>2, <1>4, <2>1, GrowNow DEF ExactInv, Answers
  <2>3. BlocksOf(e) \subseteq Held
    BY <1>2, <1>3 DEF Held, HeldIn
  <2> QED
    BY <1>2, <1>3, <2>2, <2>3, GrowFree DEF BlocksOf
<1>6. PICK to \in Phases : to = "can_grow"
  BY DEF Phases, Reading
<1>7. Rest'
  <2>1. Held' = Held
    BY <1>1, HeldKept
  <2>2. CallOf(to, e)'
    BY <1>5, <1>6, <2>1 DEF CallOf
  <2>3. /\ lock' = IF to = "out" THEN NoOne ELSE c
        /\ pc' = "idle" <=> to \in {"out", "found", "can_grow"}
        /\ to \notin {"finding", "found", "marking"}
        /\ phase' = [phase EXCEPT ![c] = to] /\ to \notin Writing
    BY <1>1, <1>4, <1>6 DEF Writing
  <2> QED
    BY <1>1, <1>2, <1>3, <1>4, <2>2, <2>3, StepOn
<1> QED
  BY <1>4, <1>7 DEF ClaimInv

LEMMA GrowStep ==
  ASSUME TotalFits, ClaimInv, NEW c \in Claimers, Grow(c)
  PROVE  ClaimInv'
<1>1. /\ SafeInv /\ ExactInv /\ Rest /\ lock \in {NoOne, c} /\ phase[c] = "can_grow"
      /\ phase' = [phase EXCEPT ![c] = "growing"] /\ lock' = c /\ extent' = extent
      /\ bm_set_bit(extent[c].addr + extent[c].n, 1) /\ holds' = holds
  BY DEF ClaimInv, Grow, Enter
<1>2. /\ Ones = Held /\ c \in holds /\ CallOf("can_grow", extent[c])
      /\ extent[c].addr \in Nat /\ extent[c].n \in Nat
  BY <1>1, Before DEF Writing
<1>3. PICK e : e = extent[c]
  OBVIOUS
<1>4. PICK b : b = e.addr + e.n
  OBVIOUS
<1>5. /\ NoOne \notin Claimers /\ Total \in Nat /\ Word \in Nat /\ Word > Total + 1
      /\ e.addr + e.n < Total /\ e.addr + e.n \notin Held
  BY <1>2, <1>3, ClaimNumbers DEF CallOf
<1>6. SafeInv' /\ ExactInv'
  <2>1. b \in 0 .. Word - 1
    BY <1>2, <1>3, <1>4, <1>5
  <2> QED
    BY <1>1, <1>3, <1>4, <2>1, SetBitSafe, SetBitExact
<1>7. /\ pc' # "idle" /\ old' = Ones /\ op' = "set_bit" /\ arg'.addr = b /\ arg'.n = 1
      /\ arg'.v = 1
  BY <1>1, <1>3, <1>4 DEF bm_set_bit, Call, Finish, NoArg
<1>8. PICK to \in Phases : to = "growing"
  BY DEF Phases, Writing
<1>9. Rest'
  <2>1. Held' = Held
    BY <1>1, HeldKept
  <2>2. CallOf(to, e)'
    BY <1>4, <1>5, <1>7, <1>8, <2>1 DEF CallOf, Under
  <2>3. /\ lock' = IF to = "out" THEN NoOne ELSE c
        /\ pc' = "idle" <=> to \in {"out", "found", "can_grow"}
        /\ to \notin {"finding", "found", "marking"}
        /\ phase' = [phase EXCEPT ![c] = to] /\ to \in Writing
    BY <1>1, <1>5, <1>7, <1>8 DEF Writing
  <2> QED
    BY <1>1, <1>2, <1>3, <1>7, <2>2, <2>3, StepOn
<1> QED
  BY <1>6, <1>9 DEF ClaimInv

LEMMA GrownStep ==
  ASSUME TotalFits, ClaimInv, NEW c \in Claimers, Grown(c)
  PROVE  ClaimInv'
<1>1. /\ SafeInv /\ ExactInv /\ Rest /\ lock \in {NoOne, c} /\ phase[c] = "growing"
      /\ phase' = [phase EXCEPT ![c] = "out"] /\ lock' = NoOne /\ Return
      /\ holds' = holds /\ extent' = [extent EXCEPT ![c].n = @ + 1]
  BY DEF ClaimInv, Grown, Leave
<1>2. /\ extent \in [Claimers -> Extents] /\ holds \subseteq Claimers /\ Disjoint(holds, extent)
      /\ old = Held /\ c \in holds /\ CallOf("growing", extent[c]) /\ extent[c] \in Extents
      /\ extent[c].n \in Nat /\ extent[c].addr \in Nat /\ extent[c].n > 0
  BY <1>1, Before DEF Writing
<1>3. PICK e \in Extents : /\ extent' = [extent EXCEPT ![c] = e]
                           /\ e.addr = extent[c].addr /\ e.n = extent[c].n + 1
  <2>1. /\ [extent[c] EXCEPT !.n = @ + 1] \in Extents
        /\ [extent[c] EXCEPT !.n = @ + 1].addr = extent[c].addr
        /\ [extent[c] EXCEPT !.n = @ + 1].n = extent[c].n + 1
    BY <1>2 DEF Extents
  <2>2. extent' = [extent EXCEPT ![c] = [extent[c] EXCEPT !.n = @ + 1]]
    BY <1>1
  <2> QED
    BY <2>1, <2>2
<1>4. PICK b \in Nat : b = extent[c].addr + extent[c].n
  BY <1>2
<1>5. b < Total /\ b \notin Held /\ Under("set_bit", b, 1) /\ arg.v = 1 /\ Total \in Nat
  BY <1>2, <1>4, Numbers DEF CallOf
<1>6. SafeInv' /\ ExactInv' /\ Ones' = Ones /\ pc = "done" /\ pc' = "idle"
  BY <1>1, Returned
<1>7. Ones = Held \cup {b}
  <2>1. b .. b + 1 - 1 = {b} /\ b + 1 <= Total
    BY <1>5
  <2>2. Ones = old \cup (b .. b + 1 - 1)
    <3>1. PICK n \in Nat : n = 1
      OBVIOUS
    <3>2. op = "set_bit" /\ arg.addr = b /\ arg.n = n /\ n > 0 /\ b + n <= Total /\ arg.v = 1
      BY <1>5, <2>1, <3>1 DEF Under
    <3>3. Ones = IF arg.v = 1 THEN old \cup (b .. b + n - 1) ELSE old \ (b .. b + n - 1)
      BY <1>1, <1>6, <3>2, ChangeDone
    <3> QED
      BY <3>1, <3>2, <3>3
  <2> QED
    BY <1>2, <2>1, <2>2
<1>8. Held' = Ones /\ Disjoint(holds', extent')
  <2> DEFINE others == HeldIn(holds \ {c}, extent)
  <2>1. extent'[c] = e /\ \A d \in holds \ {c} : extent'[d] = extent[d]
    BY <1>2, <1>3
  <2>2. BlocksOf(e) = BlocksOf(extent[c]) \cup {b}
    BY <1>2, <1>3, <1>4 DEF BlocksOf
  <2>3. Held' = HeldIn(holds', extent') /\ Held = HeldIn(holds, extent)
    BY DEF Held
  <2>4. Held = others \cup BlocksOf(extent[c]) /\ others = Held \ BlocksOf(extent[c])
    BY <1>2, <2>3, HeldApart
  <2>5. HeldIn(holds \ {c}, extent') = others
    BY <1>2, <2>1, HeldOver
  <2>6. HeldIn(holds, extent') = HeldIn(holds \ {c}, extent') \cup BlocksOf(extent'[c])
    BY <1>2, HeldApart
  <2>7. Disjoint(holds \cup {c}, extent')
    <3>1. BlocksOf(extent'[c]) \cap HeldIn(holds \ {c}, extent) = {}
      BY <1>5, <2>1, <2>2, <2>4
    <3>2. Disjoint(holds, extent)
      BY <1>2
    <3> HIDE DEF others
    <3> QED
      BY <2>1, <3>1, <3>2 DEF Disjoint, HeldIn
  <2>8. holds \cup {c} = holds
    BY <1>2
  <2> QED
    BY <1>1, <1>7, <2>1, <2>2, <2>3, <2>4, <2>5, <2>6, <2>7, <2>8
<1>9. PICK to \in Phases : to = "out"
  BY DEF Phases
<1>10. Rest'
  <2>1. /\ lock' = IF to = "out" THEN NoOne ELSE c
        /\ pc' = "idle" <=> to \in {"out", "found", "can_grow"}
        /\ to \notin {"finding", "found", "marking", "asking", "can_grow", "growing", "releasing"}
        /\ phase' = [phase EXCEPT ![c] = to] /\ to \notin Writing
    BY <1>1, <1>6, <1>9 DEF Writing
  <2>2. CallOf(to, e)'
    BY <1>9 DEF CallOf
  <2>3. e.n > 0 /\ e.addr + e.n <= Total
    BY <1>2, <1>3, <1>4, <1>5
  <2> QED
    BY <1>1, <1>2, <1>3, <1>6, <1>8, <2>1, <2>2, <2>3, Step
<1> QED
  BY <1>6, <1>10 DEF ClaimInv

LEMMA ReleaseStep ==
  ASSUME TotalFits, ClaimInv, NEW c \in Claimers, Release(c)
  PROVE  ClaimInv'
<1>1. /\ SafeInv /\ ExactInv /\ Rest /\ lock \in {NoOne, c} /\ phase[c] = "out" /\ c \in holds
      /\ phase' = [phase EXCEPT ![c] = "releasing"] /\ lock' = c /\ extent' = extent
      /\ bm_set_extent(extent[c].addr, extent[c].n, 0) /\ holds' = holds
  BY DEF ClaimInv, Release, Enter
<1>2. /\ Ones = Held /\ extent[c].addr \in Nat /\ extent[c].n \in Nat
      /\ extent[c].addr + extent[c].n <= Total
  BY <1>1, Before DEF Writing
<1>3. PICK e : e = extent[c]
  OBVIOUS
<1>4. /\ NoOne \notin Claimers /\ Total \in Nat /\ Word \in Nat /\ Word > Total + 1
      /\ HalfInt \in Nat /\ Total + 1 < HalfInt
  BY ClaimNumbers
<1>5. SafeInv' /\ ExactInv'
  <2>1. e.addr \in 0 .. Word - 1 /\ e.n \in 0 .. Word - 1 /\ e.addr + e.n < Word /\ e.n < HalfInt
    BY <1>2, <1>3, <1>4
  <2> QED
    BY <1>1, <1>3, <2>1, SetExtentSafe, SetExtentExact
<1>6. /\ pc' # "idle" /\ old' = Ones /\ op' = "set_extent" /\ arg'.addr = e.addr /\ arg'.n = e.n
      /\ arg'.v = 0
  BY <1>1, <1>3 DEF bm_set_extent, Call, Goto, Finish, NoArg
<1>7. PICK to \in Phases : to = "releasing"
  BY DEF Phases, Writing
<1>8. Rest'
  <2>1. CallOf(to, e)'
    BY <1>6, <1>7 DEF CallOf, Under
  <2>2. /\ lock' = IF to = "out" THEN NoOne ELSE c
        /\ pc' = "idle" <=> to \in {"out", "found", "can_grow"}
        /\ to \notin {"finding", "found", "marking"}
        /\ phase' = [phase EXCEPT ![c] = to] /\ to \in Writing
    BY <1>1, <1>4, <1>6, <1>7 DEF Writing
  <2> QED
    BY <1>1, <1>2, <1>3, <1>6, <2>1, <2>2, StepOn
<1> QED
  BY <1>5, <1>8 DEF ClaimInv

LEMMA ReleasedStep ==
  ASSUME TotalFits, ClaimInv, NEW c \in Claimers, Released(c)
  PROVE  ClaimInv'
<1>1. /\ SafeInv /\ ExactInv /\ Rest /\ lock \in {NoOne, c} /\ phase[c] = "releasing"
      /\ phase' = [phase EXCEPT ![c] = "out"] /\ lock' = NoOne /\ Return
      /\ holds' = holds \ {c} /\ extent' = [extent EXCEPT ![c] = [extent[c] EXCEPT !.n = 0]]
  BY DEF ClaimInv, Released, Leave
<1>2. /\ extent \in [Claimers -> Extents] /\ holds \subseteq Claimers /\ Disjoint(holds, extent)
      /\ old = Held /\ c \in holds /\ CallOf("releasing", extent[c]) /\ extent[c] \in Extents
      /\ extent[c].n \in Nat /\ extent[c].addr \in Nat /\ extent[c].n > 0
      /\ extent[c].addr + extent[c].n <= Total
  BY <1>1, Before DEF Writing
<1>3. PICK e \in Extents : extent' = [extent EXCEPT ![c] = e]
  <2>1. [extent[c] EXCEPT !.n = 0] \in Extents
    BY <1>2 DEF Extents
  <2> QED
    BY <1>1, <2>1
<1>4. SafeInv' /\ ExactInv' /\ Ones' = Ones /\ pc = "done" /\ pc' = "idle"
  BY <1>1, Returned
<1>5. Ones = Held \ BlocksOf(extent[c])
  <2>1. PICK a \in Nat, n \in Nat : a = extent[c].addr /\ n = extent[c].n
    BY <1>2
  <2>2. op = "set_extent" /\ arg.addr = a /\ arg.n = n /\ arg.v = 0
    BY <1>2, <2>1 DEF CallOf, Under
  <2>3. n > 0 /\ a + n <= Total
    BY <1>2, <2>1
  <2>4. Ones = IF arg.v = 1 THEN old \cup (a .. a + n - 1) ELSE old \ (a .. a + n - 1)
    BY <1>1, <1>4, <2>2, <2>3, ChangeDone
  <2>5. Ones = old \ (a .. a + n - 1)
    BY <2>2, <2>4
  <2> QED
    BY <1>2, <2>1, <2>5 DEF BlocksOf
<1>6. Held' = Ones /\ Disjoint(holds', extent')
  <2>1. \A d \in holds \ {c} : extent'[d] = extent[d]
    BY <1>2, <1>3
  <2>2. Held' = HeldIn(holds \ {c}, extent') /\ Held = HeldIn(holds, extent)
    BY <1>1 DEF Held
  <2>3. HeldIn(holds \ {c}, extent) = Held \ BlocksOf(extent[c])
    BY <1>2, <2>2, HeldApart
  <2>4. HeldIn(holds \ {c}, extent') = HeldIn(holds \ {c}, extent) /\ Disjoint(holds \ {c}, extent')
    <3>1. Disjoint(holds, extent)
      BY <1>2
    <3>2. Disjoint(holds \ {c}, extent')
      BY <2>1, <3>1 DEF Disjoint
    <3> QED
      BY <2>1, <3>2 DEF HeldIn
  <2> QED
    BY <1>1, <1>5, <2>2, <2>3, <2>4
<1>7. PICK to \in Phases : to = "out"
  BY DEF Phases
<1>8. Rest'
  <2>1. /\ lock' = IF to = "out" THEN NoOne ELSE c
        /\ pc' = "idle" <=> to \in {"out", "found", "can_grow"}
        /\ to \notin {"finding", "found", "marking", "asking", "can_grow", "growing", "releasing"}
        /\ phase' = [phase EXCEPT ![c] = to] /\ to \notin Writing
    BY <1>1, <1>4, <1>7 DEF Writing
  <2>2. CallOf(to, e)'
    BY <1>7 DEF CallOf
  <2>3. holds' \subseteq Claimers /\ holds' \ {c} = holds \ {c} /\ c \notin holds'
    BY <1>1, <1>2
  <2> QED
    BY <1>1, <1>2, <1>3, <1>4, <1>6, <2>1, <2>2, <2>3, Step
<1> QED
  BY <1>4, <1>8 DEF ClaimInv

\* A call that is under way goes on, and a search changes nothing.
LEMMA LoopStep ==
  ASSUME ClaimInv, Loop, UNCHANGED upper
  PROVE  ClaimInv'
<1>1. /\ SafeInv /\ ExactInv /\ ClaimType /\ LockInv /\ HoldInv /\ CallInv /\ BitsInv
      /\ lock' = lock /\ phase' = phase /\ extent' = extent /\ holds' = holds
  BY DEF ClaimInv, Rest, upper
<1>2. SafeInv' /\ ExactInv'
  BY <1>1, LoopSafe, LoopExact
<1>3. Held' = Held
  BY <1>1, HeldKept
<1>4. /\ op' = op /\ arg' = arg /\ old' = old /\ pc # "idle" /\ pc' # "idle"
      /\ op # "set_extent" => bm' = bm
  <2>1. CASE ExtentHead \/ ExtentBody \/ ExtentTail
    <3>1. op = "set_extent"
      BY <1>1, <2>1 DEF SafeInv, ExtentInv, ExtentHead, ExtentBody, ExtentTail
    <3> QED
      BY <2>1, <3>1 DEF ExtentHead, ExtentBody, ExtentTail, Finish, Goto
  <2>2. CASE CountHead \/ CountByte
    <3>1. /\ op' = op /\ arg' = arg /\ old' = old /\ bm' = bm /\ pc = "count"
          /\ (\E x : Counted(x)) \/ (\E fr : Goto("count", fr))
      BY <2>2 DEF CountHead, CountByte
    <3>2. pc' # "idle"
      BY <3>1 DEF Counted, Goto, Finish, BeginCount
    <3> QED
      BY <3>1, <3>2
  <2>3. CASE FindByte
    <3>1. /\ op' = op /\ arg' = arg /\ old' = old /\ bm' = bm /\ pc = "find"
          /\ (\E r, o : Finish(r, o)) \/ (\E fr : Goto("find", fr))
      BY <2>3 DEF FindByte, Found, On
    <3> QED
      BY <3>1 DEF Goto, Finish
  <2> QED
    BY <2>1, <2>2, <2>3 DEF Loop
<1>5. ClaimType' /\ LockInv' /\ HoldInv'
  BY <1>1, <1>4 DEF ClaimType, LockInv, HoldInv
<1>6. CallInv'
  BY <1>1, <1>3, <1>4 DEF CallInv, CallOf, Under, FirstFit
<1>7. BitsInv'
  <2>1. lock # NoOne /\ lock \in Claimers /\ phase[lock] \notin {"found", "can_grow"}
    BY <1>1, <1>4 DEF LockInv, ClaimType
  <2>2. ASSUME phase[lock] \in Reading PROVE Ones' = Held'
    <3>1. phase[lock] \in {"finding", "asking"} /\ Ones = Held
      BY <1>1, <2>1, <2>2 DEF Reading, BitsInv
    <3>2. op # "set_extent"
      BY <1>1, <2>1, <3>1 DEF CallInv, CallOf, Under
    <3> QED
      BY <1>3, <1>4, <3>1, <3>2, Same
  <2> QED
    BY <1>1, <1>3, <1>4, <2>1, <2>2 DEF BitsInv
<1> QED
  BY <1>2, <1>5, <1>6, <1>7 DEF ClaimInv, Rest

LEMMA NextClaimStep ==
  ASSUME TotalFits, ClaimInv, [NextClaims]_<<vars, upper>>
  PROVE  ClaimInv'
<1>1. CASE Loop /\ UNCHANGED upper
  BY <1>1, LoopStep
<1>2. CASE \E c \in Claimers :
             \/ \E n \in Sizes : Find(c, n)
             \/ NotFound(c) \/ GapFound(c) \/ Mark(c) \/ Marked(c)
             \/ AskToGrow(c) \/ CannotGrow(c) \/ CanGrow(c) \/ Grow(c) \/ Grown(c)
             \/ Release(c) \/ Released(c)
  BY <1>2, FindStep, NotFoundStep, GapFoundStep, MarkStep, MarkedStep, AskToGrowStep,
     CannotGrowStep, CanGrowStep, GrowStep, GrownStep, ReleaseStep, ReleasedStep
<1>3. CASE UNCHANGED <<vars, upper>>
  <2>1. /\ bm' = bm /\ pc' = pc /\ op' = op /\ arg' = arg /\ frame' = frame /\ rc' = rc
        /\ out' = out /\ old' = old /\ lock' = lock /\ phase' = phase /\ extent' = extent
        /\ holds' = holds
    BY <1>3 DEF vars, upper
  <2>2. Ones' = Ones /\ Held' = Held
    BY <2>1, Same, HeldKept
  <2>3. SafeInv'
    BY <2>1, <2>2 DEF ClaimInv, SafeInv, Typed, BitmapType, ExtentInv, CountInv, FindInv,
                      ExtentExact
  <2>4. ExactInv'
    <3> USE DEF RunOf
    <3>1. Sized' /\ CountExact' /\ (out \in 0 .. Total)'
      BY <2>1, <2>2 DEF ClaimInv, ExactInv, Sized, CountExact, CountBase
    <3>2. FindExact'
      BY <2>1, <2>2 DEF ClaimInv, ExactInv, FindExact, FindAt, WindowEnd, NoneBefore, FreeAt
    <3>3. Answers'
      BY <2>1, <2>2 DEF ClaimInv, ExactInv, Answers, ReadsExact, FindFirst, GapsFound, GrowRight
    <3> QED
      BY <3>1, <3>2, <3>3 DEF ExactInv
  <2>5. Rest'
    <3>1. ClaimType' /\ LockInv' /\ HoldInv'
      BY <2>1 DEF ClaimInv, Rest, ClaimType, LockInv, HoldInv
    <3>2. CallInv'
      BY <2>1, <2>2 DEF ClaimInv, Rest, CallInv, CallOf, Under, FirstFit
    <3>3. BitsInv'
      BY <2>1, <2>2 DEF ClaimInv, Rest, BitsInv
    <3> QED
      BY <3>1, <3>2, <3>3 DEF Rest
  <2> QED
    BY <2>3, <2>4, <2>5 DEF ClaimInv
<1> QED
  BY <1>1, <1>2, <1>3 DEF NextClaims

LEMMA InitClaim == InitClaims => ClaimInv
<1> SUFFICES ASSUME InitClaims PROVE ClaimInv
  OBVIOUS
<1>1. /\ Init /\ lock = NoOne /\ phase = [c \in Claimers |-> "out"] /\ holds = {}
      /\ extent = [c \in Claimers |-> [addr |-> 0, n |-> 0]] /\ NoOne \notin Claimers
      /\ \A c \in Claimers : phase[c] = "out"
  BY ClaimAssumption DEF ClaimAssumption, InitClaims
<1>2. Held = {}
  BY <1>1 DEF Held, HeldIn
<1>3. Ones = {}
  <2>1. ASSUME NEW b \in Ones PROVE FALSE
    <3>1. PICK l \in 0 .. NBytes - 1, p \in Positions : b = l * Bits + p
      BY BitIn DEF Ones
    <3>2. p \in bm[l]
      BY <2>1, <3>1, OnesAt, OnesNow
    <3> QED
      BY <1>1, <3>2 DEF Init
  <2> QED
    BY <2>1
<1>4. SafeInv /\ ExactInv
  BY <1>1, InitSafe, InitExact
<1>5. ClaimType
  BY <1>1 DEF ClaimType, Extents, Phases
<1>6. LockInv
  BY <1>1 DEF LockInv, Init
<1>7. HoldInv
  BY <1>1 DEF HoldInv, Disjoint
<1>8. CallInv
  BY <1>1 DEF CallInv, CallOf
<1>9. BitsInv
  BY <1>1, <1>2, <1>3 DEF BitsInv
<1> QED
  BY <1>4, <1>5, <1>6, <1>7, <1>8, <1>9 DEF ClaimInv, Rest

\* The lock, the calls and the bits keep in step: what the theorems below rest on.
THEOREM ClaimsKept ==
  ASSUME TotalFits
  PROVE  SpecClaims => []ClaimInv
<1>1. InitClaims => ClaimInv
  BY InitClaim
<1>2. ClaimInv /\ [NextClaims]_<<vars, upper>> => ClaimInv'
  BY NextClaimStep
<1> QED
  BY <1>1, <1>2, PTL DEF SpecClaims

\* No block is given out twice, marked for no one or left marked by its release,
\* whatever claimers do between a bm_find and the bm_set_extent that marks what it
\* found, as long as they hold the lock from the one to the other.
THEOREM HeldExactly ==
  ASSUME TotalFits
  PROVE  SpecClaims => []HeldExact
<1>1. ClaimInv => HeldExact
  BY DEF ClaimInv, Rest, HoldInv, BitsInv, HeldExact, Held, HeldIn, Disjoint
<1> QED
  BY <1>1, ClaimsKept, PTL

-----------------------------------------------------------------------------
(* Claims on the bitmap are claims on the pool *)

\* OwnerOf, of any holders and extents.
OwnerIn(h, e, b) ==
  IF \E c \in h : b \in BlocksOf(e[c]) THEN CHOOSE c \in h : b \in BlocksOf(e[c]) ELSE NoOne

LEMMA OwnerNow ==
  ASSUME NEW b
  PROVE  OwnerOf(b) = OwnerIn(holds, extent, b) /\ OwnerOf(b)' = OwnerIn(holds', extent', b)
BY DEF OwnerOf, OwnerIn

\* A block is owned by the one claimer whose extent it lies in.
LEMMA Owner ==
  ASSUME NEW h, NEW e, Disjoint(h, e), h \subseteq Claimers, NEW b
  PROVE  /\ \A c \in h : b \in BlocksOf(e[c]) => OwnerIn(h, e, b) = c
         /\ \A c \in Claimers : OwnerIn(h, e, b) = c => c \in h /\ b \in BlocksOf(e[c])
         /\ OwnerIn(h, e, b) = NoOne <=> b \notin HeldIn(h, e)
         /\ OwnerIn(h, e, b) \in h \cup {NoOne}
<1>1. NoOne \notin h /\ NoOne \notin Claimers
  BY ClaimAssumption DEF ClaimAssumption
<1>2. b \in HeldIn(h, e) <=> \E c \in h : b \in BlocksOf(e[c])
  BY DEF HeldIn
<1>3. CASE \E c \in h : b \in BlocksOf(e[c])
  <2>1. OwnerIn(h, e, b) \in h /\ b \in BlocksOf(e[OwnerIn(h, e, b)])
    BY <1>3 DEF OwnerIn
  <2>2. \A c \in h : b \in BlocksOf(e[c]) => OwnerIn(h, e, b) = c
    BY <2>1 DEF Disjoint
  <2> QED
    BY <1>1, <1>2, <1>3, <2>1, <2>2
<1>4. CASE ~ \E c \in h : b \in BlocksOf(e[c])
  <2>1. OwnerIn(h, e, b) = NoOne
    BY <1>4 DEF OwnerIn
  <2> QED
    BY <1>1, <1>2, <1>4, <2>1
<1> QED
  BY <1>3, <1>4

\* Owners change only with the extents that are held.
LEMMA OwnersSame ==
  ASSUME holds' = holds, \A c \in holds : extent'[c] = extent[c], NEW b
  PROVE  OwnerOf(b)' = OwnerOf(b)
<1>1. \A c \in holds' : b \in BlocksOf(extent'[c]) <=> b \in BlocksOf(extent[c])
  OBVIOUS
<1>2. OwnerIn(holds', extent', b) = OwnerIn(holds, extent, b)
  BY <1>1 DEF OwnerIn
<1> QED
  BY <1>2, OwnerNow

\* What a claimer owns in the pool is its extent.
LEMMA OwnedNow ==
  ASSUME ClaimInv, NEW c \in Claimers
  PROVE  /\ c \in holds => Pool!Owned(c) = BlocksOf(extent[c])
         /\ c \notin holds => Pool!Owned(c) = {}
         /\ \A b : OwnerOf(b) = NoOne <=> b \notin Held
<1>1. /\ Disjoint(holds, extent) /\ holds \subseteq Claimers /\ Held = HeldIn(holds, extent)
      /\ extent \in [Claimers -> Extents] /\ Total \in Nat
      /\ c \in holds => extent[c].n > 0 /\ extent[c].addr + extent[c].n <= Total
  BY Numbers DEF ClaimInv, Rest, HoldInv, ClaimType, Held
<1>2. Pool!Owned(c) = {b \in 0 .. Total - 1 : OwnerOf(b) = c}
  BY DEF Pool!Owned
<1>3. \A b : OwnerOf(b) = OwnerIn(holds, extent, b)
  BY OwnerNow
<1>4. \A b : OwnerOf(b) = NoOne <=> b \notin Held
  BY <1>1, <1>3, Owner
<1>5. \A b : OwnerOf(b) = c <=> c \in holds /\ b \in BlocksOf(extent[c])
  BY <1>1, <1>3, Owner
<1>6. c \in holds => BlocksOf(extent[c]) \subseteq 0 .. Total - 1
  BY <1>1 DEF BlocksOf, Extents
<1> QED
  BY <1>2, <1>4, <1>5, <1>6

\* Free runs of the pool are those outside what is held.
LEMMA FreeNow ==
  ASSUME ClaimInv, NEW a \in Nat, NEW n \in Nat, n > 0, NoOne \notin Claimers
  PROVE  Pool!FreeRun(a, n) <=> a + n <= Total /\ a .. a + n - 1 \cap Held = {}
<1>1. \A b : OwnerOf(b) = NoOne <=> b \notin Held
  <2>1. /\ Disjoint(holds, extent) /\ holds \subseteq Claimers /\ Held = HeldIn(holds, extent)
    BY DEF ClaimInv, Rest, HoldInv, ClaimType, Held
  <2> QED
    BY <2>1, OwnerNow, Owner
<1>2. a + n <= Total => a .. a + n - 1 \subseteq 0 .. Total - 1
  BY Numbers
<1>3. Pool!FreeRun(a, n) <=>
        /\ a + n <= Total
        /\ \A b \in a .. a + n - 1 : [x \in 0 .. Total - 1 |-> OwnerOf(x)][b] = NoOne
  BY DEF Pool!FreeRun
<1> QED
  BY <1>1, <1>2, <1>3

\* A step of c changes the owners of the blocks of its extent only.
LEMMA OwnersOver ==
  ASSUME ClaimInv, ClaimInv', NEW c \in Claimers, holds' \ {c} = holds \ {c},
         \A d \in holds \ {c} : extent'[d] = extent[d], NEW b
  PROVE  OwnerOf(b)' = IF c \in holds' /\ b \in BlocksOf(extent'[c]) THEN c
                       ELSE IF c \in holds /\ b \in BlocksOf(extent[c]) THEN NoOne
                       ELSE OwnerOf(b)
<1>1. OwnerOf(b) = OwnerIn(holds, extent, b) /\ OwnerOf(b)' = OwnerIn(holds', extent', b)
  BY OwnerNow
<1>2. /\ Disjoint(holds, extent) /\ holds \subseteq Claimers
      /\ Disjoint(holds', extent') /\ holds' \subseteq Claimers
  BY DEF ClaimInv, Rest, HoldInv, ClaimType
<1>3. \A d \in Claimers : d # c => (d \in holds' /\ b \in BlocksOf(extent'[d]) <=>
                                    d \in holds /\ b \in BlocksOf(extent[d]))
  <2> SUFFICES ASSUME NEW d \in Claimers, d # c
               PROVE  d \in holds' /\ b \in BlocksOf(extent'[d]) <=>
                      d \in holds /\ b \in BlocksOf(extent[d])
    OBVIOUS
  <2>1. d \in holds' <=> d \in holds
    OBVIOUS
  <2>2. d \in holds => extent'[d] = extent[d]
    OBVIOUS
  <2> QED
    BY <2>1, <2>2
<1>4. CASE c \in holds' /\ b \in BlocksOf(extent'[c])
  <2>1. OwnerIn(holds', extent', b) = c
    BY <1>2, <1>4, Owner
  <2> QED
    BY <1>1, <1>4, <2>1
<1>5. CASE /\ ~ (c \in holds' /\ b \in BlocksOf(extent'[c]))
           /\ \E d \in holds \ {c} : b \in BlocksOf(extent[d])
  <2>1. PICK d \in holds \ {c} : b \in BlocksOf(extent[d])
    BY <1>5
  <2>2. d \in holds /\ d \in holds' /\ b \in BlocksOf(extent'[d])
    BY <1>2, <1>3, <2>1
  <2>3. OwnerIn(holds, extent, b) = d
    BY <1>2, <2>1, <2>2, Owner
  <2>4. OwnerIn(holds', extent', b) = d
    BY <1>2, <2>2, Owner
  <2>5. ~ (c \in holds /\ b \in BlocksOf(extent[c]))
    BY <1>2, <2>1 DEF Disjoint
  <2> QED
    BY <1>1, <1>5, <2>3, <2>4, <2>5
<1>6. CASE /\ ~ (c \in holds' /\ b \in BlocksOf(extent'[c]))
           /\ ~ \E d \in holds \ {c} : b \in BlocksOf(extent[d])
  <2>1. ~ \E d \in holds' : b \in BlocksOf(extent'[d])
    BY <1>2, <1>3, <1>6
  <2>2. OwnerOf(b)' = NoOne
    BY <1>1, <2>1 DEF OwnerIn
  <2>3. (c \in holds /\ b \in BlocksOf(extent[c])) \/ ~ \E d \in holds : b \in BlocksOf(extent[d])
    BY <1>6
  <2>4. (c \in holds /\ b \in BlocksOf(extent[c])) \/ OwnerOf(b) = NoOne
    BY <1>1, <2>3 DEF OwnerIn
  <2> QED
    BY <1>6, <2>2, <2>4
<1> QED
  BY <1>4, <1>5, <1>6

\* Marking what was found is the claim.
LEMMA MarkedClaims ==
  ASSUME TotalFits, ClaimInv, ClaimInv', NEW c \in Claimers, Marked(c)
  PROVE  Pool!Next
<1>1. /\ SafeInv /\ ExactInv /\ Rest /\ lock \in {NoOne, c} /\ phase[c] = "marking"
      /\ holds' = holds \cup {c} /\ extent' = extent /\ refused' = <<NoOne, 0>>
  BY DEF ClaimInv, Marked, Leave
<1>2. /\ c \notin holds /\ CallOf("marking", extent[c]) /\ extent[c].n \in Sizes
      /\ extent[c].addr \in Nat
  BY <1>1, Before DEF Writing
<1>3. PICK a \in Nat, n \in Sizes : a = extent[c].addr /\ n = extent[c].n
  BY <1>2
<1>4. n \in Nat /\ n > 0 /\ NoOne \notin Claimers /\ Total \in Nat
  BY ClaimNumbers
<1>5. /\ a + n <= Total /\ a .. a + n - 1 \cap Held = {}
      /\ \A b \in 0 .. a - 1 : ~ (b .. b + n - 1 \cap Held = {})
  BY <1>2, <1>3 DEF CallOf, FirstFit, BlocksOf
<1>6. Pool!Owned(c) = {}
  BY <1>2, OwnedNow
<1>7. Pool!FreeRun(a, n) /\ \A b \in 0 .. a - 1 : ~ Pool!FreeRun(b, n)
  <2>1. \A b \in 0 .. a - 1 : b \in Nat
    BY <1>3
  <2> QED
    BY <1>4, <1>5, <2>1, FreeNow
<1>8. \A b : OwnerOf(b)' = IF b \in a .. a + n - 1 THEN c ELSE OwnerOf(b)
  <2>1. /\ holds' \ {c} = holds \ {c} /\ c \in holds'
        /\ BlocksOf(extent'[c]) = a .. a + n - 1
    BY <1>1, <1>3 DEF BlocksOf
  <2>2. \A d \in holds \ {c} : extent'[d] = extent[d]
    BY <1>1
  <2> QED
    BY <1>2, <2>1, <2>2, OwnersOver
<1>9. Pool!Give(c, a .. a + n - 1)
  BY <1>8 DEF Pool!Give
<1>10. a \in DOMAIN [b \in 0 .. Total - 1 |-> OwnerOf(b)]
  BY <1>4, <1>5
<1>11. Pool!Claim(c, n)
  BY <1>1, <1>6, <1>7, <1>9, <1>10 DEF Pool!Claim
<1> QED
  BY <1>11 DEF Pool!Next

\* A search that fails is the refusal: no gap of the size is free.
LEMMA NotFoundRefuses ==
  ASSUME TotalFits, ClaimInv, NEW c \in Claimers, NotFound(c)
  PROVE  Pool!Next
<1>1. /\ SafeInv /\ ExactInv /\ Rest /\ lock \in {NoOne, c} /\ phase[c] = "finding" /\ Return
      /\ holds' = holds /\ refused' = <<c, extent[c].n>> /\ rc # 0
      /\ extent' = [extent EXCEPT ![c].n = 0]
  BY DEF ClaimInv, NotFound, Leave
<1>2. /\ c \notin holds /\ CallOf("finding", extent[c]) /\ extent[c].n \in Sizes /\ Ones = Held
      /\ extent \in [Claimers -> Extents] /\ holds \subseteq Claimers
  BY <1>1, Before DEF Writing
<1>3. PICK n \in Sizes : n = extent[c].n
  BY <1>2
<1>4. n \in Nat /\ n > 0 /\ NoOne \notin Claimers /\ Total \in Nat
  BY ClaimNumbers
<1>5. Pool!Owned(c) = {}
  BY <1>2, OwnedNow
<1>6. ASSUME NEW a \in 0 .. Total - 1 PROVE ~ Pool!FreeRun(a, n)
  <2> SUFFICES ASSUME Pool!FreeRun(a, n) PROVE FALSE
    OBVIOUS
  <2>1. a \in Nat /\ a + n <= Total /\ a .. a + n - 1 \cap Ones = {}
    BY <1>2, <1>4, FreeNow
  <2>2. pc = "done" /\ op = "find" /\ arg.addr = 0 /\ arg.n = Total /\ arg.gap = n
    BY <1>1, <1>2, <1>3 DEF Return, CallOf, Under
  <2>3. GapsFound = {x \in 0 .. Total - n : x + n <= 0 + Total /\ x .. x + n - 1 \cap Ones = {}}
    BY <2>2 DEF GapsFound
  <2>4. a \in 0 .. Total - n /\ a + n <= 0 + Total
    BY <1>4, <2>1
  <2>5. GapsFound # {}
    BY <2>1, <2>3, <2>4
  <2> QED
    BY <1>1, <1>4, <2>2, <2>5 DEF ExactInv, Answers, FindFirst
<1>7. \A b : OwnerOf(b)' = OwnerOf(b)
  BY <1>1, <1>2, OwnersSame
<1>8. Pool!Refuse(c, n)
  BY <1>1, <1>3, <1>5, <1>6, <1>7 DEF Pool!Refuse
<1> QED
  BY <1>8 DEF Pool!Next

\* Setting the bit after the extent makes it one block longer.
LEMMA GrownGrows ==
  ASSUME TotalFits, ClaimInv, ClaimInv', NEW c \in Claimers, Grown(c)
  PROVE  Pool!Next
<1>1. /\ SafeInv /\ Rest /\ lock \in {NoOne, c} /\ phase[c] = "growing"
      /\ holds' = holds /\ extent' = [extent EXCEPT ![c].n = @ + 1] /\ refused' = refused
  BY DEF ClaimInv, Grown, Leave
<1>2. /\ c \in holds /\ CallOf("growing", extent[c]) /\ extent \in [Claimers -> Extents]
      /\ extent[c].addr \in Nat /\ extent[c].n \in Nat /\ extent[c].n > 0
      /\ holds \subseteq Claimers
  BY <1>1, Before DEF Writing
<1>3. PICK b \in Nat : b = extent[c].addr + extent[c].n
  BY <1>2
<1>4. b < Total /\ b \notin Held /\ Total \in Nat
  BY <1>2, <1>3, Numbers DEF CallOf
<1>5. BlocksOf(extent'[c]) = BlocksOf(extent[c]) \cup {b}
  <2>1. extent'[c].addr = extent[c].addr /\ extent'[c].n = extent[c].n + 1
    BY <1>1, <1>2 DEF Extents
  <2> QED
    BY <1>2, <1>3, <2>1 DEF BlocksOf
<1>6. b - 1 \in BlocksOf(extent[c])
  BY <1>2, <1>3 DEF BlocksOf
<1>7. \A x : OwnerOf(x)' = IF x \in {b} THEN c ELSE OwnerOf(x)
  <2> SUFFICES ASSUME NEW x PROVE OwnerOf(x)' = IF x \in {b} THEN c ELSE OwnerOf(x)
    OBVIOUS
  <2>1. \A d \in holds \ {c} : extent'[d] = extent[d]
    BY <1>1, <1>2
  <2>2. OwnerOf(x)' = IF x \in BlocksOf(extent'[c]) THEN c ELSE OwnerOf(x)
    BY <1>1, <1>2, <1>5, <2>1, OwnersOver
  <2>3. x \in BlocksOf(extent[c]) => OwnerOf(x) = c
    <3>1. Disjoint(holds, extent)
      BY <1>1 DEF Rest, HoldInv
    <3> QED
      BY <1>2, <3>1, Owner, OwnerNow
  <2> QED
    BY <1>5, <2>2, <2>3
<1>8. Pool!Grow(c)
  <2>1. b \in DOMAIN [x \in 0 .. Total - 1 |-> OwnerOf(x)]
    BY <1>4
  <2>2. OwnerOf(b) = NoOne /\ b - 1 \in Pool!Owned(c)
    BY <1>2, <1>4, <1>6, OwnedNow
  <2>3. [x \in 0 .. Total - 1 |-> OwnerOf(x)][b] = NoOne
    BY <2>1, <2>2
  <2>4. Pool!Give(c, {b})
    BY <1>7 DEF Pool!Give
  <2> QED
    BY <1>1, <2>1, <2>2, <2>3, <2>4 DEF Pool!Grow
<1> QED
  BY <1>8 DEF Pool!Next

\* Clearing the extent frees what the claimer owned and nothing else.
LEMMA ReleasedFrees ==
  ASSUME TotalFits, ClaimInv, ClaimInv', NEW c \in Claimers, Released(c)
  PROVE  Pool!Next
<1>1. /\ SafeInv /\ Rest /\ lock \in {NoOne, c} /\ phase[c] = "releasing"
      /\ holds' = holds \ {c} /\ extent' = [extent EXCEPT ![c].n = 0] /\ refused' = refused
  BY DEF ClaimInv, Released, Leave
<1>2. /\ c \in holds /\ extent \in [Claimers -> Extents] /\ holds \subseteq Claimers
      /\ extent[c].addr \in Nat /\ extent[c].n \in Nat /\ extent[c].n > 0
      /\ Disjoint(holds, extent) /\ NoOne \notin Claimers
  BY <1>1, Before, ClaimAssumption DEF Writing, ClaimAssumption
<1>3. Pool!Owned(c) # {}
  <2>1. extent[c].addr \in BlocksOf(extent[c])
    BY <1>2 DEF BlocksOf
  <2> QED
    BY <1>2, <2>1, OwnedNow
<1>4. \A x : OwnerOf(x)' = IF OwnerOf(x) = c THEN NoOne ELSE OwnerOf(x)
  <2> SUFFICES ASSUME NEW x PROVE OwnerOf(x)' = IF OwnerOf(x) = c THEN NoOne ELSE OwnerOf(x)
    OBVIOUS
  <2>1. holds' \ {c} = holds \ {c} /\ \A d \in holds \ {c} : extent'[d] = extent[d]
    BY <1>1, <1>2
  <2>2. OwnerOf(x)' = IF x \in BlocksOf(extent[c]) THEN NoOne ELSE OwnerOf(x)
    BY <1>1, <1>2, <2>1, OwnersOver
  <2>3. x \in BlocksOf(extent[c]) <=> OwnerOf(x) = c
    BY <1>2, Owner, OwnerNow
  <2> QED
    BY <2>2, <2>3
<1>5. Pool!Release(c)
  BY <1>1, <1>3, <1>4 DEF Pool!Release
<1> QED
  BY <1>5 DEF Pool!Next

\* Every step on the bitmap is one of the pool, or changes nothing there.
LEMMA StepMaps ==
  ASSUME TotalFits, ClaimInv, ClaimInv', [NextClaims]_<<vars, upper>>
  PROVE  [Pool!Next]_(Pool!vars)
<1>1. ASSUME holds' = holds, \A c \in holds : extent'[c] = extent[c], refused' = refused
      PROVE  UNCHANGED Pool!vars
  <2>1. \A b : OwnerOf(b)' = OwnerOf(b)
    BY <1>1, OwnersSame
  <2> QED
    BY <1>1, <2>1 DEF Pool!vars
<1>2. CASE Loop /\ UNCHANGED upper
  BY <1>1, <1>2 DEF upper
<1>3. ASSUME NEW c \in Claimers, NEW n \in Sizes, Find(c, n) PROVE UNCHANGED Pool!vars
  <2>1. /\ c \notin holds /\ holds' = holds /\ refused' = refused
        /\ extent' = [extent EXCEPT ![c] = [addr |-> 0, n |-> n]]
        /\ extent \in [Claimers -> Extents] /\ holds \subseteq Claimers
    BY <1>3 DEF Find, ClaimInv, Rest, ClaimType
  <2>2. \A d \in holds : extent'[d] = extent[d]
    BY <2>1
  <2> QED
    BY <1>1, <2>1, <2>2
<1>4. ASSUME NEW c \in Claimers, GapFound(c) PROVE UNCHANGED Pool!vars
  <2>1. /\ phase[c] = "finding" /\ holds' = holds /\ refused' = refused
        /\ extent' = [extent EXCEPT ![c].addr = out]
        /\ extent \in [Claimers -> Extents] /\ holds \subseteq Claimers
    BY <1>4 DEF GapFound, Back, ClaimInv, Rest, ClaimType
  <2>2. c \notin holds
    BY <2>1 DEF ClaimInv, Rest, HoldInv
  <2>3. \A d \in holds : extent'[d] = extent[d]
    BY <2>1, <2>2
  <2> QED
    BY <1>1, <2>1, <2>3
<1>5. ASSUME NEW c \in Claimers,
             Mark(c) \/ AskToGrow(c) \/ CannotGrow(c) \/ CanGrow(c) \/ Grow(c) \/ Release(c)
      PROVE  UNCHANGED Pool!vars
  BY <1>1, <1>5 DEF Mark, AskToGrow, CannotGrow, CanGrow, Grow, Release
<1>6. CASE UNCHANGED <<vars, upper>>
  BY <1>1, <1>6 DEF upper
<1> QED
  BY <1>2, <1>3, <1>4, <1>5, <1>6, NotFoundRefuses, MarkedClaims, GrownGrows, ReleasedFrees
     DEF NextClaims

\* Under the lock, bm_find and bm_set_extent together are one claim on a pool of
\* blocks: first fit, refused only when no gap is large enough, grown in place and
\* released whole, whatever the order of the claimers and the steps of the calls.
THEOREM ClaimsArePool ==
  ASSUME TotalFits
  PROVE  SpecClaims => IsPool
<1>1. InitClaims => Pool!Init
  <2> SUFFICES ASSUME InitClaims PROVE Pool!Init
    OBVIOUS
  <2>1. holds = {} /\ refused = <<NoOne, 0>>
    BY DEF InitClaims
  <2>2. \A b : OwnerOf(b) = NoOne
    BY <2>1 DEF OwnerOf
  <2> QED
    BY <2>1, <2>2 DEF Pool!Init
<1>2. ClaimInv /\ ClaimInv' /\ [NextClaims]_<<vars, upper>> => [Pool!Next]_(Pool!vars)
  BY StepMaps
<1> QED
  BY <1>1, <1>2, ClaimsKept, PTL DEF SpecClaims, IsPool, Pool!Spec
=============================================================================
