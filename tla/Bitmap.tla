------------------------------- MODULE Bitmap -------------------------------
(***************************************************************************)
(* The bitmaps of src/src/map.c: an array of bytes, each a set of the bits *)
(* that are 1.  A call that works through the bytes is a step for each     *)
(* byte it comes to; the others are one action.  The arithmetic that can   *)
(* leave its type is done in that type: addresses are uint64_t, the byte   *)
(* primitives take ints.                                                   *)
(*                                                                         *)
(* old is a history variable that no action reads.                         *)
(***************************************************************************)
EXTENDS Integers, FiniteSets

CONSTANTS
  Bits,       \* 8: the bits of a byte
  Total,      \* total_bits
  Word,       \* 2^64: addresses and counts are uint64_t
  IntWord,    \* 2^32: the byte primitives take int
  Addresses,  \* the bit addresses callers pass
  Counts,     \* the numbers of bits they pass
  Gaps        \* the gap sizes they look for

NBytes == (Total + Bits - 1) \div Bits
Positions == 0 .. Bits - 1

ASSUME BitmapAssumption ==
  /\ Bits \in Nat \ {0} /\ Total \in Nat \ {0}
  /\ IntWord \in Nat /\ IntWord > 4 * Bits
  /\ Word \in Nat /\ Word > Total + Bits
  /\ Addresses \subseteq 0 .. Word - 1
  /\ Counts \subseteq 0 .. Word - 1
  /\ Gaps \subseteq 0 .. Word - 1

VARIABLES
  bm,     \* the bytes
  pc,     \* "idle", the loop a call is in, or "done"
  op,     \* the function that was called
  arg,    \* its arguments
  frame,  \* its locals
  rc,     \* what it returned
  out,    \* *count_result, *found_address, or bm_popcount's result
  old     \* the bits that were 1 when it was called

vars == <<bm, pc, op, arg, frame, rc, out, old>>

Ones == {b \in 0 .. NBytes * Bits - 1 : b % Bits \in bm[b \div Bits]}

NoFrame == [loc |-> 0]
NoArg == [addr |-> 0, n |-> 0, gap |-> 0, v |-> 0]

-----------------------------------------------------------------------------
(* The byte primitives *)

U64(x) == x % Word
ToInt(x) == LET y == x % IntWord IN IF y < IntWord \div 2 THEN y ELSE y - IntWord

Below(x, y) == IF x < y THEN x ELSE y

byte_set_bits(start, n, byte, v) ==
  LET mask == start .. Below(start + n, Bits) - 1
  IN IF n <= 0 THEN byte ELSE IF v = 1 THEN byte \cup mask ELSE byte \ mask

\* How many bits of the byte, from start on, have value v.
byte_count_bits(start, n, byte, v) ==
  Cardinality({p \in start .. Below(start + n, Bits) - 1 :
                 \A q \in start .. p : q \in byte <=> v = 1})

Clear(byte, from, to) == from .. to \cap byte = {}

\* The first n zeros from start on; failing these, the zeros the byte ends with.
byte_find_gap(start, n, byte) ==
  LET found == {p \in start .. Bits - n : Clear(byte, p, p + n - 1)}
      last == Cardinality({p \in start .. Bits - 1 : Clear(byte, p, Bits - 1)})
  IN IF n <= 0
     THEN [rc |-> -1, count |-> 0]
     ELSE IF found # {}
     THEN [rc |-> CHOOSE p \in found : \A q \in found : p <= q, count |-> n]
     ELSE [rc |-> IF last = 0 THEN -1 ELSE -2, count |-> last]

-----------------------------------------------------------------------------
(* Calls and returns *)

Init ==
  /\ bm = [l \in 0 .. NBytes - 1 |-> {}]
  /\ pc = "idle" /\ op = "none" /\ arg = NoArg /\ frame = NoFrame
  /\ rc = 0 /\ out = 0 /\ old = {}

Call(f, a) ==
  /\ pc = "idle"
  /\ op' = f
  /\ arg' = a
  /\ old' = Ones

Finish(r, o) == pc' = "done" /\ rc' = r /\ out' = o /\ frame' = NoFrame
Goto(at, fr) == pc' = at /\ frame' = fr /\ UNCHANGED <<rc, out>>

Return ==
  /\ pc = "done"
  /\ pc' = "idle" /\ op' = "none" /\ arg' = NoArg
  /\ rc' = 0 /\ out' = 0 /\ old' = {}
  /\ UNCHANGED <<bm, frame>>

\* The ranges bm_set_extent, bm_count and bm_extent_can_grow refuse.
OutOfRange(a, n) == a >= Total \/ U64(a + n) > Total

SetBit(a, v) ==
  bm' = [bm EXCEPT ![a \div Bits] = byte_set_bits(a % Bits, 1, @, v)]

bm_set_bit(a, v) ==
  /\ Call("set_bit", [NoArg EXCEPT !.addr = a, !.n = 1, !.v = v])
  /\ \/ a >= Total /\ Finish(-1, 0) /\ UNCHANGED bm
     \/ a < Total /\ SetBit(a, v) /\ Finish(0, 0)

bm_get_bit(a) ==
  /\ Call("get_bit", [NoArg EXCEPT !.addr = a])
  /\ \/ a >= Total /\ Finish(-1, 0)
     \/ /\ a < Total
        /\ Finish(IF a % Bits \in bm[a \div Bits] THEN 1 ELSE 0, 0)
  /\ UNCHANGED bm

bm_zero ==
  /\ Call("zero", NoArg)
  /\ bm' = [l \in DOMAIN bm |-> {}]
  /\ Finish(0, 0)

\* The bits bm_fill sets in byte l; all of them, as a slip.
FilledAll(l) == Positions
Filled(l) == {p \in Positions : l * Bits + p < Total}

bm_fill ==
  /\ Call("fill", NoArg)
  /\ bm' = [l \in DOMAIN bm |-> Filled(l)]
  /\ Finish(0, 0)

bm_popcount ==
  /\ Call("popcount", NoArg)
  /\ Finish(0, Cardinality({b \in Ones : b < Total}))
  /\ UNCHANGED bm

-----------------------------------------------------------------------------
(* bm_set_extent *)

bm_set_extent(a, n, v) ==
  /\ Call("set_extent", [NoArg EXCEPT !.addr = a, !.n = n, !.v = v])
  /\ \/ OutOfRange(a, n) /\ Finish(-1, 0) /\ UNCHANGED bm
     \/ ~ OutOfRange(a, n) /\ n = 0 /\ Finish(0, 0) /\ UNCHANGED bm
     \/ ~ OutOfRange(a, n) /\ n = 1 /\ SetBit(a, v) /\ Finish(0, 0)
     \/ /\ ~ OutOfRange(a, n) /\ n > 1
        /\ Goto(IF a % Bits = 0 THEN "body" ELSE "head",
                [loc |-> a \div Bits, pending |-> n])
        /\ UNCHANGED bm

\* The bits of the first byte to change; all the bits asked for, as a slip.
AtStartAll(skip, n) == n
AtStart(skip, n) == IF skip + n < Bits THEN n ELSE Bits - skip

ExtentHead ==
  /\ pc = "head"
  /\ LET skip == arg.addr % Bits
         k == AtStart(skip, arg.n)
     IN /\ bm' = [bm EXCEPT ![frame.loc] = byte_set_bits(skip, k, @, arg.v)]
        /\ IF frame.pending = k
           THEN Finish(0, 0)
           ELSE Goto("body", [loc |-> frame.loc + 1, pending |-> frame.pending - k])
  /\ UNCHANGED <<op, arg, old>>

\* The whole bytes of the extent.
ExtentBody ==
  /\ pc = "body"
  /\ LET k == frame.pending \div Bits
     IN /\ bm' = [l \in DOMAIN bm |->
                    IF l \notin frame.loc .. frame.loc + k - 1 THEN bm[l]
                    ELSE IF arg.v = 0 THEN {} ELSE Positions]
        /\ IF frame.pending = k * Bits
           THEN Finish(0, 0)
           ELSE Goto("tail", [loc |-> frame.loc + k,
                              pending |-> frame.pending - k * Bits])
  /\ UNCHANGED <<op, arg, old>>

ExtentTail ==
  /\ pc = "tail"
  /\ bm' = [bm EXCEPT ![frame.loc] = byte_set_bits(0, frame.pending, @, arg.v)]
  /\ Finish(0, 0)
  /\ UNCHANGED <<op, arg, old>>

-----------------------------------------------------------------------------
(* bm_count, and bm_extent_can_grow, which calls it up to three times *)

\* Count from bit a on; for is "count", or the pass of bm_extent_can_grow.
BeginCount(a, n, v, for) ==
  Goto("count", [loc |-> a \div Bits, skip |-> a % Bits, acc |-> 0,
                 pending |-> n, n |-> n, v |-> v, for |-> for])

bm_count(a, n, v) ==
  /\ Call("count", [NoArg EXCEPT !.addr = a, !.n = n, !.v = v])
  /\ \/ OutOfRange(a, n) /\ Finish(-1, 0)
     \/ ~ OutOfRange(a, n) /\ n = 0 /\ Finish(0, 0)
     \/ ~ OutOfRange(a, n) /\ n > 0 /\ BeginCount(a, n, v, "count")
  /\ UNCHANGED bm

bm_extent_can_grow(a, n) ==
  /\ Call("can_grow", [NoArg EXCEPT !.addr = a, !.n = n])
  /\ \/ (OutOfRange(a, n) \/ n = 0) /\ Finish(-1, 0)
     \/ ~ OutOfRange(a, n) /\ n > 0 /\ BeginCount(a, n, 0, "zeros")
  /\ UNCHANGED bm

\* Where the zeros after the leading ones begin; the region, as a slip.
AfterOnesNot(a, ones) == a
AfterOnes(a, ones) == a + ones

\* bm_count returns c.
Counted(c) ==
  \/ frame.for = "count" /\ Finish(0, c)
  \/ /\ frame.for = "zeros" /\ c > 0
     /\ Finish(IF c = arg.n THEN 0 ELSE -2, 0)
  \/ /\ frame.for = "zeros" /\ c = 0
     /\ BeginCount(arg.addr, arg.n, 1, "ones")
  \/ /\ frame.for = "ones" /\ c = arg.n
     /\ Finish(-3, 0)
  \/ /\ frame.for = "ones" /\ c # arg.n
     /\ BeginCount(AfterOnes(arg.addr, c), arg.n - c, 0, "rest")
  \/ /\ frame.for = "rest"
     /\ Finish(IF c = frame.n THEN 0 ELSE -5, 0)

\* A first byte that is not counted from its start.
CountHead ==
  /\ pc = "count"
  /\ frame.skip # 0
  /\ LET k == AtStart(frame.skip, frame.n)
         c == byte_count_bits(frame.skip, k, bm[frame.loc], frame.v)
     IN IF k = frame.pending \/ c < k
        THEN Counted(c)
        ELSE Goto("count", [frame EXCEPT !.loc = @ + 1, !.skip = 0,
                                         !.acc = c, !.pending = @ - k])
  /\ UNCHANGED <<bm, op, arg, old>>

\* The bits of a mixed byte to look at; all of them, as a slip.
LimitNot(pending) == Bits
Limit(pending) == ToInt(pending)

CountByte ==
  /\ pc = "count"
  /\ frame.skip = 0
  /\ LET byte == bm[frame.loc]
         same == byte = IF frame.v = 1 THEN Positions ELSE {}
         mixed == byte # {} /\ byte # Positions
     IN \/ /\ mixed
           /\ Counted(frame.acc + byte_count_bits(0, Limit(frame.pending), byte, frame.v))
        \/ /\ ~ mixed /\ ~ same
           /\ Counted(frame.acc)
        \/ /\ same /\ frame.pending <= Bits
           /\ Counted(frame.n)
        \/ /\ same /\ frame.pending > Bits
           /\ Goto("count", [frame EXCEPT !.loc = @ + 1, !.acc = @ + Bits,
                                          !.pending = @ - Bits])
  /\ UNCHANGED <<bm, op, arg, old>>

-----------------------------------------------------------------------------
(* bm_find *)

\* The bits of the window that are in the bitmap, and the end of the window.
InMap(a, n) == IF U64(a + n) > Total THEN U64(Total - a) ELSE n
WindowEnd == U64(arg.addr + InMap(arg.addr, arg.n))

bm_find(a, n, g) ==
  /\ Call("find", [NoArg EXCEPT !.addr = a, !.n = n, !.gap = g])
  /\ \/ (a >= Total \/ g = 0 \/ n = 0 \/ g > n) /\ Finish(-1, 0)
     \/ /\ a < Total /\ g > 0 /\ n > 0 /\ g <= n
        /\ Goto("find", [loc |-> a \div Bits, skip |-> a % Bits,
                         count |-> InMap(a, n), need |-> g,
                         more |-> FALSE, found |-> 0])
  /\ UNCHANGED bm

\* The run of zeros before this byte does not go on in it, although g was found
\* there; overlooked, as a slip.
StaleNever(g) == FALSE
Stale(g) ==
  /\ frame.more
  /\ g.rc # -1
  /\ g.rc # 0
  /\ ~ (g.rc = -2 /\ g.count = Bits - frame.skip)

\* What is left of count after this byte; nothing taken off, as a slip.
LeftAll == frame.count
Left == IF Bits - frame.skip > frame.count THEN 0 ELSE frame.count - (Bits - frame.skip)

\* On to the next byte; not moving, as a slip.
OnStuck(need, more, found) == Goto("find", frame)
On(need, more, found) ==
  Goto("find", [frame EXCEPT !.loc = @ + 1, !.skip = 0, !.count = Left,
                             !.need = need, !.more = more, !.found = found])

\* The gap is at a, unless it ends outside the window.
Found(a) == IF U64(a + arg.gap) > WindowEnd THEN Finish(-1, 0) ELSE Finish(0, a)

FindByte ==
  /\ pc = "find"
  /\ LET byte == bm[frame.loc]
         first == byte_find_gap(frame.skip, ToInt(frame.need), byte)
         g == IF Stale(first) THEN byte_find_gap(frame.skip, ToInt(arg.gap), byte)
              ELSE first
         more == frame.more /\ ~ Stale(first)
         need == IF Stale(first) THEN arg.gap ELSE frame.need
         from == IF more THEN frame.found ELSE (frame.loc + 1) * Bits - g.count
     IN \/ /\ g.rc >= 0 /\ ~ more
           /\ Found(frame.loc * Bits + g.rc)
        \/ /\ g.rc >= 0 /\ more
           /\ IF need = g.count THEN Found(from)
              ELSE On(need - g.count, TRUE, from)
        \/ /\ g.rc = -1
           /\ IF arg.gap > Left \/ Left = 0 THEN Finish(-1, 0)
              ELSE On(arg.gap, FALSE, frame.found)
        \/ /\ g.rc = -2
           /\ IF Left = 0 \/ need - g.count > Left THEN Finish(-1, 0)
              ELSE On(need - g.count, TRUE, from)
  /\ UNCHANGED <<bm, op, arg, old>>

-----------------------------------------------------------------------------

Loop == ExtentHead \/ ExtentBody \/ ExtentTail \/ CountHead \/ CountByte \/ FindByte

Next ==
  \/ \E a \in Addresses, v \in {0, 1} : bm_set_bit(a, v)
  \/ \E a \in Addresses : bm_get_bit(a)
  \/ bm_zero \/ bm_fill \/ bm_popcount
  \/ \E a \in Addresses, n \in Counts, v \in {0, 1} :
       bm_set_extent(a, n, v) \/ bm_count(a, n, v)
  \/ \E a \in Addresses, n \in Counts : bm_extent_can_grow(a, n)
  \/ \E a \in Addresses, n \in Counts, g \in Gaps : bm_find(a, n, g)
  \/ Loop
  \/ Return

Spec == Init /\ [][Next]_vars

\* A call that has begun goes on, and returns.
FairSpec == Spec /\ WF_vars(Loop \/ Return)

-----------------------------------------------------------------------------
(* Properties *)

Bytes(l) == SUBSET {p \in Positions : l * Bits + p < Total}

TypeOK ==
  /\ DOMAIN bm = 0 .. NBytes - 1
  /\ \A l \in DOMAIN bm : bm[l] \in Bytes(l)
  /\ pc \in {"idle", "head", "body", "tail", "count", "find", "done"}
  /\ op \in {"none", "set_bit", "get_bit", "zero", "fill", "popcount",
             "set_extent", "count", "can_grow", "find"}
  /\ arg.addr \in 0 .. Word - 1 /\ arg.n \in 0 .. Word - 1
  /\ arg.gap \in 0 .. Word - 1 /\ arg.v \in {0, 1}
  /\ frame.loc \in Nat
  /\ rc \in {-5, -3, -2, -1, 0, 1}
  /\ out \in 0 .. Total

\* A call touches no byte outside the bitmap.
InBounds ==
  /\ pc \in {"head", "tail", "count", "find"} => frame.loc \in DOMAIN bm
  /\ pc = "body" => frame.loc + frame.pending \div Bits <= NBytes

\* Setting or clearing an extent, whichever bytes it begins and ends in,
\* changes its bits and no other; a refused one changes none.
ExtentExact ==
  pc = "done" /\ op \in {"set_extent", "set_bit"} =>
    LET extent == arg.addr .. arg.addr + arg.n - 1
    IN /\ rc = IF extent \subseteq 0 .. Total - 1 /\ arg.addr < Total THEN 0 ELSE -1
       /\ Ones = IF rc = -1 THEN old
                 ELSE IF arg.v = 1 THEN old \cup extent ELSE old \ extent

\* The bits with value v that the bits from a on begin with, n at most.
RunOf(a, n, v) ==
  Cardinality({k \in 1 .. n : \A b \in a .. a + k - 1 : b \in Ones <=> v = 1})

\* bm_count, bm_popcount and bm_get_bit return what the bits say.
ReadsExact ==
  pc = "done" =>
    /\ op = "count" =>
         IF arg.addr >= Total \/ arg.addr + arg.n > Total
         THEN rc = -1 /\ out = 0
         ELSE rc = 0 /\ out = RunOf(arg.addr, arg.n, arg.v)
    /\ op = "popcount" => out = Cardinality(Ones)
    /\ op = "get_bit" =>
         rc = IF arg.addr >= Total THEN -1 ELSE IF arg.addr \in Ones THEN 1 ELSE 0

\* The gaps of the window bm_find was given.
GapsFound ==
  {a \in arg.addr .. Total - arg.gap :
     /\ a + arg.gap <= arg.addr + arg.n
     /\ a .. a + arg.gap - 1 \cap Ones = {}}

\* bm_find finds the first gap of the window, also one that spans bytes, and
\* fails only when there is none.
FindFirst ==
  pc = "done" /\ op = "find" =>
    IF arg.gap = 0 \/ GapsFound = {}
    THEN rc = -1 /\ out = 0
    ELSE rc = 0 /\ out \in GapsFound /\ \A a \in GapsFound : out <= a

\* "On success returns 0 and sets *found_address to the bit offset of the gap"
\* (map.h), for every size a gap may have.
FoundIsFree ==
  pc = "done" /\ op = "find" /\ rc = 0 => out .. out + arg.gap - 1 \cap Ones = {}

\* bm_extent_can_grow says 0 exactly for a region of ones (or none) and then
\* zeros, and which of the other shapes a region has (map.h).
GrowRight ==
  pc = "done" /\ op = "can_grow" =>
    LET zeros == RunOf(arg.addr, arg.n, 0)
        ones == RunOf(arg.addr, arg.n, 1)
        valid == arg.n > 0 /\ arg.addr + arg.n <= Total
    IN rc = IF ~ valid THEN -1
            ELSE IF zeros = arg.n THEN 0
            ELSE IF zeros > 0 THEN -2
            ELSE IF ones = arg.n THEN -3
            ELSE IF RunOf(arg.addr + ones, arg.n - ones, 0) = arg.n - ones THEN 0
            ELSE -5

\* Every call returns.
CallsEnd == pc # "idle" ~> pc = "idle"
=============================================================================
