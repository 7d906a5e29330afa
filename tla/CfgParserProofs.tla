-------------------------- MODULE CfgParserProofs --------------------------
(***************************************************************************)
(* Proofs about CfgParser, for any lines, files and limits: what is open,  *)
(* what the pointers of the parser point at, and, with the tokeniser, that *)
(* it reads no character beyond the end of a line and gets to that end.    *)
(***************************************************************************)
EXTENDS CfgParser, WellFoundedInduction, TLAPS

-----------------------------------------------------------------------------
(* Sequences, whatever they hold *)

IsSeq(s) == s \in Seq({s[i] : i \in DOMAIN s})

LEMMA Sequence ==
  ASSUME NEW s, IsSeq(s)
  PROVE  Len(s) \in Nat /\ DOMAIN s = 1 .. Len(s)
BY DEF IsSeq

LEMMA SeqIs ==
  ASSUME NEW S, NEW s \in Seq(S)
  PROVE  IsSeq(s)
BY DEF IsSeq

LEMMA NoItems == \A t : t = <<>> => t \in Seq({})
OBVIOUS

LEMMA NoLength == ASSUME NEW t, t = <<>> PROVE Len(t) = 0
OBVIOUS

LEMMA NoneIsSeq == \A t : t = <<>> => IsSeq(t)
BY NoItems, SeqIs

LEMMA AppendOne ==
  ASSUME NEW S, NEW s \in Seq(S), NEW e \in S
  PROVE  Append(s, e) \in Seq(S) /\ Len(Append(s, e)) = Len(s) + 1 /\ Len(s) \in Nat
OBVIOUS

LEMMA Appended ==
  ASSUME NEW s, IsSeq(s), NEW e
  PROVE  /\ IsSeq(Append(s, e)) /\ Len(Append(s, e)) = Len(s) + 1
         /\ Append(s, e)[Len(s) + 1] = e
         /\ \A i \in 1 .. Len(s) : Append(s, e)[i] = s[i]
<1> DEFINE S == {s[i] : i \in DOMAIN s} \cup {e}
<1>1. s \in Seq(S) /\ e \in S
  BY DEF IsSeq
<1> HIDE DEF S
<1>2. PICK t : t = Append(s, e)
  OBVIOUS
<1>3. /\ t \in Seq(S) /\ Len(t) = Len(s) + 1 /\ t[Len(s) + 1] = e
      /\ \A i \in 1 .. Len(s) : t[i] = s[i]
  BY <1>1, <1>2
<1>4. IsSeq(t)
  BY <1>3, SeqIs
<1> QED
  BY <1>2, <1>3, <1>4

\* t is s with e at j.
IsPut(t, s, j, e) == t = [s EXCEPT ![j] = e]

LEMMA Replaced ==
  ASSUME NEW s, IsSeq(s), NEW j \in 1 .. Len(s), NEW e, NEW t, IsPut(t, s, j, e)
  PROVE  /\ IsSeq(t) /\ Len(t) = Len(s) /\ t[j] = e
         /\ \A i \in 1 .. Len(s) : i # j => t[i] = s[i]
<1> DEFINE S == {s[i] : i \in DOMAIN s} \cup {e}
<1>1. s \in Seq(S) /\ e \in S /\ DOMAIN s = 1 .. Len(s)
  BY DEF IsSeq
<1> HIDE DEF S
<1>2. /\ t \in Seq(S) /\ Len(t) = Len(s) /\ t[j] = e
      /\ \A i \in 1 .. Len(s) : i # j => t[i] = s[i]
  BY <1>1 DEF IsPut
<1>3. IsSeq(t)
  BY <1>2, SeqIs
<1> QED
  BY <1>2, <1>3

LEMMA Shortened ==
  ASSUME NEW s, IsSeq(s), NEW n \in 0 .. Len(s)
  PROVE  /\ IsSeq(SubSeq(s, 1, n)) /\ Len(SubSeq(s, 1, n)) = n
         /\ \A i \in 1 .. n : SubSeq(s, 1, n)[i] = s[i]
<1> DEFINE S == {s[i] : i \in DOMAIN s}
<1>1. s \in Seq(S) /\ n \in Nat /\ n <= Len(s)
  BY DEF IsSeq
<1> HIDE DEF S
<1>2. PICK t : t = SubSeq(s, 1, n)
  OBVIOUS
<1>3. /\ t \in Seq(S) /\ Len(t) = n
      /\ \A i \in 1 .. n : t[i] = s[i]
  BY <1>1, <1>2
<1>4. IsSeq(t)
  BY <1>3, SeqIs
<1> QED
  BY <1>2, <1>3, <1>4

LEMMA Sliced ==
  ASSUME NEW s, IsSeq(s), NEW m \in Nat, NEW n \in Nat, 1 <= m, m <= n + 1, n <= Len(s)
  PROVE  IsSeq(SubSeq(s, m, n)) /\ Len(SubSeq(s, m, n)) = n - m + 1
<1> DEFINE S == {s[i] : i \in DOMAIN s}
<1>1. s \in Seq(S) /\ Len(s) \in Nat
  BY DEF IsSeq
<1> HIDE DEF S
<1>2. PICK t : t = SubSeq(s, m, n)
  OBVIOUS
<1>3. t \in Seq(S) /\ Len(t) = n - m + 1
  BY <1>1, <1>2
<1>4. IsSeq(t)
  BY <1>3, SeqIs
<1> QED
  BY <1>2, <1>3, <1>4

LEMMA Concatenated ==
  ASSUME NEW s, IsSeq(s), NEW t, IsSeq(t)
  PROVE  IsSeq(s \o t) /\ Len(s \o t) = Len(s) + Len(t)
<1> DEFINE S == {s[i] : i \in DOMAIN s} \cup {t[i] : i \in DOMAIN t}
<1>1. s \in Seq(S) /\ t \in Seq(S)
  BY DEF IsSeq
<1> HIDE DEF S
<1>2. PICK u : u = s \o t
  OBVIOUS
<1>3. u \in Seq(S) /\ Len(u) = Len(s) + Len(t)
  BY <1>1, <1>2
<1> QED
  BY <1>2, <1>3, SeqIs

LEMMA OneIsSeq == ASSUME NEW c PROVE IsSeq(<<c>>) /\ Len(<<c>>) = 1
<1>1. PICK t : t = <<c>>
  OBVIOUS
<1>2. t \in Seq({c}) /\ Len(t) = 1
  BY <1>1
<1> QED
  BY <1>1, <1>2, SeqIs

-----------------------------------------------------------------------------
(* The invariant *)

\* Files are open one for each call of cfg_load_depth, each a level deeper.
IsCall(c, i) ==
  /\ c = [path |-> c.path, depth |-> i - 1, rc |-> c.rc]
  /\ c.rc \in {-1, 0}
  /\ i - 1 <= MaxDepth

StackInv ==
  /\ IsSeq(stack) /\ fds = Len(stack)
  /\ \A i \in 1 .. Len(stack) : IsCall(stack[i], i)
  /\ pc = "idle" <=> Len(stack) = 0

\* Pointers are to var_t's that are there, and arrays have room for what they hold.
ArrayIn(x, n) ==
  /\ x \in [type : {"array"}, items : Seq(1 .. n), cap : Nat \ {0}]
  /\ Len(x.items) <= x.cap

ArraysOf(h) == {a \in 1 .. Len(h) : h[a].type = "array"}

HeapInv ==
  /\ IsSeq(heap)
  /\ \A a \in ArraysOf(heap) : ArrayIn(heap[a], Len(heap))

EnvInv ==
  /\ \A k \in DOMAIN env : env[k] \in Pointers
  /\ shown \in Pointers
  /\ result \in {-1, 0}

\* The locals, with the arrays that are being filled.
IsLine(l) ==
  l = [raw |-> l.raw, text |-> l.text, p |-> l.p, error |-> l.error, mode |-> l.mode,
       key |-> l.key, es |-> l.es, nest |-> l.nest, val |-> l.val, buf |-> l.buf,
       cap |-> l.cap, short |-> l.short]

LineOn(l, h) == IsLine(l) /\ l.val \in 0 .. Len(h) /\ l.nest \in Seq(ArraysOf(h))

LineInv ==
  /\ LineOn(ln, heap)
  /\ pc \in {"items", "push"} => ln.nest # <<>>

CfgInv == StackInv /\ HeapInv /\ EnvInv /\ LineInv

-----------------------------------------------------------------------------
(* The heap only grows *)

Grows(h, g) ==
  /\ Len(h) \in Nat /\ Len(g) \in Nat /\ Len(h) <= Len(g)
  /\ ArraysOf(h) \subseteq ArraysOf(g)

LEMMA ArrayStays ==
  ASSUME NEW n \in Nat, NEW m \in Nat, n <= m, NEW x, ArrayIn(x, n)
  PROVE  ArrayIn(x, m)
<1>1. 1 .. n \subseteq 1 .. m
  OBVIOUS
<1>2. Seq(1 .. n) \subseteq Seq(1 .. m)
  BY <1>1
<1> QED
  BY <1>2 DEF ArrayIn

LEMMA Unmoved ==
  ASSUME HeapInv, heap' = heap
  PROVE  HeapInv' /\ Grows(heap, heap')
BY Sequence DEF HeapInv, Grows, ArraysOf, ArrayIn

\* A new value x at a, which is no array or an empty one.
IsNew(x) == x.type = "array" => x = var_array
PlacedAt(a, x, h) == a \in 0 .. Len(h) /\ (a # Null /\ x.type = "array" => a \in ArraysOf(h))
Adds(x, a) == a = Len(heap) + 1 /\ heap' = Append(heap, x)

LEMMA Added ==
  ASSUME HeapInv, NEW x, IsNew(x), NEW end, Adds(x, end)
  PROVE  HeapInv' /\ Grows(heap, heap') /\ PlacedAt(end, x, heap')
<1>1. /\ IsSeq(heap') /\ Len(heap') = Len(heap) + 1 /\ heap'[Len(heap) + 1] = x
      /\ \A i \in 1 .. Len(heap) : heap'[i] = heap[i]
      /\ Len(heap) \in Nat
  BY Sequence, Appended DEF HeapInv, Adds
<1>2. ASSUME NEW a \in ArraysOf(heap') PROVE ArrayIn(heap'[a], Len(heap'))
  <2>1. CASE a = Len(heap) + 1
    <3>1. heap'[a] = var_array
      BY <1>1, <2>1 DEF ArraysOf, IsNew
    <3>2. InitCap \in Nat \ {0}
      BY CfgAssumption DEF CfgAssumption
    <3>3. PICK e : e = <<>>
      OBVIOUS
    <3>4. e \in Seq(1 .. Len(heap')) /\ Len(e) = 0
      BY <3>3
    <3> QED
      BY <3>1, <3>2, <3>3, <3>4 DEF var_array, ArrayIn
  <2>2. CASE a # Len(heap) + 1
    <3>1. a \in ArraysOf(heap) /\ heap'[a] = heap[a]
      BY <1>1, <2>2 DEF ArraysOf
    <3> QED
      BY <1>1, <3>1, ArrayStays DEF HeapInv
  <2> QED
    BY <2>1, <2>2
<1>3. Grows(heap, heap')
  BY <1>1 DEF Grows, ArraysOf
<1>4. PlacedAt(end, x, heap')
  BY <1>1 DEF PlacedAt, ArraysOf, Adds
<1> QED
  BY <1>1, <1>2, <1>3, <1>4 DEF HeapInv

\* var_push, with room doubled when there is none.
LEMMA Pushed ==
  ASSUME HeapInv, NEW a \in ArraysOf(heap), NEW item \in 1 .. Len(heap),
         heap' = var_push(heap, a, item)
  PROVE  HeapInv' /\ Grows(heap, heap')
<1>1. /\ IsSeq(heap) /\ Len(heap) \in Nat /\ a \in 1 .. Len(heap) /\ ArrayIn(heap[a], Len(heap))
      /\ DOMAIN heap = 1 .. Len(heap)
  BY Sequence DEF HeapInv, ArraysOf
<1>2. PICK n, r, s : n = Len(heap) /\ r = heap[a] /\ s = heap[a].items
  OBVIOUS
<1>3. PICK y : y = [r EXCEPT !.items = Append(s, item)]
  OBVIOUS
<1>4. PICK x : x = [y EXCEPT !.cap = Room(heap, a)]
  OBVIOUS
<1>5. heap' = [heap EXCEPT ![a] = x]
  <2>1. PICK h : h = [heap EXCEPT ![a] = y]
    OBVIOUS
  <2>2. y = [heap[a] EXCEPT !.items = Append(@, item)]
    BY <1>2, <1>3
  <2>3. heap' = [h EXCEPT ![a] = [h[a] EXCEPT !.cap = Room(heap, a)]]
    BY <1>1, <2>1, <2>2 DEF var_push
  <2>4. h[a] = y
    BY <1>1, <2>1
  <2>5. heap' = [h EXCEPT ![a] = x]
    BY <1>4, <2>3, <2>4
  <2> QED
    BY <1>1, <2>1, <2>5
<1>6. ArrayIn(x, Len(heap)) /\ x.type = "array"
  <2>1. /\ r \in [type : {"array"}, items : Seq(1 .. n), cap : Nat \ {0}]
        /\ s \in Seq(1 .. n) /\ r.items = s /\ Len(s) <= r.cap /\ item \in 1 .. n
    BY <1>1, <1>2 DEF ArrayIn
  <2>2. PICK t \in Seq(1 .. n) : t = Append(s, item) /\ Len(t) = Len(s) + 1
    BY <2>1, AppendOne
  <2>3. PICK k \in Nat \ {0} : k = Room(heap, a) /\ Len(t) <= k
    <3>1. PICK m \in Nat \ {0} : m = r.cap
      BY <2>1
    <3>2. Room(heap, a) = IF Len(s) = m THEN 2 * m ELSE m
      BY <1>2, <3>1 DEF Room, Full
    <3>3. Len(s) <= m /\ Len(s) \in Nat
      BY <2>1, <3>1
    <3>4. Room(heap, a) \in Nat \ {0} /\ Len(s) + 1 <= Room(heap, a)
      BY <3>2, <3>3
    <3> QED
      BY <2>2, <3>4
  <2>4. y \in [type : {"array"}, items : Seq(1 .. n), cap : Nat \ {0}] /\ y.items = t
    BY <1>3, <2>1, <2>2
  <2>5. x \in [type : {"array"}, items : Seq(1 .. n), cap : Nat \ {0}] /\ x.items = t /\ x.cap = k
    BY <1>4, <2>3, <2>4
  <2> QED
    BY <1>2, <2>3, <2>5 DEF ArrayIn
<1>7. /\ IsSeq(heap') /\ Len(heap') = Len(heap) /\ heap'[a] = x
      /\ \A i \in 1 .. Len(heap) : i # a => heap'[i] = heap[i]
  <2>1. PICK g, t : g = heap /\ t = heap'
    OBVIOUS
  <2>2. IsSeq(g) /\ a \in 1 .. Len(g) /\ IsPut(t, g, a, x)
    BY <1>1, <1>5, <2>1 DEF IsPut
  <2>3. /\ IsSeq(t) /\ Len(t) = Len(g) /\ t[a] = x
        /\ \A i \in 1 .. Len(g) : i # a => t[i] = g[i]
    BY <2>2, Replaced
  <2> QED
    BY <2>1, <2>3
<1>8. \A i \in ArraysOf(heap') : ArrayIn(heap'[i], Len(heap'))
  BY <1>6, <1>7 DEF HeapInv, ArraysOf
<1>9. Grows(heap, heap')
  BY <1>1, <1>6, <1>7 DEF Grows, ArraysOf
<1> QED
  BY <1>7, <1>8, <1>9 DEF HeapInv

-----------------------------------------------------------------------------
(* The ways a step ends: Go, Return and Open *)

LEMMA MoreArrays ==
  ASSUME Grows(heap, heap'), NEW s \in Seq(ArraysOf(heap))
  PROVE  s \in Seq(ArraysOf(heap'))
<1>1. PICK S, T : S = ArraysOf(heap) /\ T = ArraysOf(heap')
  OBVIOUS
<1>2. S \subseteq T /\ s \in Seq(S)
  BY <1>1 DEF Grows
<1>3. Seq(S) \subseteq Seq(T)
  BY <1>2
<1> QED
  BY <1>1, <1>2, <1>3

LEMMA EnvStays ==
  ASSUME EnvInv, Grows(heap, heap'), UNCHANGED <<env, shown, result>>
  PROVE  EnvInv'
BY DEF EnvInv, Grows, Pointers

\* A step within parse_line: on to at, with the locals l.
LEMMA GoStep ==
  ASSUME CfgInv, HeapInv', Grows(heap, heap'), pc # "idle",
         NEW at, at # "idle", NEW l, NEW tok, Go(at, l, tok),
         LineOn(l, heap'), at \in {"items", "push"} => l.nest # <<>>
  PROVE  CfgInv'
<1>1. StackInv'
  BY DEF CfgInv, StackInv, Go, kept
<1>2. EnvInv'
  BY EnvStays DEF CfgInv, Go, kept
<1>3. PICK m : m = ln'
  OBVIOUS
<1>4. IsLine(m) /\ m.val = l.val /\ m.nest = l.nest
  BY <1>3 DEF Go, LineOn, IsLine
<1>5. LineInv'
  BY <1>3, <1>4 DEF LineInv, LineOn, Go
<1> QED
  BY <1>1, <1>2, <1>5 DEF CfgInv

LEMMA NoLineOn ==
  ASSUME NEW h, Len(h) \in Nat
  PROVE  LineOn(NoLine, h) /\ NoLine.nest = <<>>
<1>1. IsLine(NoLine) /\ NoLine.val = 0
  BY DEF IsLine, NoLine, Null
<1>2. NoLine.nest = <<>>
  BY DEF NoLine
<1>3. PICK e : e = <<>>
  OBVIOUS
<1>4. e \in Seq(ArraysOf(h))
  BY <1>3
<1> QED
  BY <1>1, <1>2, <1>3, <1>4 DEF LineOn

\* parse_line returns to cfg_load_depth.
LEMMA ReturnStep ==
  ASSUME CfgInv, HeapInv', Grows(heap, heap'), EnvInv', pc # "idle", NEW bad, Return(bad)
  PROVE  CfgInv'
<1>1. PICK s, t, n : s = stack /\ t = stack' /\ n = Len(s)
  OBVIOUS
<1>2. IsSeq(s) /\ n \in 1 .. Len(s) /\ IsCall(s[n], n)
  BY <1>1, Sequence DEF CfgInv, StackInv
<1>3. PICK e : e = [s[n] EXCEPT !.rc = IF bad THEN -1 ELSE s[n].rc]
  OBVIOUS
<1>4. IsPut(t, s, n, e)
  BY <1>1, <1>3 DEF Return, RcAfter, IsPut
<1>5. IsCall(e, n)
  BY <1>2, <1>3 DEF IsCall
<1>6. /\ IsSeq(t) /\ Len(t) = Len(s) /\ t[n] = e
      /\ \A i \in 1 .. Len(s) : i # n => t[i] = s[i]
  BY <1>2, <1>4, Replaced
<1>7. StackInv'
  BY <1>1, <1>2, <1>5, <1>6 DEF CfgInv, StackInv, Return
<1>8. LineInv'
  BY NoLineOn DEF LineInv, Return, Grows
<1> QED
  BY <1>7, <1>8 DEF CfgInv

\* cfg_load_depth opens a file, a level below the one it was called from.
LEMMA OpenStep ==
  ASSUME CfgInv, NEW path, NEW depth, depth = Len(stack), Open(path, depth)
  PROVE  CfgInv'
<1>1. HeapInv' /\ Grows(heap, heap')
  BY Unmoved DEF CfgInv, Open, Keep
<1>2. PICK s, t, e : /\ s = stack /\ t = stack'
                     /\ e = [path |-> path, depth |-> depth, rc |-> 0]
  OBVIOUS
<1>3. IsSeq(s) /\ t = Append(s, e) /\ Len(s) \in Nat
  BY <1>2, Sequence DEF CfgInv, StackInv, Open
<1>4. /\ IsSeq(t) /\ Len(t) = Len(s) + 1 /\ t[Len(s) + 1] = e
      /\ \A i \in 1 .. Len(s) : t[i] = s[i]
  BY <1>3, Appended
<1>5. IsCall(e, Len(s) + 1)
  BY <1>2, <1>3 DEF IsCall, Open, CanOpen
<1>6. StackInv'
  BY <1>2, <1>3, <1>4, <1>5 DEF CfgInv, StackInv, Open
<1>7. EnvInv'
  BY <1>1, EnvStays DEF CfgInv, Open
<1>8. LineInv'
  BY <1>1, NoLineOn DEF LineInv, Open, Grows
<1> QED
  BY <1>1, <1>6, <1>7, <1>8 DEF CfgInv

-----------------------------------------------------------------------------
(* Files *)

LEMMA Loads ==
  ASSUME CfgInv, NEW path, kfl_cfg_load(path)
  PROVE  CfgInv'
<1>1. CASE Open(path, 0)
  BY <1>1, OpenStep DEF CfgInv, StackInv, kfl_cfg_load
<1>2. CASE result' = -1 /\ UNCHANGED <<env, heap, stack, fds, pc, ln, shown, budget, spare>>
  <2>1. HeapInv' /\ Grows(heap, heap')
    BY <1>2, Unmoved DEF CfgInv
  <2>2. StackInv' /\ LineInv' /\ EnvInv'
    BY <1>2 DEF CfgInv, StackInv, LineInv, EnvInv, Pointers
  <2> QED
    BY <2>1, <2>2 DEF CfgInv
<1> QED
  BY <1>1, <1>2 DEF kfl_cfg_load

LEMMA Reads ==
  ASSUME CfgInv, NEW raw, ReadLine(raw)
  PROVE  CfgInv'
<1>1. HeapInv' /\ Grows(heap, heap')
  BY Unmoved DEF CfgInv, ReadLine
<1>2. StackInv' /\ EnvInv'
  BY <1>1, EnvStays DEF CfgInv, StackInv, ReadLine
<1>3. LineInv'
  <2>1. PICK l, x : l = NoLine /\ x = trim(raw)
    OBVIOUS
  <2>2. LineOn(l, heap')
    BY <1>1, <2>1, NoLineOn DEF Grows
  <2>3. ln' = [l EXCEPT !.raw = raw, !.text = x]
    BY <2>1 DEF ReadLine
  <2>4. PICK m : m = ln'
    OBVIOUS
  <2>5. IsLine(m) /\ m.val = l.val /\ m.nest = l.nest
    BY <2>2, <2>3, <2>4 DEF LineOn, IsLine
  <2> QED
    BY <2>2, <2>4, <2>5 DEF LineInv, LineOn, ReadLine
<1> QED
  BY <1>1, <1>2, <1>3 DEF CfgInv

LEMMA Skips ==
  ASSUME CfgInv, NEW raw, SkipLine(raw)
  PROVE  CfgInv'
<1>1. HeapInv' /\ Grows(heap, heap')
  BY Unmoved DEF CfgInv, SkipLine
<1>2. PICK s, t, n : s = stack /\ t = stack' /\ n = Len(s)
  OBVIOUS
<1>3. IsSeq(s) /\ n \in 1 .. Len(s) /\ IsCall(s[n], n)
  BY <1>2, Sequence DEF CfgInv, StackInv, SkipLine
<1>4. PICK e : e = [s[n] EXCEPT !.rc = -1]
  OBVIOUS
<1>5. IsPut(t, s, n, e)
  BY <1>2, <1>4 DEF SkipLine, IsPut
<1>6. IsCall(e, n)
  BY <1>3, <1>4 DEF IsCall
<1>7. /\ IsSeq(t) /\ Len(t) = Len(s) /\ t[n] = e
      /\ \A i \in 1 .. Len(s) : i # n => t[i] = s[i]
  BY <1>3, <1>5, Replaced
<1>8. StackInv'
  BY <1>2, <1>3, <1>6, <1>7 DEF CfgInv, StackInv, SkipLine
<1>9. EnvInv' /\ LineInv'
  BY <1>1, EnvStays DEF CfgInv, LineInv, SkipLine
<1> QED
  BY <1>1, <1>8, <1>9 DEF CfgInv

\* The call that returns is the last one, and the one before it goes on.
LEMMA Closes ==
  ASSUME CfgInv, EndOfFile
  PROVE  CfgInv'
<1>1. HeapInv' /\ Grows(heap, heap')
  BY Unmoved DEF CfgInv, EndOfFile
<1>2. LineInv'
  BY DEF CfgInv, LineInv, EndOfFile
<1>3. PICK s, t, n : s = stack /\ t = stack' /\ n = Len(s) - 1
  OBVIOUS
<1>4. IsSeq(s) /\ n \in Nat /\ Len(s) = n + 1 /\ \A i \in 1 .. Len(s) : IsCall(s[i], i)
  BY <1>3, Sequence DEF CfgInv, StackInv, EndOfFile
<1>5. Top.rc \in {-1, 0}
  <2>1. Len(s) \in 1 .. Len(s) /\ IsCall(s[Len(s)], Len(s))
    BY <1>4
  <2> QED
    BY <1>3, <2>1 DEF Top, IsCall
<1>6. CASE n = 0
  <2>1. t = <<>> /\ result' = Top.rc /\ pc' = "idle" /\ fds' = 0
    BY <1>3, <1>4, <1>6 DEF EndOfFile, CfgInv, StackInv
  <2>2. IsSeq(t) /\ Len(t) = 0
    BY <2>1, NoneIsSeq, NoLength
  <2>3. StackInv'
    BY <1>3, <2>1, <2>2 DEF StackInv
  <2>4. EnvInv'
    BY <1>5, <2>1 DEF CfgInv, EnvInv, Pointers, EndOfFile
  <2> QED
    BY <1>1, <1>2, <2>3, <2>4 DEF CfgInv
<1>7. CASE n > 0
  <2>1. PICK u : u = SubSeq(s, 1, n)
    OBVIOUS
  <2>2. IsSeq(u) /\ Len(u) = n /\ \A i \in 1 .. n : u[i] = s[i]
    BY <1>4, <2>1, Shortened
  <2>3. PICK e : e = [u[n] EXCEPT !.rc = IF Top.rc < 0 THEN -1 ELSE u[n].rc]
    OBVIOUS
  <2>4. IsPut(t, u, n, e)
    BY <1>3, <1>4, <1>7, <2>1, <2>3 DEF EndOfFile, RcAfter, IsPut
  <2>5. IsCall(e, n)
    BY <1>4, <1>7, <2>2, <2>3 DEF IsCall
  <2>6. /\ IsSeq(t) /\ Len(t) = n /\ t[n] = e
        /\ \A i \in 1 .. n : i # n => t[i] = u[i]
    BY <1>4, <1>7, <2>2, <2>4, Replaced
  <2>7. fds' = n /\ pc' = "file"
    BY <1>3, <1>4, <1>7 DEF EndOfFile, CfgInv, StackInv
  <2>8. \A i \in 1 .. n : IsCall(t[i], i)
    BY <1>4, <2>2, <2>5, <2>6
  <2>9. StackInv'
    BY <1>3, <1>7, <2>6, <2>7, <2>8 DEF StackInv
  <2>10. EnvInv'
    BY <1>1, <1>3, <1>4, <1>7, EnvStays DEF CfgInv, EndOfFile
  <2> QED
    BY <1>1, <1>2, <2>9, <2>10 DEF CfgInv
<1> QED
  BY <1>4, <1>6, <1>7

-----------------------------------------------------------------------------
(* Allocation *)

LEMMA Kept ==
  ASSUME HeapInv, Keep
  PROVE  HeapInv' /\ Grows(heap, heap')
BY Unmoved DEF Keep

LEMMA Allocates ==
  ASSUME HeapInv, NEW a \in New, NEW x, IsNew(x), Alloc(x, a)
  PROVE  HeapInv' /\ Grows(heap, heap') /\ PlacedAt(a, x, heap')
<1>1. Len(heap) \in Nat
  BY Sequence DEF HeapInv
<1>2. CASE a # Null /\ heap' = Append(heap, x)
  <2>1. Adds(x, a)
    BY <1>1, <1>2 DEF Adds, New
  <2> QED
    BY <2>1, Added
<1>3. CASE a = Null /\ UNCHANGED heap
  BY <1>1, <1>3, Unmoved DEF PlacedAt, Null
<1> QED
  BY <1>2, <1>3 DEF Alloc

LEMMA AllocatesStr ==
  ASSUME HeapInv, NEW a \in New, NEW s, AllocStr(s, a)
  PROVE  HeapInv' /\ Grows(heap, heap') /\ a \in 0 .. Len(heap')
<1>1. IsNew(var_str(s)) /\ IsNew(var_str(NoText)) /\ var_str(s).type = "str"
  BY DEF var_str, IsNew
<1>2. CASE Alloc(var_str(s), a)
  <2>1. PICK x : x = var_str(s)
    OBVIOUS
  <2> QED
    BY <1>1, <1>2, <2>1, Allocates DEF PlacedAt
<1>3. CASE a # Null /\ heap' = Append(heap, var_str(NoText))
  <2>1. PICK x : x = var_str(NoText)
    OBVIOUS
  <2>2. IsNew(x) /\ Adds(x, a)
    BY <1>1, <1>3, <2>1 DEF Adds, New
  <2>3. HeapInv' /\ Grows(heap, heap') /\ PlacedAt(a, x, heap')
    BY <2>2, Added
  <2> QED
    BY <2>3 DEF PlacedAt
<1> QED
  BY <1>2, <1>3 DEF AllocStr

-----------------------------------------------------------------------------
(* parse_line: what kind of line it is *)

LEMMA ReturnsAtOnce ==
  ASSUME CfgInv, pc # "idle", NEW bad, Nothing(bad)
  PROVE  CfgInv'
<1>1. HeapInv' /\ Grows(heap, heap')
  BY Kept DEF CfgInv, Nothing
<1>2. EnvInv'
  BY <1>1, EnvStays DEF CfgInv, Nothing, Return
<1> QED
  BY <1>1, <1>2, ReturnStep DEF Nothing

\* Only locals change that are no pointers.
LEMMA GoesOn ==
  ASSUME CfgInv, pc # "idle", UNCHANGED heap,
         NEW at, at \notin {"idle", "items", "push"}, NEW l, NEW tok, Go(at, l, tok),
         IsLine(l), l.val = ln.val, l.nest = ln.nest
  PROVE  CfgInv'
<1>1. HeapInv' /\ Grows(heap, heap')
  BY Unmoved DEF CfgInv
<1>2. LineOn(l, heap')
  BY DEF CfgInv, LineInv, LineOn
<1> QED
  BY <1>1, <1>2, GoStep

LEMMA Includes ==
  ASSUME CfgInv, pc = "line", NEW tok, Include(tok)
  PROVE  CfgInv'
<1>1. PICK path, depth : (Open(path, depth) /\ depth = Top.depth + 1) \/ Nothing(TRUE)
  BY DEF Include, Deeper
<1>2. CASE Nothing(TRUE)
  BY <1>2, ReturnsAtOnce
<1>3. CASE Open(path, depth) /\ depth = Top.depth + 1
  <2>1. PICK s, n : s = stack /\ n = Len(s)
    OBVIOUS
  <2>2. n \in 1 .. Len(s) /\ IsCall(s[n], n)
    BY <2>1, Sequence DEF CfgInv, StackInv
  <2>3. depth = Len(stack)
    BY <1>3, <2>1, <2>2 DEF Top, IsCall
  <2> QED
    BY <1>3, <2>3, OpenStep
<1> QED
  BY <1>1, <1>2, <1>3

LEMMA Displays ==
  ASSUME CfgInv, pc = "line", NEW tok, Display(tok)
  PROVE  CfgInv'
<1>1. PICK l : l = [ln EXCEPT !.mode = "display", !.p = tok.p]
  OBVIOUS
<1>2. IsLine(l) /\ l.val = ln.val /\ l.nest = ln.nest
  BY <1>1 DEF CfgInv, LineInv, LineOn, IsLine
<1> QED
  BY <1>1, <1>2, GoesOn DEF Display, Keep

LEMMA KeyLines ==
  ASSUME CfgInv, pc = "line", NEW tok, NEW op,
         KeyEq(tok, op) \/ KeyPlusEq(tok, op) \/ NoOperator(op)
  PROVE  CfgInv'
<1>1. CASE KeyEq(tok, op)
  <2>1. PICK l : l = [ln EXCEPT !.mode = "set", !.key = tok.val, !.p = op.p]
    OBVIOUS
  <2>2. IsLine(l) /\ l.val = ln.val /\ l.nest = ln.nest
    BY <2>1 DEF CfgInv, LineInv, LineOn, IsLine
  <2> QED
    BY <1>1, <2>1, <2>2, GoesOn DEF KeyEq, Keep
<1>2. CASE KeyPlusEq(tok, op)
  <2>1. PICK es : Go("rhs", [ln EXCEPT !.mode = "append", !.key = tok.val,
                                       !.p = op.p, !.es = es], op)
    BY <1>2 DEF KeyPlusEq
  <2>2. PICK l : l = [ln EXCEPT !.mode = "append", !.key = tok.val, !.p = op.p, !.es = es]
    OBVIOUS
  <2>3. IsLine(l) /\ l.val = ln.val /\ l.nest = ln.nest
    BY <2>2 DEF CfgInv, LineInv, LineOn, IsLine
  <2> QED
    BY <1>2, <2>1, <2>2, <2>3, GoesOn DEF KeyPlusEq
<1>3. CASE NoOperator(op)
  BY <1>3, ReturnsAtOnce DEF NoOperator
<1> QED
  BY <1>1, <1>2, <1>3

LEMMA ParsesLine ==
  ASSUME CfgInv, ParseLine
  PROVE  CfgInv'
<1>1. PICK tok : \/ BlankLine(tok) \/ NoKey(tok) \/ Include(tok) \/ Display(tok)
                 \/ \E op : KeyEq(tok, op) \/ KeyPlusEq(tok, op) \/ NoOperator(op)
  BY DEF ParseLine
<1>2. pc = "line"
  BY DEF ParseLine
<1>3. CASE BlankLine(tok) \/ NoKey(tok)
  BY <1>2, <1>3, ReturnsAtOnce DEF BlankLine, NoKey
<1> QED
  BY <1>1, <1>2, <1>3, Includes, Displays, KeyLines

-----------------------------------------------------------------------------
(* eval_atom *)

LEMMA Gets ==
  ASSUME HeapInv, EnvInv, NEW name, NEW i
  PROVE  dict_get(name) \in 0 .. Len(heap) /\ var_get(heap, dict_get(name), i) \in 0 .. Len(heap)
<1>1. PICK n \in Nat : n = Len(heap)
  BY Sequence DEF HeapInv
<1>2. PICK a \in 0 .. n : a = dict_get(name)
  BY <1>1 DEF dict_get, EnvInv, Pointers, Null
<1>3. var_get(heap, a, i) \in 0 .. n
  <2>1. CASE i \in 0 .. var_len(heap, a) - 1
    <3>1. IsArray(heap, a)
      BY <2>1 DEF var_len
    <3>2. a \in ArraysOf(heap)
      BY <1>1, <3>1 DEF IsArray, ArraysOf, Null
    <3>3. PICK s \in Seq(1 .. n) : s = heap[a].items
      BY <1>1, <3>2 DEF HeapInv, ArrayIn
    <3>4. i + 1 \in 1 .. Len(s)
      BY <2>1, <3>1, <3>3 DEF var_len
    <3>5. s[i + 1] \in 1 .. n
      BY <3>4
    <3> QED
      BY <2>1, <3>3, <3>5 DEF var_get
  <2>2. CASE ~ i \in 0 .. var_len(heap, a) - 1
    BY <2>2 DEF var_get, Null
  <2> QED
    BY <2>1, <2>2
<1> QED
  BY <1>1, <1>2, <1>3

LEMMA Yields ==
  ASSUME CfgInv, pc # "idle", HeapInv', Grows(heap, heap'),
         NEW a \in 0 .. Len(heap'), NEW p, NEW tok, Yield(a, p, tok)
  PROVE  CfgInv'
<1>1. PICK l : l = [ln EXCEPT !.val = a, !.p = p]
  OBVIOUS
<1>2. IsLine(l) /\ l.val = a /\ l.nest = ln.nest
  BY <1>1 DEF CfgInv, LineInv, LineOn, IsLine
<1>3. LineOn(l, heap')
  BY <1>2, MoreArrays DEF CfgInv, LineInv, LineOn
<1>4. PICK at : /\ at = (IF ln.nest = <<>> THEN "value" ELSE "push")
                /\ Go(at, l, tok)
  BY <1>1 DEF Yield
<1>5. at # "idle" /\ (at \in {"items", "push"} => l.nest # <<>>)
  BY <1>2, <1>4
<1> QED
  BY <1>3, <1>4, <1>5, GoStep

\* A new value that is no array.
LEMMA YieldsNew ==
  ASSUME CfgInv, pc # "idle", NEW a \in New, NEW x, x.type # "array", Alloc(x, a),
         NEW p, NEW tok, Yield(a, p, tok)
  PROVE  CfgInv'
<1>1. IsNew(x)
  BY DEF IsNew
<1>2. HeapInv' /\ Grows(heap, heap') /\ PlacedAt(a, x, heap')
  BY <1>1, Allocates DEF CfgInv
<1> QED
  BY <1>2, Yields DEF PlacedAt

LEMMA Literals ==
  ASSUME CfgInv, pc # "idle", NEW tok, Literal(tok)
  PROVE  CfgInv'
<1>1. PICK a \in New :
        /\ \/ AllocStr(tok.val, a)
           \/ \E x \in {var_int(tok.val), var_float(tok.val), var_bool(TRUE), var_bool(FALSE),
                        var_null} : Alloc(x, a)
        /\ Yield(a, tok.p, tok)
  BY DEF Literal
<1>2. CASE AllocStr(tok.val, a)
  <2>1. PICK s : s = tok.val
    OBVIOUS
  <2>2. HeapInv' /\ Grows(heap, heap') /\ a \in 0 .. Len(heap')
    BY <1>2, <2>1, AllocatesStr DEF CfgInv
  <2> QED
    BY <1>1, <2>2, Yields
<1>3. ASSUME NEW x \in {var_int(tok.val), var_float(tok.val), var_bool(TRUE), var_bool(FALSE),
                        var_null}, Alloc(x, a)
      PROVE  CfgInv'
  <2>1. x.type # "array"
    BY DEF var_int, var_float, var_bool, var_null
  <2> QED
    BY <1>1, <1>3, <2>1, YieldsNew
<1> QED
  BY <1>1, <1>2, <1>3

LEMMA NullMade ==
  ASSUME CfgInv, pc # "idle", NEW a \in New, Alloc(var_null, a), NEW p, NEW tok, Yield(a, p, tok)
  PROVE  CfgInv'
<1>1. PICK x : x = var_null
  OBVIOUS
<1>2. x.type # "array"
  BY <1>1 DEF var_null
<1> QED
  BY <1>1, <1>2, YieldsNew

LEMMA ValueOrNull ==
  ASSUME CfgInv, pc # "idle", NEW a \in 0 .. Len(heap), NEW p, NEW tok, OrNull(a, p, tok)
  PROVE  CfgInv'
<1>1. CASE Keep /\ Yield(a, p, tok)
  <2>1. HeapInv' /\ Grows(heap, heap')
    BY <1>1, Kept DEF CfgInv
  <2>2. a \in 0 .. Len(heap')
    BY <1>1 DEF Keep
  <2> QED
    BY <1>1, <2>1, <2>2, Yields
<1>2. CASE \E x \in New : Alloc(var_null, x) /\ Yield(x, p, tok)
  BY <1>2, NullMade
<1> QED
  BY <1>1, <1>2 DEF OrNull

LEMMA NamedValues ==
  ASSUME CfgInv, pc # "idle", NEW tok, NEW next, Reference(tok, next) \/ Indexed(tok, next)
  PROVE  CfgInv'
<1>1. CASE Reference(tok, next)
  <2>1. PICK a : a = dict_get(tok.val) /\ OrNull(a, tok.p, next)
    BY <1>1 DEF Reference
  <2>2. a \in 0 .. Len(heap)
    BY <2>1, Gets DEF CfgInv
  <2> QED
    BY <2>1, <2>2, ValueOrNull
<1>2. CASE Indexed(tok, next)
  <2>1. PICK idx, rb, e : OrNull(IF rb.type # "rbracket" \/ idx.type # "int" THEN Null
                                 ELSE var_get(heap, dict_get(tok.val), idx.val), rb.p, e)
    BY <1>2 DEF Indexed
  <2>2. PICK a : /\ a = (IF rb.type # "rbracket" \/ idx.type # "int" THEN Null
                         ELSE var_get(heap, dict_get(tok.val), idx.val))
                 /\ OrNull(a, rb.p, e)
    BY <2>1
  <2>3. Len(heap) \in Nat
    BY Sequence DEF CfgInv, HeapInv
  <2>4. var_get(heap, dict_get(tok.val), idx.val) \in 0 .. Len(heap)
    BY Gets DEF CfgInv
  <2>5. a \in 0 .. Len(heap)
    BY <2>2, <2>3, <2>4 DEF Null
  <2> QED
    BY <2>2, <2>5, ValueOrNull
<1> QED
  BY <1>1, <1>2

LEMMA Begins ==
  ASSUME CfgInv, pc # "idle", NEW tok, BeginArray(tok)
  PROVE  CfgInv'
<1>1. PICK a \in New : 
        /\ Alloc(var_array, a)
        /\ Go(IF a = Null THEN "no_array" ELSE "items",
              [ln EXCEPT !.nest = IF a = Null THEN @ ELSE Append(@, a), !.p = tok.p], tok)
  BY DEF BeginArray
<1>2. PICK x : x = var_array
  OBVIOUS
<1>3. HeapInv' /\ Grows(heap, heap') /\ PlacedAt(a, x, heap')
  BY <1>1, <1>2, Allocates DEF CfgInv, IsNew
<1>4. PICK A : A = ArraysOf(heap')
  OBVIOUS
<1>5. PICK s \in Seq(A) : s = ln.nest
  BY <1>3, <1>4, MoreArrays DEF CfgInv, LineInv, LineOn
<1>6. PICK t : t = (IF a = Null THEN s ELSE Append(s, a))
  OBVIOUS
<1>7. t \in Seq(A) /\ (a # Null => t # <<>>)
  <2>1. CASE a = Null
    BY <1>6, <2>1
  <2>2. CASE a # Null
    <3>1. a \in A
      BY <1>2, <1>3, <1>4, <2>2 DEF PlacedAt, var_array
    <3>2. t = Append(s, a)
      BY <1>6, <2>2
    <3>3. t \in Seq(A) /\ Len(t) = Len(s) + 1 /\ Len(s) \in Nat
      BY <3>1, <3>2, AppendOne
    <3>4. t # <<>>
      BY <3>3, NoLength
    <3> QED
      BY <3>3, <3>4
  <2> QED
    BY <2>1, <2>2
<1>8. PICK l : l = [ln EXCEPT !.nest = t, !.p = tok.p]
  OBVIOUS
<1>9. IsLine(l) /\ l.val = ln.val /\ l.nest = t
  BY <1>8 DEF CfgInv, LineInv, LineOn, IsLine
<1>10. LineOn(l, heap')
  BY <1>3, <1>4, <1>7, <1>9 DEF CfgInv, LineInv, LineOn, Grows
<1>11. PICK at : at = (IF a = Null THEN "no_array" ELSE "items") /\ Go(at, l, tok)
  BY <1>1, <1>5, <1>6, <1>8
<1>12. at # "idle" /\ (at \in {"items", "push"} => l.nest # <<>>)
  BY <1>7, <1>9, <1>11
<1> QED
  BY <1>3, <1>10, <1>11, <1>12, GoStep

LEMMA NoAtoms ==
  ASSUME CfgInv, pc # "idle", NEW tok, NoAtom(tok)
  PROVE  CfgInv'
BY NullMade DEF NoAtom

LEMMA ReadsAtom ==
  ASSUME CfgInv, ReadAtom
  PROVE  CfgInv'
<1>1. PICK tok : \/ Literal(tok) \/ BeginArray(tok) \/ NoAtom(tok)
                 \/ \E next : Reference(tok, next) \/ Indexed(tok, next)
  BY DEF ReadAtom
<1>2. pc # "idle"
  BY DEF ReadAtom
<1> QED
  BY <1>1, <1>2, Literals, Begins, NoAtoms, NamedValues

LEMMA NoArrays ==
  ASSUME CfgInv, NoArray
  PROVE  CfgInv'
BY NullMade DEF NoArray

\* The innermost array is closed: it is the value, an item of the one around it.
LEMMA ClosesArray ==
  ASSUME CfgInv, pc = "items", Keep, NEW p, NEW tok,
         Go(IF Len(ln.nest) = 1 THEN "value" ELSE "push",
            [ln EXCEPT !.val = ln.nest[Len(ln.nest)],
                       !.nest = SubSeq(@, 1, Len(ln.nest) - 1), !.p = p], tok)
  PROVE  CfgInv'
<1>1. HeapInv' /\ Grows(heap, heap')
  BY Kept DEF CfgInv
<1>2. PICK A, s, n : A = ArraysOf(heap) /\ s = ln.nest /\ n = Len(s)
  OBVIOUS
<1>3. s \in Seq(A) /\ n \in Nat \ {0} /\ Len(s) = n
  <2>1. s \in Seq(A) /\ s # <<>>
    BY <1>2 DEF CfgInv, LineInv, LineOn
  <2> QED
    BY <1>2, <2>1
<1>4. s[n] \in A /\ A \subseteq 1 .. Len(heap)
  BY <1>2, <1>3 DEF ArraysOf
<1>5. PICK t : t = SubSeq(s, 1, n - 1)
  OBVIOUS
<1>6. t \in Seq(A) /\ Len(t) = n - 1
  BY <1>3, <1>5
<1>7. PICK l : l = [ln EXCEPT !.val = s[n], !.nest = t, !.p = p]
  OBVIOUS
<1>8. IsLine(l) /\ l.val = s[n] /\ l.nest = t
  BY <1>7 DEF CfgInv, LineInv, LineOn, IsLine
<1>9. LineOn(l, heap')
  <2>1. l.val \in 1 .. Len(heap) /\ Len(heap) \in Nat /\ Len(heap') = Len(heap)
    BY <1>1, <1>4, <1>8 DEF Keep, Grows
  <2>2. l.nest \in Seq(ArraysOf(heap))
    BY <1>2, <1>6, <1>8
  <2>3. l.nest \in Seq(ArraysOf(heap'))
    BY <1>1, <2>2, MoreArrays
  <2> QED
    BY <1>8, <2>1, <2>3 DEF LineOn
<1>10. PICK at : at = (IF n = 1 THEN "value" ELSE "push") /\ Go(at, l, tok)
  BY <1>2, <1>5, <1>7
<1>11. at # "idle" /\ (at \in {"items", "push"} => l.nest # <<>>)
  <2>1. n # 1 => Len(t) # 0
    BY <1>3, <1>6
  <2> QED
    BY <1>8, <1>10, <2>1, NoLength
<1> QED
  BY <1>1, <1>9, <1>10, <1>11, GoStep

LEMMA ReadsItems ==
  ASSUME CfgInv, Items
  PROVE  CfgInv'
<1>1. pc = "items" /\ Keep /\ HeapInv' /\ Grows(heap, heap')
  BY Kept DEF CfgInv, Items
<1>2. PICK tok, p :
        \/ Go("atom", ln, tok)
        \/ Go("items", [ln EXCEPT !.p = tok.p], tok)
        \/ Go("items", [ln EXCEPT !.p = tok.p, !.error = TRUE], tok)
        \/ Go(IF Len(ln.nest) = 1 THEN "value" ELSE "push",
              [ln EXCEPT !.val = ln.nest[Len(ln.nest)],
                         !.nest = SubSeq(@, 1, Len(ln.nest) - 1), !.p = p], tok)
  BY DEF Items, Past
<1>3. LineOn(ln, heap') /\ ln.nest # <<>>
  BY <1>1, MoreArrays DEF CfgInv, LineInv, LineOn, Keep
<1>4. CASE Go("atom", ln, tok)
  <2>1. PICK l : l = ln
    OBVIOUS
  <2> QED
    BY <1>1, <1>3, <1>4, <2>1, GoStep
<1>5. ASSUME NEW l, l = [ln EXCEPT !.p = tok.p] \/ l = [ln EXCEPT !.p = tok.p, !.error = TRUE],
             Go("items", l, tok)
      PROVE  CfgInv'
  <2>1. IsLine(l) /\ l.val = ln.val /\ l.nest = ln.nest
    BY <1>5 DEF CfgInv, LineInv, LineOn, IsLine
  <2>2. LineOn(l, heap') /\ l.nest # <<>>
    BY <1>3, <2>1 DEF LineOn
  <2> QED
    BY <1>1, <1>5, <2>2, GoStep
<1> QED
  BY <1>1, <1>2, <1>4, <1>5, ClosesArray

LEMMA Pushes ==
  ASSUME CfgInv, Push
  PROVE  CfgInv'
<1>1. PICK A, s, n : A = ArraysOf(heap) /\ s = ln.nest /\ n = Len(s)
  OBVIOUS
<1>2. s \in Seq(A) /\ n \in Nat \ {0} /\ Len(s) = n
  <2>1. s \in Seq(A) /\ s # <<>>
    BY <1>1 DEF CfgInv, LineInv, LineOn, Push
  <2> QED
    BY <1>1, <2>1
<1>3. PICK a \in ArraysOf(heap) : a = ln.nest[Len(ln.nest)]
  BY <1>1, <1>2
<1>4. PICK v \in 0 .. Len(heap) : v = ln.val
  BY DEF CfgInv, LineInv, LineOn
<1>5. HeapInv' /\ Grows(heap, heap')
  <2>1. CASE v # Null /\ heap' = var_push(heap, a, v)
    <3>1. v \in 1 .. Len(heap)
      BY <2>1, Sequence DEF CfgInv, HeapInv, Null
    <3> QED
      BY <2>1, <3>1, Pushed DEF CfgInv
  <2>2. CASE UNCHANGED heap
    BY <2>2, Unmoved DEF CfgInv
  <2> QED
    BY <1>3, <1>4, <2>1, <2>2 DEF Push, Keep
<1>6. LineOn(ln, heap') /\ ln.nest # <<>>
  BY <1>5, MoreArrays DEF CfgInv, LineInv, LineOn, Push, Grows
<1>7. PICK l : l = ln
  OBVIOUS
<1>8. pc # "idle" /\ Go("items", l, NoTok)
  BY <1>7 DEF Push
<1> QED
  BY <1>5, <1>6, <1>7, <1>8, GoStep

LEMMA EvalsAtom ==
  ASSUME CfgInv, EvalAtom
  PROVE  CfgInv'
BY ReadsAtom, NoArrays, ReadsItems, Pushes DEF EvalAtom

-----------------------------------------------------------------------------
(* eval_rhs *)

\* The value of the line is at a.
LEMMA ValueSet ==
  ASSUME CfgInv, pc # "idle", HeapInv', Grows(heap, heap'), NEW a \in 0 .. Len(heap'),
         NEW at, at \notin {"idle", "items", "push"}, NEW l, NEW tok, Go(at, l, tok),
         IsLine(l), l.val = a, l.nest = ln.nest
  PROVE  CfgInv'
<1>1. LineOn(l, heap')
  BY MoreArrays DEF CfgInv, LineInv, LineOn
<1> QED
  BY <1>1, GoStep

LEMMA Stores ==
  ASSUME CfgInv, pc # "idle", NEW a \in 0 .. Len(heap), NEW tok, ToStore(a, tok)
  PROVE  CfgInv'
<1>1. ASSUME NEW x \in 0 .. Len(heap'), HeapInv', Grows(heap, heap'),
             NEW l, l = [ln EXCEPT !.val = x], Go("store", l, tok)
      PROVE  CfgInv'
  <2>1. IsLine(l) /\ l.val = x /\ l.nest = ln.nest
    BY <1>1 DEF CfgInv, LineInv, LineOn, IsLine
  <2> QED
    BY <1>1, <2>1, ValueSet
<1>2. CASE Keep /\ Go("store", [ln EXCEPT !.val = a], tok)
  <2>1. HeapInv' /\ Grows(heap, heap') /\ a \in 0 .. Len(heap')
    BY <1>2, Kept DEF CfgInv, Keep
  <2> QED
    BY <1>1, <1>2, <2>1
<1>3. CASE \E x \in New : Alloc(var_null, x) /\ Go("store", [ln EXCEPT !.val = x], tok)
  <2>1. PICK x \in New : Alloc(var_null, x) /\ Go("store", [ln EXCEPT !.val = x], tok)
    BY <1>3
  <2>2. PICK v : v = var_null
    OBVIOUS
  <2>3. HeapInv' /\ Grows(heap, heap') /\ PlacedAt(x, v, heap')
    BY <2>1, <2>2, Allocates DEF CfgInv, IsNew, var_null
  <2> QED
    BY <1>1, <2>1, <2>3 DEF PlacedAt
<1> QED
  BY <1>2, <1>3 DEF ToStore

LEMMA StoresNothing ==
  ASSUME CfgInv, pc # "idle", NEW tok, ToStore(Null, tok)
  PROVE  CfgInv'
<1>1. PICK a \in 0 .. Len(heap) : a = Null
  BY Sequence DEF CfgInv, HeapInv, Null
<1> QED
  BY <1>1, Stores

LEMMA StoresValue ==
  ASSUME CfgInv, pc # "idle", NEW tok, ToStore(ln.val, tok)
  PROVE  CfgInv'
<1>1. PICK a \in 0 .. Len(heap) : a = ln.val
  BY DEF CfgInv, LineInv, LineOn
<1> QED
  BY <1>1, Stores

\* On with the locals as they are.
LEMMA GoesAsIs ==
  ASSUME CfgInv, pc # "idle", UNCHANGED heap,
         NEW at, at \notin {"idle", "items", "push"}, NEW tok, Go(at, ln, tok)
  PROVE  CfgInv'
<1>1. PICK l : l = ln
  OBVIOUS
<1>2. IsLine(l)
  BY <1>1 DEF CfgInv, LineInv, LineOn
<1> QED
  BY <1>1, <1>2, GoesOn

LEMMA BeginsConcat ==
  ASSUME CfgInv, pc = "value", NEW tok, BeginConcat(tok)
  PROVE  CfgInv'
<1>1. CASE Go("single", ln, tok)
  BY <1>1, GoesAsIs DEF BeginConcat
<1>2. ASSUME NEW text, NEW room, NEW l, l = [ln EXCEPT !.buf = text, !.cap = room],
             Go("plus", l, tok)
      PROVE  CfgInv'
  <2>1. IsLine(l) /\ l.val = ln.val /\ l.nest = ln.nest
    BY <1>2 DEF CfgInv, LineInv, LineOn, IsLine
  <2> QED
    BY <1>2, <2>1, GoesOn DEF BeginConcat
<1> QED
  BY <1>1, <1>2 DEF BeginConcat

LEMMA AddsOperand ==
  ASSUME CfgInv, AddOperand
  PROVE  CfgInv'
<1>1. pc = "value" /\ UNCHANGED heap
  BY DEF AddOperand
<1>2. CASE Go("text", ln, NoTok)
  BY <1>1, <1>2, GoesAsIs
<1>3. ASSUME NEW l, NEW text, NEW room, l = [ln EXCEPT !.buf = Joined(@, text), !.cap = room],
             Go("plus", l, NoTok)
      PROVE  CfgInv'
  <2>1. PICK buf : l = [ln EXCEPT !.buf = buf, !.cap = room]
    BY <1>3 DEF CfgInv, LineInv, LineOn, IsLine
  <2>2. IsLine(l) /\ l.val = ln.val /\ l.nest = ln.nest
    BY <2>1 DEF CfgInv, LineInv, LineOn, IsLine
  <2> QED
    BY <1>1, <1>3, <2>2, GoesOn
<1> QED
  BY <1>2, <1>3 DEF AddOperand

LEMMA Operands ==
  ASSUME CfgInv, Plus
  PROVE  CfgInv'
<1>1. pc = "plus" /\ UNCHANGED heap
  BY DEF Plus, Keep
<1>2. PICK tok, next : Go("atom", [ln EXCEPT !.p = tok.p], next) \/ Go("text", ln, tok)
  BY DEF Plus
<1>3. CASE Go("text", ln, tok)
  BY <1>1, <1>3, GoesAsIs
<1>4. CASE Go("atom", [ln EXCEPT !.p = tok.p], next)
  <2>1. PICK l : l = [ln EXCEPT !.p = tok.p]
    OBVIOUS
  <2>2. IsLine(l) /\ l.val = ln.val /\ l.nest = ln.nest
    BY <2>1 DEF CfgInv, LineInv, LineOn, IsLine
  <2> QED
    BY <1>1, <1>4, <2>1, <2>2, GoesOn
<1> QED
  BY <1>2, <1>3, <1>4

LEMMA MakesStr ==
  ASSUME CfgInv, BufferToStr
  PROVE  CfgInv'
<1>1. PICK a \in New : 
        AllocStr(ln.buf, a) /\ Go("fallback", [ln EXCEPT !.val = a, !.buf = NoText], NoTok)
  BY DEF BufferToStr
<1>2. PICK s : s = ln.buf
  OBVIOUS
<1>3. HeapInv' /\ Grows(heap, heap') /\ a \in 0 .. Len(heap')
  BY <1>1, <1>2, AllocatesStr DEF CfgInv
<1>4. PICK l : l = [ln EXCEPT !.val = a, !.buf = NoText]
  OBVIOUS
<1>5. IsLine(l) /\ l.val = a /\ l.nest = ln.nest
  BY <1>4 DEF CfgInv, LineInv, LineOn, IsLine
<1> QED
  BY <1>1, <1>3, <1>4, <1>5, ValueSet DEF BufferToStr

LEMMA EvalsRhs ==
  ASSUME CfgInv, EvalRhs
  PROVE  CfgInv'
<1>1. CASE Rhs
  <2>1. PICK tok : (Keep /\ Go("atom", ln, tok)) \/ ToStore(Null, tok)
    BY <1>1 DEF Rhs
  <2> QED
    BY <1>1, <2>1, GoesAsIs, StoresNothing DEF Rhs, Keep
<1>2. CASE FirstOperand
  <2>1. PICK tok : ToStore(ln.val, tok) \/ BeginConcat(tok)
    BY <1>2 DEF FirstOperand, SingleValue
  <2> QED
    BY <1>2, <2>1, StoresValue, BeginsConcat DEF FirstOperand
<1>3. CASE NoBuffer \/ Fallback
  BY <1>3, StoresValue DEF NoBuffer, Fallback
<1> QED
  BY <1>1, <1>2, <1>3, Operands, AddsOperand, MakesStr DEF EvalRhs

-----------------------------------------------------------------------------
(* parse_line: what is done with the value *)

LEMMA Sets ==
  ASSUME CfgInv, Set
  PROVE  CfgInv'
<1>1. HeapInv' /\ Grows(heap, heap') /\ pc # "idle"
  BY Unmoved DEF CfgInv, Set
<1>2. PICK bad : Return(bad)
  BY DEF Set
<1>3. EnvInv'
  <2>1. CASE UNCHANGED env
    BY <1>1, <1>2, <2>1, EnvStays DEF CfgInv, Set, Return
  <2>2. CASE dict_set(ln.key, ln.val)
    <3>1. PICK n, v : n = Len(heap) /\ v = ln.val /\ n \in Nat /\ v \in 0 .. n
      BY <1>1 DEF CfgInv, LineInv, LineOn, Grows
    <3>2. PICK e, f, k : e = env /\ f = env' /\ k = ln.key
      OBVIOUS
    <3>3. f = [j \in DOMAIN e \cup {k} |-> IF j = k THEN v ELSE e[j]]
      BY <2>2, <3>1, <3>2 DEF dict_set
    <3>4. \A j \in DOMAIN e : e[j] \in 0 .. n
      BY <3>1, <3>2 DEF CfgInv, EnvInv, Pointers
    <3>5. \A j \in DOMAIN f : f[j] \in 0 .. n
      BY <3>1, <3>3, <3>4
    <3>6. Len(heap') = n /\ shown' = shown /\ result' = result
      BY <3>1 DEF Set, Return
    <3> QED
      BY <3>1, <3>2, <3>5, <3>6 DEF CfgInv, EnvInv, Pointers
  <2> QED
    BY <2>1, <2>2 DEF Set
<1> QED
  BY <1>1, <1>2, <1>3, ReturnStep

LEMMA Shows ==
  ASSUME CfgInv, Show
  PROVE  CfgInv'
<1>1. HeapInv' /\ Grows(heap, heap') /\ pc # "idle" /\ heap' = heap
  BY Kept DEF CfgInv, Show, Keep
<1>2. ln.val \in 0 .. Len(heap)
  BY DEF CfgInv, LineInv, LineOn
<1>3. EnvInv'
  BY <1>1, <1>2 DEF CfgInv, EnvInv, Pointers, Show, Return
<1>4. PICK bad : Return(bad)
  BY DEF Show
<1> QED
  BY <1>1, <1>3, <1>4, ReturnStep

LEMMA JoinsTexts ==
  ASSUME CfgInv, JoinTexts
  PROVE  CfgInv'
<1>1. pc # "idle" /\ UNCHANGED heap
  BY DEF JoinTexts
<1>2. CASE Return(TRUE) /\ UNCHANGED <<env, heap, shown>>
  <2>1. HeapInv' /\ Grows(heap, heap')
    BY <1>1, Unmoved DEF CfgInv
  <2>2. EnvInv'
    BY <1>2, <2>1, EnvStays DEF CfgInv, Return
  <2> QED
    BY <1>1, <1>2, <2>1, <2>2, ReturnStep
<1>3. ASSUME NEW text, Go("join", [ln EXCEPT !.es = @ \o text], NoTok)
      PROVE  CfgInv'
  <2>1. PICK es : Go("join", [ln EXCEPT !.es = es], NoTok)
    BY <1>3
  <2>2. PICK l : l = [ln EXCEPT !.es = es]
    OBVIOUS
  <2>3. IsLine(l) /\ l.val = ln.val /\ l.nest = ln.nest
    BY <2>2 DEF CfgInv, LineInv, LineOn, IsLine
  <2> QED
    BY <1>1, <2>1, <2>2, <2>3, GoesOn
<1> QED
  BY <1>2, <1>3 DEF JoinTexts

LEMMA AppendsStr ==
  ASSUME CfgInv, AppendStr
  PROVE  CfgInv'
<1>1. PICK a \in New :
        AllocStr(ln.es, a) /\ Go("store", [ln EXCEPT !.mode = "set", !.val = a], NoTok)
  BY DEF AppendStr
<1>2. PICK s : s = ln.es
  OBVIOUS
<1>3. HeapInv' /\ Grows(heap, heap') /\ a \in 0 .. Len(heap')
  BY <1>1, <1>2, AllocatesStr DEF CfgInv
<1>4. PICK l : l = [ln EXCEPT !.mode = "set", !.val = a]
  OBVIOUS
<1>5. IsLine(l) /\ l.val = a /\ l.nest = ln.nest
  BY <1>4 DEF CfgInv, LineInv, LineOn, IsLine
<1> QED
  BY <1>1, <1>3, <1>4, <1>5, ValueSet DEF AppendStr

-----------------------------------------------------------------------------
(* The theorems *)

LEMMA CfgStart == Init => CfgInv
<1> SUFFICES ASSUME Init PROVE CfgInv
  OBVIOUS
<1>1. PICK s, h, e : s = stack /\ h = heap /\ e = env /\ s = <<>> /\ h = <<>> /\ e = <<>>
  BY DEF Init
<1>2. IsSeq(s) /\ IsSeq(h) /\ Len(s) = 0 /\ Len(h) = 0 /\ Len(e) = 0 /\ e \in Seq({})
  BY <1>1, NoneIsSeq, NoLength, NoItems
<1>3. StackInv
  BY <1>1, <1>2 DEF StackInv, Init
<1>4. HeapInv
  BY <1>1, <1>2 DEF HeapInv, ArraysOf
<1>5. EnvInv
  BY <1>1, <1>2 DEF EnvInv, Pointers, Init, Null
<1>6. LineInv
  BY <1>1, <1>2, NoLineOn DEF LineInv, Init
<1> QED
  BY <1>3, <1>4, <1>5, <1>6 DEF CfgInv

LEMMA CfgStep == CfgInv /\ [Next]_vars => CfgInv'
<1> SUFFICES ASSUME CfgInv, [Next]_vars PROVE CfgInv'
  OBVIOUS
<1>1. CASE UNCHANGED vars
  <2>1. HeapInv' /\ Grows(heap, heap')
    BY <1>1, Unmoved DEF CfgInv, vars
  <2>2. StackInv' /\ EnvInv' /\ LineInv'
    BY <1>1, <2>1, EnvStays DEF CfgInv, StackInv, LineInv, vars
  <2> QED
    BY <2>1, <2>2 DEF CfgInv
<1>2. CASE \E path \in Paths : kfl_cfg_load(path)
  BY <1>2, Loads
<1>3. CASE \E raw \in Lines : ReadLine(raw) \/ SkipLine(raw)
  BY <1>3, Reads, Skips
<1>4. CASE Store
  BY <1>4, Sets, Shows, JoinsTexts, AppendsStr DEF Store
<1> QED
  BY <1>1, <1>2, <1>3, <1>4, Closes, ParsesLine, EvalsAtom, EvalsRhs DEF Next, Step

\* The invariant the theorems below rest on: what cfg_load_depth has open is its
\* calls, and every pointer of the heap, of cfg->vars and of parse_line's locals
\* is to a value that is there.
THEOREM FilesAndPointers == Spec => []CfgInv
BY CfgStart, CfgStep, PTL DEF Spec

\* However files include each other, and whatever their lines hold: at most
\* CFG_MAX_DEPTH + 1 are open at a time, and none once kfl_cfg_load has returned,
\* on each of cfg_load_depth's ways back and with any allocation failing.
THEOREM FilesBounded == Spec => []OpenFilesBounded
<1>1. CfgInv => OpenFilesBounded
  <2> SUFFICES ASSUME CfgInv PROVE OpenFilesBounded
    OBVIOUS
  <2>1. PICK s, n : s = stack /\ n = Len(s)
    OBVIOUS
  <2>2. n \in Nat /\ fds = n /\ (pc = "idle" <=> n = 0)
    BY <2>1, Sequence DEF CfgInv, StackInv
  <2>3. n <= MaxDepth + 1
    <3>1. CASE n = 0
      BY <3>1, CfgAssumption DEF CfgAssumption
    <3>2. CASE n # 0
      <4>1. IsCall(s[n], n)
        BY <2>1, <2>2, <3>2 DEF CfgInv, StackInv
      <4> QED
        BY <2>2, <4>1, CfgAssumption DEF IsCall, CfgAssumption
    <3> QED
      BY <3>1, <3>2
  <2> QED
    BY <2>2, <2>3 DEF OpenFilesBounded
<1> QED
  BY <1>1, FilesAndPointers, PTL

\* eval_atom, eval_rhs and parse_line store, show and push only values that are
\* there, even where an allocation failed: no pointer of cfg->vars, of an array
\* or of the locals leads anywhere else, the arrays being filled are arrays, and
\* none holds more than it has room for.
THEOREM NothingDangles == Spec => []PointersInside
<1>1. CfgInv => PointersInside
  <2> SUFFICES ASSUME CfgInv PROVE PointersInside
    OBVIOUS
  <2>1. ASSUME NEW a \in 1 .. Len(heap), heap[a].type = "array"
        PROVE  /\ Len(heap[a].items) <= heap[a].cap
               /\ \A i \in DOMAIN heap[a].items : heap[a].items[i] \in Pointers \ {Null}
    <3>1. ArrayIn(heap[a], Len(heap)) /\ Len(heap) \in Nat
      BY <2>1, Sequence DEF CfgInv, HeapInv, ArraysOf
    <3>2. PICK s \in Seq(1 .. Len(heap)) : s = heap[a].items
      BY <3>1 DEF ArrayIn
    <3>3. \A i \in DOMAIN s : s[i] \in 1 .. Len(heap)
      OBVIOUS
    <3>4. \A i \in DOMAIN s : s[i] \in Pointers \ {Null}
      BY <3>1, <3>3 DEF Pointers, Null
    <3> QED
      BY <3>1, <3>2, <3>4 DEF ArrayIn
  <2>2. \A i \in DOMAIN ln.nest : IsArray(heap, ln.nest[i])
    <3>1. PICK A, s : A = ArraysOf(heap) /\ s = ln.nest
      OBVIOUS
    <3>2. s \in Seq(A)
      BY <3>1 DEF CfgInv, LineInv, LineOn
    <3>3. \A i \in DOMAIN s : s[i] \in A
      BY <3>2
    <3>4. \A a \in A : IsArray(heap, a)
      BY <3>1, Sequence DEF IsArray, ArraysOf, Null, CfgInv, HeapInv
    <3> QED
      BY <3>1, <3>3, <3>4
  <2>3. \A i \in DOMAIN stack : stack[i].rc \in {-1, 0}
    BY Sequence DEF CfgInv, StackInv, IsCall
  <2>4. ln.val \in Pointers
    BY DEF CfgInv, LineInv, LineOn, Pointers
  <2> QED
    BY <2>1, <2>2, <2>3, <2>4 DEF CfgInv, EnvInv, PointersInside
<1> QED
  BY <1>1, FilesAndPointers, PTL

-----------------------------------------------------------------------------
(* Values are shared, and do not change *)

\* Nothing but nest refers to an array that is still being read.
IsPrivate(a) ==
  /\ \A k \in DOMAIN env : env[k] # a
  /\ shown # a /\ ln.val # a
  /\ \A b \in ArraysOf(heap) : \A j \in DOMAIN heap[b].items : heap[b].items[j] # a

OpenPrivate ==
  /\ \A i \in DOMAIN ln.nest : IsPrivate(ln.nest[i])
  /\ \A i, j \in DOMAIN ln.nest : i # j => ln.nest[i] # ln.nest[j]

\* A value that was made never changes, but for the array whose items are being
\* read, which gets one more.
MadeOnce ==
  [][\A a \in 1 .. Len(heap) : heap'[a] # heap[a] =>
       /\ pc = "push" /\ a = ln.nest[Len(ln.nest)]
       /\ heap'[a].items = Append(heap[a].items, ln.val)]_vars

\* What a variable of the configuration refers to is, from then on, the same value.
VariablesKept ==
  [][\A k \in DOMAIN env : env[k] # Null => heap'[env[k]] = heap[env[k]]]_vars

\* What steps do to values: at most one is made, ...
OneMore == heap' = heap \/ \E x : IsNew(x) /\ heap' = Append(heap, x)

\* ... and v is one that something refers to already, or the one that is made.
ValueFrom(v) ==
  \/ v = ln.val \/ v = Null \/ v = Len(heap) + 1
  \/ \E k \in DOMAIN env : v = env[k]
  \/ \E b \in ArraysOf(heap) : \E j \in DOMAIN heap[b].items : v = heap[b].items[j]

LineDone == heap' = heap /\ ln'.nest = <<>>
ValueRead ==
  /\ UNCHANGED <<env, shown>> /\ OneMore
  /\ ln'.nest = ln.nest /\ ValueFrom(ln'.val)
ArrayBegun ==
  /\ UNCHANGED <<env, shown>> /\ heap' = Append(heap, var_array)
  /\ ln'.nest = Append(ln.nest, Len(heap) + 1) /\ ln'.val = ln.val
ArrayRead ==
  /\ UNCHANGED <<env, shown, heap>> /\ ln.nest # <<>>
  /\ ln'.nest = SubSeq(ln.nest, 1, Len(ln.nest) - 1) /\ ln'.val = ln.nest[Len(ln.nest)]
ItemPushed ==
  /\ UNCHANGED <<env, shown>> /\ ln.nest # <<>> /\ pc = "push"
  /\ ln.val # Null /\ heap' = var_push(heap, ln.nest[Len(ln.nest)], ln.val)
  /\ ln'.nest = ln.nest /\ ln'.val = ln.val

StepKind == LineDone \/ ValueRead \/ ArrayBegun \/ ArrayRead \/ ItemPushed

LEMMA GoLine ==
  ASSUME NEW l, IsLine(l), NEW at, NEW tok, Go(at, l, tok)
  PROVE  ln'.val = l.val /\ ln'.nest = l.nest /\ UNCHANGED <<env, shown>>
<1>1. PICK m : m = ln'
  OBVIOUS
<1>2. m.val = l.val /\ m.nest = l.nest
  BY <1>1 DEF Go, IsLine
<1> QED
  BY <1>1, <1>2 DEF Go, kept

LEMMA GoKind ==
  ASSUME NEW l, IsLine(l), NEW at, NEW tok, Go(at, l, tok), OneMore,
         l.nest = ln.nest, ValueFrom(l.val)
  PROVE  StepKind
BY GoLine DEF StepKind, ValueRead

LEMMA StayKind ==
  ASSUME NEW l, IsLine(l), NEW at, NEW tok, Go(at, l, tok), UNCHANGED heap,
         l.nest = ln.nest, l.val = ln.val
  PROVE  StepKind
<1>1. OneMore /\ ValueFrom(l.val)
  BY DEF OneMore, ValueFrom
<1> QED
  BY <1>1, GoKind

LEMMA AsIsKind ==
  ASSUME CfgInv, NEW at, NEW tok, Go(at, ln, tok), UNCHANGED heap
  PROVE  StepKind
<1>1. PICK l : l = ln
  OBVIOUS
<1>2. IsLine(l)
  BY <1>1 DEF CfgInv, LineInv, LineOn
<1> QED
  BY <1>1, <1>2, StayKind

LEMMA ReturnKind ==
  ASSUME NEW bad, Return(bad), UNCHANGED heap
  PROVE  StepKind
BY DEF Return, NoLine, StepKind, LineDone

LEMMA AllocKind ==
  ASSUME NEW a \in New, NEW x, IsNew(x), Alloc(x, a)
  PROVE  OneMore /\ ValueFrom(a)
BY DEF Alloc, OneMore, ValueFrom, New

LEMMA AllocStrKind ==
  ASSUME NEW a \in New, NEW s, AllocStr(s, a)
  PROVE  OneMore /\ ValueFrom(a)
<1>1. IsNew(var_str(s)) /\ IsNew(var_str(NoText))
  BY DEF IsNew, var_str
<1> QED
  BY <1>1 DEF AllocStr, Alloc, OneMore, ValueFrom, New

LEMMA YieldKind ==
  ASSUME CfgInv, NEW a, NEW p, NEW tok, Yield(a, p, tok), OneMore, ValueFrom(a)
  PROVE  StepKind
<1>1. PICK l, at : l = [ln EXCEPT !.val = a, !.p = p] /\ Go(at, l, tok)
  BY DEF Yield
<1>2. IsLine(l) /\ l.val = a /\ l.nest = ln.nest
  BY <1>1 DEF CfgInv, LineInv, LineOn, IsLine
<1> QED
  BY <1>1, <1>2, GoKind

LEMMA NullKind ==
  ASSUME CfgInv, NEW a \in New, Alloc(var_null, a), NEW p, NEW tok, Yield(a, p, tok)
  PROVE  StepKind
<1>1. PICK x : x = var_null
  OBVIOUS
<1>2. IsNew(x)
  BY <1>1 DEF IsNew, var_null
<1>3. OneMore /\ ValueFrom(a)
  BY <1>1, <1>2, AllocKind
<1> QED
  BY <1>3, YieldKind

LEMMA OrNullKind ==
  ASSUME CfgInv, NEW a, ValueFrom(a), NEW p, NEW tok, OrNull(a, p, tok)
  PROVE  StepKind
<1>1. CASE Keep /\ Yield(a, p, tok)
  BY <1>1, YieldKind DEF Keep, OneMore
<1>2. CASE \E x \in New : Alloc(var_null, x) /\ Yield(x, p, tok)
  BY <1>2, NullKind
<1> QED
  BY <1>1, <1>2 DEF OrNull

LEMMA StoreKind ==
  ASSUME CfgInv, NEW a, ValueFrom(a), NEW tok, ToStore(a, tok)
  PROVE  StepKind
<1>1. ASSUME NEW x, ValueFrom(x), OneMore, NEW l, l = [ln EXCEPT !.val = x], Go("store", l, tok)
      PROVE  StepKind
  <2>1. IsLine(l) /\ l.val = x /\ l.nest = ln.nest
    BY <1>1 DEF CfgInv, LineInv, LineOn, IsLine
  <2> QED
    BY <1>1, <2>1, GoKind
<1>2. CASE Keep /\ Go("store", [ln EXCEPT !.val = a], tok)
  BY <1>1, <1>2 DEF Keep, OneMore
<1>3. CASE \E x \in New : Alloc(var_null, x) /\ Go("store", [ln EXCEPT !.val = x], tok)
  <2>1. PICK x \in New : Alloc(var_null, x) /\ Go("store", [ln EXCEPT !.val = x], tok)
    BY <1>3
  <2>2. PICK v : v = var_null
    OBVIOUS
  <2>3. OneMore /\ ValueFrom(x)
    BY <2>1, <2>2, AllocKind DEF IsNew, var_null
  <2> QED
    BY <1>1, <2>1, <2>3
<1> QED
  BY <1>2, <1>3 DEF ToStore

LEMMA LineKinds ==
  ASSUME CfgInv, ParseLine
  PROVE  StepKind
<1>1. PICK tok : \/ BlankLine(tok) \/ NoKey(tok) \/ Include(tok) \/ Display(tok)
                 \/ \E op : KeyEq(tok, op) \/ KeyPlusEq(tok, op) \/ NoOperator(op)
  BY DEF ParseLine
<1>2. ASSUME NEW bad, Nothing(bad) PROVE StepKind
  BY <1>2, ReturnKind DEF Nothing, Keep
<1>3. ASSUME NEW path, NEW depth, Open(path, depth) PROVE StepKind
  BY <1>3 DEF Open, Keep, NoLine, StepKind, LineDone
<1>4. CASE Display(tok)
  <2>1. PICK l : l = [ln EXCEPT !.mode = "display", !.p = tok.p]
    OBVIOUS
  <2>2. IsLine(l) /\ l.val = ln.val /\ l.nest = ln.nest
    BY <2>1 DEF CfgInv, LineInv, LineOn, IsLine
  <2> QED
    BY <1>4, <2>1, <2>2, StayKind DEF Display, Keep
<1>5. ASSUME NEW op, KeyEq(tok, op) PROVE StepKind
  <2>1. PICK l : l = [ln EXCEPT !.mode = "set", !.key = tok.val, !.p = op.p]
    OBVIOUS
  <2>2. IsLine(l) /\ l.val = ln.val /\ l.nest = ln.nest
    BY <2>1 DEF CfgInv, LineInv, LineOn, IsLine
  <2> QED
    BY <1>5, <2>1, <2>2, StayKind DEF KeyEq, Keep
<1>6. ASSUME NEW op, KeyPlusEq(tok, op) PROVE StepKind
  <2>1. PICK es : Go("rhs", [ln EXCEPT !.mode = "append", !.key = tok.val,
                                       !.p = op.p, !.es = es], op)
    BY <1>6 DEF KeyPlusEq
  <2>2. PICK l : l = [ln EXCEPT !.mode = "append", !.key = tok.val, !.p = op.p, !.es = es]
    OBVIOUS
  <2>3. IsLine(l) /\ l.val = ln.val /\ l.nest = ln.nest
    BY <2>2 DEF CfgInv, LineInv, LineOn, IsLine
  <2> QED
    BY <1>6, <2>1, <2>2, <2>3, StayKind DEF KeyPlusEq
<1> QED
  BY <1>1, <1>2, <1>3, <1>4, <1>5, <1>6 DEF BlankLine, NoKey, Include, NoOperator

LEMMA LiteralKind ==
  ASSUME CfgInv, NEW tok, Literal(tok)
  PROVE  StepKind
<1>1. PICK a \in New :
        /\ \/ AllocStr(tok.val, a)
           \/ \E x \in {var_int(tok.val), var_float(tok.val), var_bool(TRUE), var_bool(FALSE),
                        var_null} : Alloc(x, a)
        /\ Yield(a, tok.p, tok)
  BY DEF Literal
<1>2. CASE AllocStr(tok.val, a)
  <2>1. PICK s : s = tok.val
    OBVIOUS
  <2>2. OneMore /\ ValueFrom(a)
    BY <1>2, <2>1, AllocStrKind
  <2> QED
    BY <1>1, <2>2, YieldKind
<1>3. ASSUME NEW x \in {var_int(tok.val), var_float(tok.val), var_bool(TRUE), var_bool(FALSE),
                        var_null}, Alloc(x, a)
      PROVE  StepKind
  <2>1. IsNew(x)
    BY DEF IsNew, var_int, var_float, var_bool, var_null
  <2>2. OneMore /\ ValueFrom(a)
    BY <1>3, <2>1, AllocKind
  <2> QED
    BY <1>1, <2>2, YieldKind
<1> QED
  BY <1>1, <1>2, <1>3

LEMMA NameKind ==
  ASSUME CfgInv, NEW tok, NEW next, Reference(tok, next) \/ Indexed(tok, next)
  PROVE  StepKind
<1>1. \A name : ValueFrom(dict_get(name))
  BY DEF ValueFrom, dict_get
<1>2. ASSUME NEW name, NEW i PROVE ValueFrom(var_get(heap, dict_get(name), i))
  <2>1. PICK a : a = dict_get(name)
    OBVIOUS
  <2>2. CASE i \in 0 .. var_len(heap, a) - 1
    <3>1. a # Null /\ heap[a].type = "array" /\ i \in 0 .. Len(heap[a].items) - 1
      BY <2>2 DEF var_len, IsArray
    <3>2. a \in ArraysOf(heap)
      <4>1. a \in 0 .. Len(heap) /\ Len(heap) \in Nat
        BY <2>1, Gets, Sequence DEF CfgInv, HeapInv
      <4> QED
        BY <3>1, <4>1 DEF ArraysOf, Null
    <3>3. PICK s \in Seq(1 .. Len(heap)) : s = heap[a].items
      BY <3>2 DEF CfgInv, HeapInv, ArrayIn
    <3>4. i + 1 \in DOMAIN s
      BY <3>1, <3>3
    <3> QED
      BY <2>1, <2>2, <3>2, <3>3, <3>4 DEF ValueFrom, var_get
  <2>3. CASE ~ i \in 0 .. var_len(heap, a) - 1
    BY <2>1, <2>3 DEF ValueFrom, var_get
  <2> QED
    BY <2>2, <2>3
<1>3. CASE Reference(tok, next)
  <2>1. PICK a : a = dict_get(tok.val) /\ OrNull(a, tok.p, next)
    BY <1>3 DEF Reference
  <2> QED
    BY <1>1, <2>1, OrNullKind
<1>4. CASE Indexed(tok, next)
  <2>1. PICK idx, rb, e : OrNull(IF rb.type # "rbracket" \/ idx.type # "int" THEN Null
                                 ELSE var_get(heap, dict_get(tok.val), idx.val), rb.p, e)
    BY <1>4 DEF Indexed
  <2>2. PICK a : /\ a = (IF rb.type # "rbracket" \/ idx.type # "int" THEN Null
                         ELSE var_get(heap, dict_get(tok.val), idx.val))
                 /\ OrNull(a, rb.p, e)
    BY <2>1
  <2>3. ValueFrom(Null)
    BY DEF ValueFrom
  <2>4. ValueFrom(a)
    BY <1>2, <2>2, <2>3
  <2> QED
    BY <2>2, <2>4, OrNullKind
<1> QED
  BY <1>3, <1>4

LEMMA BeginKind ==
  ASSUME CfgInv, NEW tok, BeginArray(tok)
  PROVE  StepKind
<1>1. PICK a, at :
        /\ a \in New /\ Alloc(var_array, a)
        /\ Go(at, [ln EXCEPT !.nest = IF a = Null THEN @ ELSE Append(@, a), !.p = tok.p], tok)
  BY DEF BeginArray
<1>2. PICK s, t : s = ln.nest /\ t = (IF a = Null THEN s ELSE Append(s, a))
  OBVIOUS
<1>3. PICK l : l = [ln EXCEPT !.nest = t, !.p = tok.p]
  OBVIOUS
<1>4. IsLine(l) /\ l.val = ln.val /\ l.nest = t
  BY <1>3 DEF CfgInv, LineInv, LineOn, IsLine
<1>5. Go(at, l, tok)
  BY <1>1, <1>2, <1>3
<1>6. CASE a = Null
  BY <1>1, <1>2, <1>4, <1>5, <1>6, StayKind DEF Alloc
<1>7. CASE a # Null
  <2>1. a = Len(heap) + 1 /\ heap' = Append(heap, var_array)
    BY <1>1, <1>7 DEF New, Alloc
  <2>2. ln'.nest = Append(s, a) /\ ln'.val = ln.val /\ UNCHANGED <<env, shown>>
    BY <1>2, <1>4, <1>5, <1>7, GoLine
  <2> QED
    BY <1>2, <2>1, <2>2 DEF StepKind, ArrayBegun
<1> QED
  BY <1>6, <1>7

LEMMA ItemsKind ==
  ASSUME CfgInv, Items
  PROVE  StepKind
<1>1. PICK tok, p, at :
        \/ Go("atom", ln, tok)
        \/ Go("items", [ln EXCEPT !.p = tok.p], tok)
        \/ Go("items", [ln EXCEPT !.p = tok.p, !.error = TRUE], tok)
        \/ Go(at, [ln EXCEPT !.val = ln.nest[Len(ln.nest)],
                             !.nest = SubSeq(@, 1, Len(ln.nest) - 1), !.p = p], tok)
  BY DEF Items, Past
<1>2. UNCHANGED heap /\ ln.nest # <<>>
  BY DEF Items, Keep, CfgInv, LineInv
<1>3. CASE Go("atom", ln, tok)
  BY <1>2, <1>3, AsIsKind
<1>4. ASSUME NEW l, l = [ln EXCEPT !.p = tok.p] \/ l = [ln EXCEPT !.p = tok.p, !.error = TRUE],
             Go("items", l, tok)
      PROVE  StepKind
  <2>1. IsLine(l) /\ l.val = ln.val /\ l.nest = ln.nest
    BY <1>4 DEF CfgInv, LineInv, LineOn, IsLine
  <2> QED
    BY <1>2, <1>4, <2>1, StayKind
<1>5. CASE Go(at, [ln EXCEPT !.val = ln.nest[Len(ln.nest)],
                             !.nest = SubSeq(@, 1, Len(ln.nest) - 1), !.p = p], tok)
  <2>1. PICK s, v, t : s = ln.nest /\ v = s[Len(s)] /\ t = SubSeq(s, 1, Len(s) - 1)
    OBVIOUS
  <2>2. PICK l : l = [ln EXCEPT !.val = v, !.nest = t, !.p = p]
    OBVIOUS
  <2>3. IsLine(l) /\ l.val = v /\ l.nest = t
    BY <2>2 DEF CfgInv, LineInv, LineOn, IsLine
  <2>4. Go(at, l, tok)
    BY <1>5, <2>1, <2>2
  <2>5. ln'.val = v /\ ln'.nest = t /\ UNCHANGED <<env, shown>>
    BY <2>3, <2>4, GoLine
  <2> QED
    BY <1>2, <2>1, <2>5 DEF StepKind, ArrayRead
<1> QED
  BY <1>1, <1>3, <1>4, <1>5

LEMMA PushKind ==
  ASSUME CfgInv, Push
  PROVE  StepKind
<1>1. PICK l : l = ln
  OBVIOUS
<1>2. IsLine(l) /\ ln.nest # <<>> /\ Go("items", l, NoTok) /\ pc = "push"
  BY <1>1 DEF CfgInv, LineInv, LineOn, Push
<1>3. CASE UNCHANGED heap
  BY <1>2, <1>3, AsIsKind, <1>1
<1>4. CASE ln.val # Null /\ heap' = var_push(heap, ln.nest[Len(ln.nest)], ln.val)
  <2>1. ln'.val = ln.val /\ ln'.nest = ln.nest /\ UNCHANGED <<env, shown>>
    BY <1>1, <1>2, GoLine
  <2> QED
    BY <1>2, <1>4, <2>1 DEF StepKind, ItemPushed
<1> QED
  BY <1>3, <1>4 DEF Push, Keep

LEMMA AtomKind ==
  ASSUME CfgInv, EvalAtom
  PROVE  StepKind
<1>1. CASE ReadAtom
  <2>1. PICK tok : \/ Literal(tok) \/ BeginArray(tok) \/ NoAtom(tok)
                   \/ \E next : Reference(tok, next) \/ Indexed(tok, next)
    BY <1>1 DEF ReadAtom
  <2> QED
    BY <2>1, LiteralKind, BeginKind, NullKind, NameKind DEF NoAtom
<1>2. CASE NoArray
  BY <1>2, NullKind DEF NoArray
<1> QED
  BY <1>1, <1>2, ItemsKind, PushKind DEF EvalAtom

LEMMA RhsKind ==
  ASSUME CfgInv, EvalRhs
  PROVE  StepKind
<1>1. ValueFrom(Null) /\ ValueFrom(ln.val)
  BY DEF ValueFrom
<1>2. ASSUME NEW tok, ToStore(Null, tok) \/ ToStore(ln.val, tok) PROVE StepKind
  <2>1. PICK a : ValueFrom(a) /\ ToStore(a, tok)
    BY <1>1, <1>2
  <2> QED
    BY <2>1, StoreKind
<1>3. ASSUME NEW at, NEW tok, Go(at, ln, tok), UNCHANGED heap PROVE StepKind
  BY <1>3, AsIsKind
<1>4. ASSUME NEW text, NEW room, NEW at, NEW tok, UNCHANGED heap,
             Go(at, [ln EXCEPT !.buf = text, !.cap = room], tok)
      PROVE  StepKind
  <2>1. PICK l : l = [ln EXCEPT !.buf = text, !.cap = room]
    OBVIOUS
  <2>2. IsLine(l) /\ l.val = ln.val /\ l.nest = ln.nest
    BY <2>1 DEF CfgInv, LineInv, LineOn, IsLine
  <2> QED
    BY <1>4, <2>1, <2>2, StayKind
<1>5. CASE Rhs
  <2>1. PICK tok : (Keep /\ Go("atom", ln, tok)) \/ ToStore(Null, tok)
    BY <1>5 DEF Rhs
  <2> QED
    BY <1>2, <1>3, <2>1 DEF Keep
<1>6. CASE FirstOperand
  <2>1. PICK tok : ToStore(ln.val, tok) \/ BeginConcat(tok)
    BY <1>6 DEF FirstOperand, SingleValue
  <2>2. CASE BeginConcat(tok)
    BY <1>3, <1>4, <2>2 DEF BeginConcat
  <2> QED
    BY <1>2, <2>1, <2>2
<1>7. CASE Plus
  <2>1. PICK tok, next : Go("atom", [ln EXCEPT !.p = tok.p], next) \/ Go("text", ln, tok)
    BY <1>7 DEF Plus
  <2>2. PICK l : l = [ln EXCEPT !.p = tok.p]
    OBVIOUS
  <2>3. IsLine(l) /\ l.val = ln.val /\ l.nest = ln.nest
    BY <2>2 DEF CfgInv, LineInv, LineOn, IsLine
  <2> QED
    BY <1>3, <1>7, <2>1, <2>2, <2>3, StayKind DEF Plus, Keep
<1>8. CASE AddOperand
  <2>1. CASE Go("text", ln, NoTok)
    BY <1>3, <1>8, <2>1 DEF AddOperand
  <2>2. ASSUME NEW l, NEW text, NEW room, l = [ln EXCEPT !.buf = Joined(@, text), !.cap = room],
               Go("plus", l, NoTok)
        PROVE  StepKind
    <3>1. PICK buf : l = [ln EXCEPT !.buf = buf, !.cap = room]
      BY <2>2 DEF CfgInv, LineInv, LineOn, IsLine
    <3>2. UNCHANGED heap /\ Go("plus", [ln EXCEPT !.buf = buf, !.cap = room], NoTok)
      BY <1>8, <2>2, <3>1 DEF AddOperand
    <3> QED
      BY <1>4, <3>2
  <2> QED
    BY <1>8, <2>1, <2>2 DEF AddOperand
<1>9. CASE BufferToStr
  <2>1. PICK a \in New : 
          AllocStr(ln.buf, a) /\ Go("fallback", [ln EXCEPT !.val = a, !.buf = NoText], NoTok)
    BY <1>9 DEF BufferToStr
  <2>2. PICK s, l : s = ln.buf /\ l = [ln EXCEPT !.val = a, !.buf = NoText]
    OBVIOUS
  <2>3. IsLine(l) /\ l.val = a /\ l.nest = ln.nest
    BY <2>2 DEF CfgInv, LineInv, LineOn, IsLine
  <2>4. OneMore /\ ValueFrom(a)
    BY <2>1, <2>2, AllocStrKind
  <2> QED
    BY <2>1, <2>2, <2>3, <2>4, GoKind
<1> QED
  BY <1>2, <1>5, <1>6, <1>7, <1>8, <1>9 DEF EvalRhs, NoBuffer, Fallback

LEMMA DoneKind ==
  ASSUME CfgInv, Store
  PROVE  StepKind
<1>1. CASE Set \/ Show
  <2>1. PICK bad : Return(bad) /\ UNCHANGED heap
    BY <1>1 DEF Set, Show, Keep
  <2> QED
    BY <2>1, ReturnKind
<1>2. CASE JoinTexts
  <2>1. PICK es : Go("join", [ln EXCEPT !.es = es], NoTok) \/ Return(TRUE)
    BY <1>2 DEF JoinTexts
  <2>2. PICK l : l = [ln EXCEPT !.es = es]
    OBVIOUS
  <2>3. IsLine(l) /\ l.val = ln.val /\ l.nest = ln.nest
    BY <2>2 DEF CfgInv, LineInv, LineOn, IsLine
  <2> QED
    BY <1>2, <2>1, <2>2, <2>3, StayKind, ReturnKind DEF JoinTexts
<1>3. CASE AppendStr
  <2>1. PICK a \in New :
          AllocStr(ln.es, a) /\ Go("store", [ln EXCEPT !.mode = "set", !.val = a], NoTok)
    BY <1>3 DEF AppendStr
  <2>2. PICK s, l : s = ln.es /\ l = [ln EXCEPT !.mode = "set", !.val = a]
    OBVIOUS
  <2>3. IsLine(l) /\ l.val = a /\ l.nest = ln.nest
    BY <2>2 DEF CfgInv, LineInv, LineOn, IsLine
  <2>4. OneMore /\ ValueFrom(a)
    BY <2>1, <2>2, AllocStrKind
  <2> QED
    BY <2>1, <2>2, <2>3, <2>4, GoKind
<1> QED
  BY <1>1, <1>2, <1>3 DEF Store

\* Every step either leaves values and locals alone or is of one of the kinds.
LEMMA Kinds ==
  ASSUME CfgInv, [Next]_vars
  PROVE  StepKind \/ UNCHANGED <<env, shown, heap, ln>>
<1>1. ASSUME NEW raw, ReadLine(raw) PROVE StepKind
  <2>1. PICK l, x : l = NoLine /\ x = trim(raw)
    OBVIOUS
  <2>2. PICK m : m = ln'
    OBVIOUS
  <2>3. m.nest = <<>>
    BY <1>1, <2>1, <2>2 DEF ReadLine, NoLine
  <2> QED
    BY <1>1, <2>2, <2>3 DEF ReadLine, StepKind, LineDone
<1>2. ASSUME NEW path, kfl_cfg_load(path)
      PROVE  StepKind \/ UNCHANGED <<env, shown, heap, ln>>
  BY <1>2 DEF kfl_cfg_load, Open, Keep, NoLine, StepKind, LineDone
<1>3. ASSUME EndOfFile \/ (\E raw : SkipLine(raw)) \/ UNCHANGED vars
      PROVE  UNCHANGED <<env, shown, heap, ln>>
  BY <1>3 DEF EndOfFile, SkipLine, vars
<1> QED
  BY <1>1, <1>2, <1>3, LineKinds, AtomKind, RhsKind, DoneKind DEF Next, Step

\* a is an item of no array after the step.
NoItem(a) == \A b \in ArraysOf(heap) : \A j \in DOMAIN heap[b].items : heap[b].items[j] # a

LEMMA MadeApart ==
  ASSUME HeapInv, OneMore
  PROVE  /\ \A a \in 1 .. Len(heap) : heap'[a] = heap[a]
         /\ \A a : NoItem(a) => NoItem(a)'
<1>1. CASE heap' = heap
  BY <1>1 DEF NoItem
<1>2. CASE \E x : IsNew(x) /\ heap' = Append(heap, x)
  <2>1. PICK x : IsNew(x) /\ heap' = Append(heap, x)
    BY <1>2
  <2>2. PICK g, h : h = heap /\ g = heap' /\ g = Append(h, x) /\ IsSeq(h)
    BY <2>1 DEF HeapInv
  <2>3. /\ Len(g) = Len(h) + 1 /\ g[Len(h) + 1] = x /\ \A i \in 1 .. Len(h) : g[i] = h[i]
        /\ Len(h) \in Nat
    BY <2>2, Appended, Sequence
  <2>4. ASSUME NEW a, NoItem(a), NEW b \in ArraysOf(g)
        PROVE  \A j \in DOMAIN g[b].items : g[b].items[j] # a
    <3>1. CASE b = Len(h) + 1
      <4>1. PICK e : e = g[b].items /\ e = <<>>
        BY <2>1, <2>3, <3>1 DEF IsNew, ArraysOf, var_array
      <4> QED
        BY <4>1
    <3>2. CASE b # Len(h) + 1
      <4>1. b \in ArraysOf(h) /\ g[b] = h[b]
        BY <2>3, <3>2 DEF ArraysOf
      <4> QED
        BY <2>2, <2>4, <4>1 DEF NoItem
    <3> QED
      BY <3>1, <3>2
  <2>5. \A a \in 1 .. Len(heap) : heap'[a] = heap[a]
    BY <2>2, <2>3
  <2>6. ASSUME NEW a, NoItem(a) PROVE NoItem(a)'
    BY <2>2, <2>4, <2>6 DEF NoItem
  <2> QED
    BY <2>5, <2>6
<1> QED
  BY <1>1, <1>2 DEF OneMore

\* One array gets one more item, and nothing else changes.
LEMMA PushedOne ==
  ASSUME HeapInv, NEW c \in ArraysOf(heap), NEW v, heap' = var_push(heap, c, v)
  PROVE  /\ heap'[c].items = Append(heap[c].items, v)
         /\ \A a \in 1 .. Len(heap) : a # c => heap'[a] = heap[a]
         /\ \A a : NoItem(a) /\ v # a => NoItem(a)'
<1>1. PICK h, s : h = heap /\ s = heap[c].items /\ IsSeq(h)
  BY DEF HeapInv
<1>2. DOMAIN h = 1 .. Len(h) /\ c \in 1 .. Len(h) /\ h[c].type = "array" /\ Len(h) \in Nat
  BY <1>1, Sequence DEF ArraysOf
<1>3. PICK n : n = Len(h) /\ ArrayIn(h[c], n) /\ s \in Seq(1 .. n)
  BY <1>1, <1>2 DEF HeapInv, ArrayIn
<1>4. PICK y : y = [h[c] EXCEPT !.items = Append(s, v)]
  OBVIOUS
<1>5. PICK x : x = [y EXCEPT !.cap = Room(heap, c)]
  OBVIOUS
<1>6. x.items = Append(s, v) /\ x.type = "array"
  <2>1. y.items = Append(s, v) /\ y.type = "array" /\ DOMAIN y = {"type", "items", "cap"}
    BY <1>2, <1>3, <1>4 DEF ArrayIn
  <2> QED
    BY <1>5, <2>1
<1>7. PICK g : g = heap'
  OBVIOUS
<1>8. IsPut(g, h, c, x)
  <2>1. PICK k : k = [h EXCEPT ![c] = y]
    OBVIOUS
  <2>2. y = [h[c] EXCEPT !.items = Append(@, v)]
    BY <1>1, <1>4
  <2>3. g = [k EXCEPT ![c] = [k[c] EXCEPT !.cap = Room(heap, c)]]
    BY <1>1, <1>2, <1>7, <2>1, <2>2 DEF var_push
  <2>4. k[c] = y
    BY <1>2, <2>1
  <2>5. g = [k EXCEPT ![c] = x]
    BY <1>5, <2>3, <2>4
  <2> QED
    BY <1>2, <2>1, <2>5 DEF IsPut
<1>9. /\ Len(g) = Len(h) /\ g[c] = x /\ \A i \in 1 .. Len(h) : i # c => g[i] = h[i]
  BY <1>1, <1>2, <1>8, Replaced
<1>10. ASSUME NEW a, NoItem(a), v # a, NEW b \in ArraysOf(g)
       PROVE  \A j \in DOMAIN g[b].items : g[b].items[j] # a
  <2>1. CASE b = c
    <3>1. \A j \in DOMAIN s : s[j] # a
      BY <1>1, <1>10 DEF NoItem
    <3>2. IsSeq(s)
      BY <1>3, SeqIs
    <3>3. PICK t : t = Append(s, v)
      OBVIOUS
    <3>4. /\ IsSeq(t) /\ Len(t) = Len(s) + 1 /\ t[Len(s) + 1] = v /\ Len(s) \in Nat
          /\ \A i \in 1 .. Len(s) : t[i] = s[i]
      BY <3>2, <3>3, Appended, Sequence
    <3>5. \A j \in DOMAIN t : t[j] # a
      BY <1>10, <3>1, <3>2, <3>4, Sequence
    <3> QED
      BY <1>6, <1>9, <2>1, <3>3, <3>5
  <2>2. CASE b # c
    <3>1. b \in ArraysOf(h) /\ g[b] = h[b]
      BY <1>9, <2>2 DEF ArraysOf
    <3> QED
      BY <1>1, <1>10, <3>1 DEF NoItem
  <2> QED
    BY <2>1, <2>2
<1> QED
  BY <1>1, <1>6, <1>7, <1>9, <1>10 DEF NoItem

LEMMA PrivateStep ==
  ASSUME CfgInv, OpenPrivate, StepKind
  PROVE  OpenPrivate'
<1>1. PICK s, A, N : s = ln.nest /\ A = ArraysOf(heap) /\ N = Len(heap)
  OBVIOUS
<1>2. /\ s \in Seq(A) /\ IsSeq(s) /\ DOMAIN s = 1 .. Len(s) /\ Len(s) \in Nat
      /\ A \subseteq 1 .. N /\ N \in Nat /\ HeapInv
  BY <1>1, Sequence, SeqIs DEF CfgInv, LineInv, LineOn, HeapInv, ArraysOf
<1>3. \A i \in DOMAIN s : s[i] \in A /\ s[i] # Null /\ s[i] # N + 1 /\ IsPrivate(s[i])
  BY <1>1, <1>2 DEF OpenPrivate, Null
<1>4. \A i, j \in DOMAIN s : i # j => s[i] # s[j]
  BY <1>1 DEF OpenPrivate
<1>5. \A a : IsPrivate(a) => NoItem(a)
  BY DEF IsPrivate, NoItem
<1>6. ASSUME NEW a, IsPrivate(a), UNCHANGED <<env, shown>>, NoItem(a)', ln'.val # a
      PROVE  IsPrivate(a)'
  BY <1>6 DEF IsPrivate, NoItem
<1>7. ASSUME NEW t, t = ln'.nest,
             \A i \in DOMAIN t : IsPrivate(t[i])',
             \A i, j \in DOMAIN t : i # j => t[i] # t[j]
      PROVE  OpenPrivate'
  BY <1>7 DEF OpenPrivate
<1>8. CASE LineDone
  <2>1. PICK t : t = ln'.nest /\ t = <<>>
    BY <1>8 DEF LineDone
  <2>2. DOMAIN t = {}
    BY <2>1
  <2> QED
    BY <1>7, <2>1, <2>2
<1>9. CASE ValueRead
  <2>1. ASSUME NEW i \in DOMAIN s PROVE IsPrivate(s[i])'
    <3>1. ln'.val # s[i]
      BY <1>1, <1>3, <1>9 DEF ValueRead, ValueFrom, IsPrivate
    <3>2. NoItem(s[i])'
      BY <1>2, <1>3, <1>5, <1>9, MadeApart DEF ValueRead
    <3> QED
      BY <1>3, <1>6, <1>9, <3>1, <3>2 DEF ValueRead
  <2> QED
    BY <1>1, <1>4, <1>7, <1>9, <2>1 DEF ValueRead
<1>10. CASE ArrayBegun
  <2>1. OneMore
    BY <1>10 DEF ArrayBegun, OneMore, IsNew
  <2>2. PICK t : t = ln'.nest /\ t = Append(s, N + 1)
    BY <1>1, <1>10 DEF ArrayBegun
  <2>3. /\ IsSeq(t) /\ Len(t) = Len(s) + 1 /\ t[Len(s) + 1] = N + 1
        /\ \A i \in 1 .. Len(s) : t[i] = s[i]
    BY <1>2, <2>2, Appended
  <2>4. DOMAIN t = 1 .. Len(s) + 1
    BY <2>3, Sequence
  <2>5. ASSUME NEW i \in DOMAIN s PROVE IsPrivate(s[i])'
    <3>1. ln'.val # s[i]
      BY <1>3, <1>10 DEF ArrayBegun, IsPrivate
    <3>2. NoItem(s[i])'
      BY <1>2, <1>3, <1>5, <2>1, MadeApart
    <3> QED
      BY <1>3, <1>6, <1>10, <3>1, <3>2 DEF ArrayBegun
  <2>6. IsPrivate(N + 1)'
    <3>1. /\ \A k \in DOMAIN env : env[k] # N + 1
          /\ shown # N + 1 /\ ln.val # N + 1
      BY <1>1, <1>2 DEF CfgInv, EnvInv, Pointers, LineInv, LineOn
    <3>2. NoItem(N + 1)
      <4>1. ASSUME NEW b \in A, NEW j \in DOMAIN heap[b].items PROVE heap[b].items[j] # N + 1
        <5>1. PICK x \in Seq(1 .. N) : x = heap[b].items
          BY <1>1, <4>1 DEF CfgInv, HeapInv, ArrayIn
        <5>2. j \in DOMAIN x
          BY <5>1
        <5>3. \A i \in DOMAIN x : x[i] \in 1 .. N
          BY <1>2, <5>1
        <5> QED
          BY <1>2, <5>1, <5>2, <5>3
      <4> QED
        BY <1>1, <4>1 DEF NoItem
    <3>3. NoItem(N + 1)'
      BY <1>2, <2>1, <3>2, MadeApart
    <3>4. IsPrivate(N + 1)
      BY <3>1, <3>2 DEF IsPrivate, NoItem
    <3> QED
      BY <1>6, <1>10, <3>1, <3>3, <3>4 DEF ArrayBegun
  <2>7. \A i \in DOMAIN t : IsPrivate(t[i])'
    BY <1>2, <2>3, <2>4, <2>5, <2>6
  <2>8. \A i, j \in DOMAIN t : i # j => t[i] # t[j]
    BY <1>2, <1>3, <1>4, <2>3, <2>4
  <2> QED
    BY <1>7, <2>2, <2>7, <2>8
<1>11. CASE ArrayRead
  <2>1. PICK n, t : n = Len(s) /\ t = ln'.nest /\ t = SubSeq(s, 1, n - 1) /\ ln'.val = s[n]
    BY <1>1, <1>11 DEF ArrayRead
  <2>2. n \in Nat /\ n # 0
    BY <1>1, <1>2, <1>11, <2>1 DEF ArrayRead
  <2>3. n - 1 \in 0 .. Len(s)
    BY <2>1, <2>2
  <2>4. IsSeq(t) /\ Len(t) = n - 1 /\ \A i \in 1 .. n - 1 : t[i] = s[i]
    BY <1>2, <2>1, <2>3, Shortened
  <2>5. DOMAIN t = 1 .. n - 1 /\ DOMAIN t \subseteq DOMAIN s /\ n \in DOMAIN s
    BY <1>2, <2>1, <2>2, <2>4, Sequence
  <2>6. ASSUME NEW i \in DOMAIN t PROVE IsPrivate(t[i])'
    <3>1. t[i] = s[i] /\ i # n /\ IsPrivate(s[i])
      BY <1>3, <2>2, <2>4, <2>5
    <3>2. ln'.val # s[i]
      BY <1>4, <2>1, <2>5, <3>1
    <3>3. NoItem(s[i])'
      BY <1>5, <1>11, <3>1 DEF ArrayRead, NoItem
    <3> QED
      BY <1>6, <1>11, <3>1, <3>2, <3>3 DEF ArrayRead
  <2>7. \A i, j \in DOMAIN t : i # j => t[i] # t[j]
    BY <1>4, <2>4, <2>5
  <2> QED
    BY <1>7, <2>1, <2>6, <2>7
<1>12. CASE ItemPushed
  <2>1. PICK c, v : /\ c = ln.nest[Len(ln.nest)] /\ v = ln.val
                    /\ heap' = var_push(heap, c, v) /\ c \in ArraysOf(heap)
    BY <1>1, <1>2, <1>12 DEF ItemPushed
  <2>2. ASSUME NEW i \in DOMAIN s PROVE IsPrivate(s[i])'
    <3>1. v # s[i]
      BY <1>3, <2>1 DEF IsPrivate
    <3>2. NoItem(s[i])'
      BY <1>2, <1>3, <1>5, <2>1, <3>1, PushedOne
    <3> QED
      BY <1>3, <1>6, <1>12, <2>1, <3>1, <3>2 DEF ItemPushed
  <2> QED
    BY <1>1, <1>4, <1>7, <1>12, <2>2 DEF ItemPushed
<1> QED
  BY <1>8, <1>9, <1>10, <1>11, <1>12 DEF StepKind

LEMMA MadeStep ==
  ASSUME CfgInv, StepKind \/ UNCHANGED <<env, shown, heap, ln>>,
         NEW a \in 1 .. Len(heap), heap'[a] # heap[a]
  PROVE  /\ pc = "push" /\ ln.nest # <<>> /\ a = ln.nest[Len(ln.nest)]
         /\ heap'[a].items = Append(heap[a].items, ln.val)
<1>1. heap' # heap /\ HeapInv
  BY DEF CfgInv
<1>2. CASE OneMore
  BY <1>1, <1>2, MadeApart
<1>3. CASE ItemPushed
  <2>1. PICK A, s : A = ArraysOf(heap) /\ s = ln.nest /\ s \in Seq(A) /\ s # <<>>
    BY <1>3 DEF CfgInv, LineInv, LineOn, ItemPushed
  <2>2. PICK c, v : /\ c = ln.nest[Len(ln.nest)] /\ v = ln.val
                    /\ heap' = var_push(heap, c, v) /\ c \in ArraysOf(heap)
    BY <1>3, <2>1 DEF ItemPushed
  <2>3. /\ heap'[c].items = Append(heap[c].items, v)
        /\ \A b \in 1 .. Len(heap) : b # c => heap'[b] = heap[b]
    BY <1>1, <2>2, PushedOne
  <2> QED
    BY <1>3, <2>2, <2>3 DEF ItemPushed
<1>4. OneMore \/ ItemPushed
  <2>1. ArrayBegun => OneMore
    BY DEF ArrayBegun, OneMore, IsNew
  <2> QED
    BY <1>1, <2>1 DEF StepKind, LineDone, ValueRead, ArrayRead
<1> QED
  BY <1>2, <1>3, <1>4

\* Values are shared through pointers: b = a stores the pointer a has, c = [a, a] holds it
\* twice.  An array literal whose items are still being read is in nobody's hands:
\* no variable, no other array and nothing displayed refers to it.
THEOREM OpenArraysPrivate == Spec => []OpenPrivate
<1>1. Init => OpenPrivate
  <2> SUFFICES ASSUME Init PROVE OpenPrivate
    OBVIOUS
  <2>1. PICK s : s = ln.nest /\ s = <<>>
    BY DEF Init, NoLine
  <2>2. DOMAIN s = {}
    BY <2>1
  <2> QED
    BY <2>1, <2>2 DEF OpenPrivate
<1>2. CfgInv /\ OpenPrivate /\ [Next]_vars => OpenPrivate'
  <2> SUFFICES ASSUME CfgInv, OpenPrivate, [Next]_vars PROVE OpenPrivate'
    OBVIOUS
  <2>1. CASE UNCHANGED <<env, shown, heap, ln>>
    BY <2>1 DEF OpenPrivate, IsPrivate
  <2> QED
    BY <2>1, Kinds, PrivateStep
<1> QED
  BY <1>1, <1>2, FilesAndPointers, PTL DEF Spec

\* Whatever a line does, also one that fails: values once made stay as they are, but
\* for the array that is being read, which gets an item at its end (var_push).
THEOREM ValuesMadeOnce == Spec => MadeOnce
<1>1. CfgInv /\ [Next]_vars =>
        (\A a \in 1 .. Len(heap) : heap'[a] # heap[a] =>
           /\ pc = "push" /\ a = ln.nest[Len(ln.nest)]
           /\ heap'[a].items = Append(heap[a].items, ln.val))
  BY Kinds, MadeStep
<1> QED
  BY <1>1, FilesAndPointers, PTL DEF Spec, MadeOnce

\* So no line changes the value another variable has, although both may refer to the same
\* var_t: what cfg->vars refers to is, from then on, the same value.
THEOREM SharedValuesKept == Spec => VariablesKept
<1>1. CfgInv /\ OpenPrivate /\ [Next]_vars =>
        (\A k \in DOMAIN env : env[k] # Null => heap'[env[k]] = heap[env[k]])
  <2> SUFFICES ASSUME CfgInv, OpenPrivate, [Next]_vars, NEW k \in DOMAIN env, env[k] # Null,
                      heap'[env[k]] # heap[env[k]]
               PROVE  FALSE
    OBVIOUS
  <2>1. PICK a \in 1 .. Len(heap) : a = env[k] /\ heap'[a] # heap[a]
    BY Sequence DEF CfgInv, EnvInv, HeapInv, Pointers, Null
  <2>2. ln.nest # <<>> /\ a = ln.nest[Len(ln.nest)]
    BY <2>1, Kinds, MadeStep
  <2>3. PICK A, s : A = ArraysOf(heap) /\ s = ln.nest /\ s \in Seq(A) /\ s # <<>>
    BY <2>2 DEF CfgInv, LineInv, LineOn
  <2>4. Len(s) \in DOMAIN s
    BY <2>3
  <2> QED
    BY <2>1, <2>2, <2>3, <2>4 DEF OpenPrivate, IsPrivate
<1> QED
  BY <1>1, FilesAndPointers, OpenArraysPrivate, PTL DEF Spec, VariablesKept

-----------------------------------------------------------------------------
(* Tokens: where the scan of a line goes on *)

\* Every set of naturals has a least element.
LEMMA Least ==
  ASSUME NEW S \in SUBSET Nat, S # {}
  PROVE  \E x \in S : \A y \in S : x <= y
<1> DEFINE R == OpToRel(<, Nat)
<1>1. IsWellFoundedOn(R, Nat)
  BY NatLessThanWellFounded
<1>2. ASSUME NEW x \in Nat, NEW y \in Nat, y < x PROVE <<y, x>> \in R
  BY <1>2 DEF OpToRel
<1> HIDE DEF R
<1>3. PICK x \in S : \A y \in S : <<y, x>> \notin R
  BY <1>1, WFMin
<1>4. ASSUME NEW y \in S PROVE x <= y
  <2>1. x \in Nat /\ y \in Nat
    OBVIOUS
  <2>2. ~ (y < x)
    BY <1>2, <1>3, <2>1
  <2> QED
    BY <2>1, <2>2
<1> QED
  BY <1>4

\* The characters of a set end somewhere on the line, where there is another.
LEMMA AfterIs ==
  ASSUME NEW s, IsSeq(s), NEW p \in 1 .. Len(s) + 1, NEW set
  PROVE  /\ After(s, p, set) \in p .. Len(s) + 1
         /\ After(s, p, set) <= Len(s) => s[After(s, p, set)] \notin set
<1>1. Len(s) \in Nat
  BY Sequence
<1> DEFINE S == {q \in p .. Len(s) + 1 : q <= Len(s) => s[q] \notin set}
<1>2. S \in SUBSET Nat /\ Len(s) + 1 \in S
  BY <1>1
<1>3. PICK q \in S : \A r \in S : q <= r
  BY <1>2, Least
<1>4. ASSUME NEW r \in p .. q - 1 PROVE s[r] \in set
  <2>1. r \notin S /\ r \in p .. Len(s) + 1
    BY <1>1, <1>3
  <2> QED
    BY <2>1
<1>5. \E x \in p .. Len(s) + 1 :
        /\ x <= Len(s) => s[x] \notin set
        /\ \A r \in p .. x - 1 : s[r] \in set
  BY <1>3, <1>4
<1> QED
  BY <1>5 DEF After

LEMMA AfterOn ==
  ASSUME NEW s, IsSeq(s), NEW p \in 1 .. Len(s) + 1, NEW set
  PROVE  After(s, p, set) \in p .. Len(s) + 1
BY AfterIs

LEMMA AfterAtMostOn ==
  ASSUME NEW s, IsSeq(s), NEW p \in 1 .. Len(s) + 1, NEW set, NEW n \in Nat
  PROVE  AfterAtMost(s, p, set, n) \in p .. Len(s) + 1
<1>1. PICK q \in p .. Len(s) + 1 : q = After(s, p, set)
  BY AfterOn
<1>2. AfterAtMost(s, p, set, n) = IF q > p + n THEN p + n ELSE q
  BY <1>1 DEF AfterAtMost
<1>3. Len(s) \in Nat
  BY Sequence
<1> QED
  BY <1>2, <1>3

\* A scan that begins with one of the characters takes it.
LEMMA AfterAtMostPast ==
  ASSUME NEW s, IsSeq(s), NEW p \in 1 .. Len(s), NEW set, s[p] \in set, NEW n \in Nat \ {0}
  PROVE  AfterAtMost(s, p, set, n) \in p + 1 .. Len(s) + 1
<1>1. Len(s) \in Nat /\ p \in 1 .. Len(s) + 1
  BY Sequence
<1>2. PICK q \in p .. Len(s) + 1 : q = After(s, p, set) /\ (q <= Len(s) => s[q] \notin set)
  BY <1>1, AfterIs
<1>3. q # p
  BY <1>1, <1>2
<1>4. AfterAtMost(s, p, set, n) = IF q > p + n THEN p + n ELSE q
  BY <1>2 DEF AfterAtMost
<1> QED
  BY <1>1, <1>2, <1>3, <1>4

LEMMA Trims ==
  ASSUME NEW s, IsSeq(s)
  PROVE  IsSeq(trim(s))
<1>1. Len(s) \in Nat
  BY Sequence
<1> DEFINE S == {k \in 0 .. Len(s) : Len(s) - k > 0 => s[Len(s) - k] \notin Space}
<1>2. S \in SUBSET Nat /\ Len(s) \in S
  BY <1>1
<1>3. PICK k \in S : \A r \in S : k <= r
  BY <1>2, Least
<1> DEFINE m == Len(s) - k
<1>4. m \in 0 .. Len(s) /\ (m > 0 => s[m] \notin Space)
  BY <1>1, <1>3
<1>5. ASSUME NEW i \in m + 1 .. Len(s) PROVE s[i] \in Space
  <2>1. Len(s) - i \in 0 .. Len(s) /\ Len(s) - i < k /\ Len(s) - (Len(s) - i) = i /\ i > 0
    BY <1>1, <1>3
  <2>2. Len(s) - i \notin S
    BY <1>3, <2>1
  <2> QED
    BY <2>1, <2>2
<1>6. PICK n \in 0 .. Len(s) : n = CHOOSE x \in 0 .. Len(s) :
                 /\ x > 0 => s[x] \notin Space
                 /\ \A i \in x + 1 .. Len(s) : s[i] \in Space
  <2> HIDE DEF m
  <2>1. \E x \in 0 .. Len(s) :
                 /\ x > 0 => s[x] \notin Space
                 /\ \A i \in x + 1 .. Len(s) : s[i] \in Space
    BY <1>4, <1>5
  <2> QED
    BY <2>1
<1>7. PICK r : r = trimRight(s)
  OBVIOUS
<1>8. IsSeq(r)
  BY <1>6, <1>7, Shortened DEF trimRight
<1>9. PICK p \in 1 .. Len(r) + 1 : p = CHOOSE i \in 1 .. Len(r) + 1 :
                 /\ i <= Len(r) => r[i] \notin Space
                 /\ \A j \in 1 .. i - 1 : r[j] \in Space
  <2>0. Len(r) \in Nat
    BY <1>8, Sequence
  <2> DEFINE T == {i \in 1 .. Len(r) + 1 : i <= Len(r) => r[i] \notin Space}
  <2>1. T \in SUBSET Nat /\ Len(r) + 1 \in T
    BY <2>0
  <2>2. PICK i \in T : \A j \in T : i <= j
    BY <2>1, Least
  <2>3. ASSUME NEW j \in 1 .. i - 1 PROVE r[j] \in Space
    <3>1. j \in 1 .. Len(r) + 1 /\ ~ (i <= j)
      BY <2>0, <2>2
    <3> QED
      BY <2>2, <3>1
  <2>4. \E x \in 1 .. Len(r) + 1 :
                 /\ x <= Len(r) => r[x] \notin Space
                 /\ \A j \in 1 .. x - 1 : r[j] \in Space
    BY <2>2, <2>3
  <2> QED
    BY <2>4
<1>10. trim(s) = SubSeq(r, p, Len(r))
  BY <1>7, <1>9 DEF trim
<1>11. IsSeq(SubSeq(r, p, Len(r)))
  BY <1>8, Sequence, Sliced
<1> QED
  BY <1>10, <1>11

\* The positions of a string literal: at StringToken's recursion is defined, and
\* stays on the line.
IsEscape(s, q) == At(s, q) = "\\" /\ At(s, q + 1) # End
StepOver(s, q) == q + (IF IsEscape(s, q) THEN 2 ELSE 1)
Positions(s, p, n, g) == g = [i \in 0 .. n |-> IF i = 0 THEN p ELSE StepOver(s, g[i - 1])]

LEMMA PositionsExist ==
  ASSUME NEW s, NEW p, NEW n \in Nat
  PROVE  \E g : Positions(s, p, n, g)
<1> DEFINE Bad == {k \in Nat : ~ \E g : Positions(s, p, k, g)}
<1>1. SUFFICES ASSUME Bad # {} PROVE FALSE
  OBVIOUS
<1>2. PICK k \in Bad : \A m \in Bad : k <= m
  <2>1. Bad \in SUBSET Nat
    OBVIOUS
  <2> HIDE DEF Bad
  <2> QED
    BY <1>1, <2>1, Least
<1>3. CASE k = 0
  <2> DEFINE g == [i \in 0 .. 0 |-> p]
  <2>1. g = [i \in 0 .. 0 |-> IF i = 0 THEN p ELSE StepOver(s, g[i - 1])]
    OBVIOUS
  <2> QED
    BY <1>3, <2>1 DEF Positions
<1>4. CASE k # 0
  <2>1. k \in Nat /\ k - 1 \in Nat /\ ~ (k <= k - 1)
    BY <1>4
  <2>2. PICK g : Positions(s, p, k - 1, g)
    BY <1>2, <2>1
  <2> DEFINE h == [i \in 0 .. k |-> IF i = 0 THEN p ELSE StepOver(s, g[i - 1])]
  <2>3. ASSUME NEW i \in 0 .. k - 1 PROVE h[i] = g[i]
    BY <2>1, <2>2 DEF Positions
  <2>4. ASSUME NEW i \in 0 .. k, i # 0 PROVE h[i - 1] = g[i - 1]
    BY <2>1, <2>3, <2>4
  <2>5. h = [i \in 0 .. k |-> IF i = 0 THEN p ELSE StepOver(s, h[i - 1])]
    <3>1. h = [i \in 0 .. k |-> IF i = 0 THEN p ELSE StepOver(s, g[i - 1])]
      OBVIOUS
    <3> HIDE DEF h
    <3> QED
      BY <2>4, <3>1
  <2> HIDE DEF h
  <2> QED
    BY <1>2, <2>5 DEF Positions
<1> QED
  BY <1>3, <1>4

LEMMA AtOn ==
  ASSUME NEW s, IsSeq(s), NEW p \in 1 .. Len(s) + 1, At(s, p) # End
  PROVE  p \in 1 .. Len(s) /\ At(s, p) = s[p]
BY Sequence DEF At

\* Before it has stopped, the scan of a literal is on the line.
LEMMA PositionsOn ==
  ASSUME NEW s, IsSeq(s), NEW p \in 1 .. Len(s) + 1, NEW n \in Nat, NEW g, Positions(s, p, n, g),
         NEW m \in 0 .. n, \A i \in 0 .. m - 1 : At(s, g[i]) # End
  PROVE  g[m] \in p .. Len(s) + 1
<1>0. Len(s) \in Nat /\ g[0] = p /\ m \in Nat /\ m <= n
  BY Sequence DEF Positions
<1> DEFINE Bad == {i \in 0 .. m : g[i] \notin p .. Len(s) + 1}
<1>1. SUFFICES ASSUME Bad # {} PROVE FALSE
  BY <1>0
<1>2. PICK i \in Bad : \A j \in Bad : i <= j
  <2>1. Bad \in SUBSET Nat
    BY <1>0
  <2> HIDE DEF Bad
  <2> QED
    BY <1>1, <2>1, Least
<1>3. i # 0
  BY <1>0, <1>2
<1>4. i - 1 \in 0 .. m - 1 /\ i - 1 \in 0 .. m /\ i \in 0 .. n /\ ~ (i <= i - 1)
  BY <1>0, <1>2, <1>3
<1>5. PICK q \in p .. Len(s) + 1 : q = g[i - 1]
  BY <1>2, <1>4
<1>6. At(s, q) # End
  BY <1>4, <1>5
<1>7. q \in 1 .. Len(s)
  BY <1>0, <1>5, <1>6, AtOn
<1>8. g[i] = StepOver(s, q)
  BY <1>3, <1>4, <1>5 DEF Positions
<1>9. IsEscape(s, q) => q + 1 \in 1 .. Len(s)
  <2>1. q + 1 \in 1 .. Len(s) + 1
    BY <1>0, <1>7
  <2> QED
    BY <2>1, AtOn DEF IsEscape
<1>10. g[i] \in p .. Len(s) + 1
  BY <1>0, <1>5, <1>7, <1>8, <1>9 DEF StepOver
<1> QED
  BY <1>2, <1>10

\* A literal is a text, and the scan goes on on the line.
LEMMA Strings ==
  ASSUME NEW s, IsSeq(s), NEW p \in 1 .. Len(s) + 1
  PROVE  /\ StringToken(s, p).type = "str" /\ IsSeq(StringToken(s, p).val)
         /\ StringToken(s, p).p \in p .. Len(s) + 1
<1> DEFINE escaped(q) == At(s, q) = "\\" /\ At(s, q + 1) # End
<1> DEFINE at == CHOOSE g : g = [i \in 0 .. MaxTok |->
                    IF i = 0 THEN p ELSE g[i - 1] + (IF escaped(g[i - 1]) THEN 2 ELSE 1)]
<1> DEFINE stops(i) == At(s, at[i]) \in {End, "\""} \/ i = MaxTok - 1
<1> DEFINE n == CHOOSE i \in 0 .. MaxTok - 1 : stops(i) /\ \A j \in 0 .. i - 1 : ~ stops(j)
<1> DEFINE text == [i \in 1 .. n |-> IF escaped(at[i - 1]) THEN Unescape(s[at[i - 1] + 1])
                                ELSE s[at[i - 1]]]
<1> DEFINE closed == At(s, at[n]) = "\""
<1>1. StringToken(s, p) = Token("str", text, IF closed THEN at[n] + 1 ELSE at[n], ~ closed)
  BY DEF StringToken
<1>2. Positions(s, p, MaxTok, at)
  <2>1. \E g : Positions(s, p, MaxTok, g)
    BY PositionsExist, TokenAssumption DEF TokenAssumption
  <2> QED
    BY <2>1 DEF Positions, StepOver, IsEscape
<1> HIDE DEF at
<1>3. n \in 0 .. MaxTok - 1 /\ stops(n) /\ \A j \in 0 .. n - 1 : ~ stops(j)
  <2> DEFINE S == {i \in 0 .. MaxTok - 1 : stops(i)}
  <2>1. MaxTok \in Nat /\ MaxTok > 1
    BY TokenAssumption DEF TokenAssumption
  <2>2. MaxTok - 1 \in S
    BY <2>1
  <2> HIDE DEF stops
  <2>5. S \in SUBSET Nat
    BY <2>1
  <2>3. PICK i \in S : \A j \in S : i <= j
    BY <2>2, <2>5, Least
  <2>4. ASSUME NEW j \in 0 .. i - 1 PROVE ~ stops(j)
    <3>1. j \in 0 .. MaxTok - 1 /\ ~ (i <= j)
      BY <2>1, <2>3
    <3> QED
      BY <2>3, <3>1
  <2> QED
    BY <2>3, <2>4
<1> HIDE DEF n
<1>10. n \in Nat /\ n \in 0 .. MaxTok /\ MaxTok \in Nat
  <2>1. n \in 0 .. MaxTok - 1
    BY <1>3
  <2>2. MaxTok \in Nat /\ MaxTok > 1
    BY TokenAssumption DEF TokenAssumption
  <2> QED
    BY <2>1, <2>2
<1>4. PICK q : q = at[n]
  OBVIOUS
<1>5. q \in p .. Len(s) + 1
  <2>2. \A i \in 0 .. n - 1 : At(s, at[i]) # End
    BY <1>3
  <2> QED
    BY <1>2, <1>4, <1>10, <2>2, PositionsOn
<1>6. Len(s) \in Nat
  BY Sequence
<1>7. closed => q \in 1 .. Len(s)
  <2>1. q \in 1 .. Len(s) + 1
    BY <1>5, <1>6
  <2>2. closed => At(s, q) # End
    BY <1>4 DEF End
  <2> QED
    BY <2>1, <2>2, AtOn
<1>8. IsSeq(text)
  <2> DEFINE e(i) == IF escaped(at[i - 1]) THEN Unescape(s[at[i - 1] + 1]) ELSE s[at[i - 1]]
  <2> HIDE DEF e
  <2>2. PICK t : t = [i \in 1 .. n |-> e(i)]
    OBVIOUS
  <2>3. t \in Seq({e(i) : i \in 1 .. n})
    BY <1>10, <2>2
  <2>4. IsSeq(t)
    BY <2>3, SeqIs
  <2> QED
    BY <2>2, <2>4 DEF e
<1> HIDE DEF text, closed
<1>9. (IF closed THEN q + 1 ELSE q) \in p .. Len(s) + 1
  BY <1>5, <1>6, <1>7
<1> QED
  BY <1>1, <1>4, <1>8, <1>9 DEF Token

LEMMA Numbers ==
  ASSUME NEW s, IsSeq(s), NEW p \in 1 .. Len(s), s[p] = "-" \/ s[p] \in Digit
  PROVE  /\ NumberToken(s, p).type \in {"int", "float"}
         /\ NumberToken(s, p).p \in p + 1 .. Len(s) + 1
<1> DEFINE sign == IF s[p] = "-" THEN 1 ELSE 0
<1> DEFINE q == AfterAtMost(s, p + sign, Digit \cup {"."}, MaxNum - sign)
<1>1. Len(s) \in Nat /\ sign \in {0, 1} /\ MaxNum - sign \in Nat /\ MaxNum \in Nat \ {0}
  <2>1. Len(s) \in Nat /\ sign \in {0, 1}
    BY Sequence
  <2>2. MaxNum \in Nat /\ MaxNum > 1
    BY TokenAssumption DEF TokenAssumption
  <2> HIDE DEF sign
  <2> QED
    BY <2>1, <2>2
<1>2. p + sign \in 1 .. Len(s) + 1
  BY <1>1
<1>3. q \in p + sign .. Len(s) + 1
  <2> HIDE DEF sign
  <2> QED
    BY <1>1, <1>2, AfterAtMostOn
<1>4. q \in p + 1 .. Len(s) + 1
  <2>1. CASE s[p] = "-"
    <3>1. sign = 1
      BY <2>1
    <3> HIDE DEF q, sign
    <3> QED
      BY <1>3, <3>1
  <2>2. CASE s[p] # "-"
    <3>1. sign = 0 /\ s[p] \in Digit \cup {"."}
      BY <2>2
    <3>2. PICK n \in Nat \ {0} : n = MaxNum /\ n = MaxNum - sign /\ p = p + sign
      <4> HIDE DEF sign
      <4> QED
        BY <1>1, <3>1
    <3>3. q = AfterAtMost(s, p, Digit \cup {"."}, n)
      <4> HIDE DEF sign
      <4> QED
        BY <3>2
    <3> HIDE DEF q
    <3> QED
      BY <3>1, <3>2, <3>3, AfterAtMostPast
  <2> QED
    BY <2>1, <2>2
<1>5. \E type \in {"int", "float"} : \E v, e : NumberToken(s, p) = Token(type, v, q, e)
  <2> DEFINE digits == SubSeq(s, p + sign, q - 1)
  <2> DEFINE dots == Len(SelectSeq(digits, LAMBDA c : c = "."))
  <2> DEFINE int == IF sign = 1 THEN -Decimal(digits, IntMax + 1) ELSE Decimal(digits, IntMax)
  <2>1. NumberToken(s, p) = IF dots > 0 THEN Token("float", SubSeq(s, p, q - 1), q, dots > 1)
                            ELSE Token("int", int, q, FALSE)
    BY DEF NumberToken
  <2> HIDE DEF dots, int, q
  <2> QED
    BY <2>1
<1> HIDE DEF q
<1> QED
  BY <1>4, <1>5 DEF Token

LEMMA Idents ==
  ASSUME NEW s, IsSeq(s), NEW p \in 1 .. Len(s), s[p] \in Letters
  PROVE  IdentToken(s, p).type = "ident" /\ IdentToken(s, p).p \in p + 1 .. Len(s) + 1
<1> DEFINE q == AfterAtMost(s, p, Letters \cup Digit, MaxTok - 1)
<1>1. Len(s) \in Nat /\ MaxTok - 1 \in Nat \ {0}
  <2>1. MaxTok \in Nat /\ MaxTok > 1
    BY TokenAssumption DEF TokenAssumption
  <2> QED
    BY <2>1, Sequence
<1>2. q \in p + 1 .. Len(s) + 1
  <2>1. s[p] \in Letters \cup Digit
    OBVIOUS
  <2> QED
    BY <1>1, <2>1, AfterAtMostPast
<1>3. IdentToken(s, p) = Token("ident", SubSeq(s, p, q - 1), q, FALSE)
  BY DEF IdentToken
<1> HIDE DEF q
<1> QED
  BY <1>1, <1>2, <1>3 DEF Token

\* A token ends on the line, and takes a character of it unless the line has ended.
TokenFrom(t, s, p) ==
  /\ t.p \in p .. Len(s) + 1
  /\ t.type # "eof" => t.p \in p + 1 .. Len(s) + 1
  /\ t.type = "str" => IsSeq(t.val)

LEMMA TokenOn ==
  ASSUME NEW s, IsSeq(s), NEW p \in 1 .. Len(s) + 1
  PROVE  TokenFrom(token_at(s, p), s, p)
<1> DEFINE Fine(t) == TokenFrom(t, s, p)
<1> DEFINE c == At(s, p)
<1> DEFINE double == c = "+" /\ At(s, p + 1) = "="
<1>0. Len(s) \in Nat
  BY Sequence
<1>1. c # End => p \in 1 .. Len(s) /\ p + 1 \in 1 .. Len(s) + 1 /\ c = s[p]
  BY <1>0, AtOn
<1>3. double => p + 2 \in p + 1 .. Len(s) + 1
  <2>1. double => p + 1 \in 1 .. Len(s) + 1 /\ At(s, p + 1) # End
    BY <1>1 DEF End
  <2>2. double => p + 1 \in 1 .. Len(s)
    BY <2>1, AtOn
  <2> QED
    BY <1>0, <2>2
<1>4. Fine(Token("eof", <<>>, p, FALSE))
  BY <1>0 DEF Token, TokenFrom
<1>5. double => Fine(Token("pluseq", <<>>, p + 2, FALSE))
  BY <1>3 DEF Token, TokenFrom
<1>6. c # End => Fine(Token("eof", <<>>, p + 1, FALSE))
  BY <1>1 DEF Token, TokenFrom
<1>7. c # End => Fine(Token(Single[c], <<>>, p + 1, FALSE))
  BY <1>1, NoneIsSeq DEF Token, TokenFrom
<1>8. /\ c # End => Fine(StringToken(s, p + 1))
      /\ c # End /\ (c = "-" \/ c \in Digit) => Fine(NumberToken(s, p))
      /\ c # End /\ c \in Letters => Fine(IdentToken(s, p))
  <2>1. ASSUME c # End PROVE Fine(StringToken(s, p + 1))
    <3>1. PICK r \in 1 .. Len(s) + 1 : r = p + 1
      BY <1>1, <2>1
    <3>2. PICK t : t = StringToken(s, p + 1) /\ t.p \in r .. Len(s) + 1 /\ IsSeq(t.val)
      BY <3>1, Strings
    <3> QED
      BY <1>0, <3>1, <3>2 DEF TokenFrom
  <2>2. ASSUME c # End, c = "-" \/ c \in Digit PROVE Fine(NumberToken(s, p))
    <3>1. PICK t : /\ t = NumberToken(s, p) /\ t.p \in p + 1 .. Len(s) + 1
                   /\ t.type \in {"int", "float"}
      BY <1>1, <2>2, Numbers
    <3> QED
      BY <1>0, <3>1 DEF TokenFrom
  <2>3. ASSUME c # End, c \in Letters PROVE Fine(IdentToken(s, p))
    <3>1. PICK t : /\ t = IdentToken(s, p) /\ t.p \in p + 1 .. Len(s) + 1
                   /\ t.type = "ident"
      BY <1>1, <2>3, Idents
    <3> QED
      BY <1>0, <3>1 DEF TokenFrom
  <2> QED
    BY <2>1, <2>2, <2>3
<1>9. End \notin DOMAIN Single /\ End \notin Digit /\ End \notin Letters
  <2>1. End \notin Digit /\ End \notin Letters
    BY TokenAssumption DEF TokenAssumption
  <2>2. DOMAIN Single \subseteq {"#", "+", "=", "[", "]", ","}
    BY DEF Single
  <2>3. End \notin {"#", "+", "=", "[", "]", ","}
    BY DEF End
  <2> QED
    BY <2>1, <2>2, <2>3
<1> DEFINE t == token_at(s, p)
<1>10. t = CASE c \in {End, "\n"} -> Token("eof", <<>>, p, FALSE)
       [] c = "\"" -> StringToken(s, p + 1)
       [] double -> Token("pluseq", <<>>, p + 2, FALSE)
       [] c \in DOMAIN Single /\ ~ double -> Token(Single[c], <<>>, p + 1, FALSE)
       [] c \in Digit \/ (c = "-" /\ At(s, p + 1) \in Digit) -> NumberToken(s, p)
       [] c \in Letters -> IdentToken(s, p)
       [] OTHER -> Token("eof", <<>>, p + 1, FALSE)
  BY DEF token_at
<1> HIDE DEF t, c, Fine
<1>11. Fine(t)
  BY <1>4, <1>5, <1>6, <1>7, <1>8, <1>9, <1>10 DEF End
<1> QED
  BY <1>11 DEF Fine, t

LEMMA NextOn ==
  ASSUME NEW s, IsSeq(s), NEW p \in 1 .. Len(s) + 1
  PROVE  TokenFrom(next_tok(s, p), s, p)
<1>1. PICK q \in p .. Len(s) + 1 : q = lex_skip_ws(s, p)
  BY AfterOn DEF lex_skip_ws
<1>2. q \in 1 .. Len(s) + 1 /\ Len(s) \in Nat
  BY Sequence
<1>3. PICK t : t = next_tok(s, p) /\ TokenFrom(t, s, q)
  BY <1>1, <1>2, TokenOn DEF next_tok
<1> QED
  BY <1>1, <1>2, <1>3 DEF TokenFrom

\* The buffer of eval_rhs, doubled until it has room for len.
Doublings(cap, len, k) == {c \in cap .. cap + 2 * len : c + k >= len}
Doubled(D, len, g) == g = [c \in D |-> IF c < len THEN g[2 * c] ELSE c]

LEMMA DoubledExists ==
  ASSUME NEW cap \in Nat \ {0}, NEW len \in Nat, NEW k \in Nat
  PROVE  \E g : Doubled(Doublings(cap, len, k), len, g)
<1> DEFINE D(n) == Doublings(cap, len, n)
<1> DEFINE Bad == {n \in Nat : ~ \E g : Doubled(D(n), len, g)}
<1>1. SUFFICES ASSUME Bad # {} PROVE FALSE
  OBVIOUS
<1>2. PICK n \in Bad : \A m \in Bad : n <= m
  <2>1. Bad \in SUBSET Nat
    OBVIOUS
  <2> HIDE DEF Bad
  <2> QED
    BY <1>1, <2>1, Least
<1>3. CASE n = 0
  <2> DEFINE g == [c \in D(0) |-> c]
  <2>1. ASSUME NEW c \in D(0) PROVE ~ (c < len)
    BY DEF Doublings
  <2>2. g = [c \in D(0) |-> IF c < len THEN g[2 * c] ELSE c]
    BY <2>1
  <2> QED
    BY <1>3, <2>2 DEF Doubled
<1>4. CASE n # 0
  <2>1. n \in Nat /\ n - 1 \in Nat /\ ~ (n <= n - 1)
    BY <1>4
  <2>2. PICK g : Doubled(D(n - 1), len, g)
    BY <1>2, <2>1
  <2> DEFINE h == [c \in D(n) |-> IF c < len THEN g[2 * c] ELSE c]
  <2>3. ASSUME NEW c \in D(n - 1) PROVE h[c] = g[c]
    <3>1. c \in D(n)
      BY <2>1 DEF Doublings
    <3>2. g[c] = IF c < len THEN g[2 * c] ELSE c
      BY <2>2 DEF Doubled
    <3> QED
      BY <3>1, <3>2
  <2>4. ASSUME NEW c \in D(n), c < len PROVE 2 * c \in D(n - 1)
    BY <2>1, <2>4 DEF Doublings
  <2>5. ASSUME NEW c \in D(n), c < len PROVE h[2 * c] = g[2 * c]
    BY <2>3, <2>4, <2>5
  <2>6. h = [c \in D(n) |-> IF c < len THEN h[2 * c] ELSE c]
    <3>1. h = [c \in D(n) |-> IF c < len THEN g[2 * c] ELSE c]
      OBVIOUS
    <3> HIDE DEF h, D
    <3> QED
      BY <2>5, <3>1
  <2> HIDE DEF h
  <2> QED
    BY <1>2, <2>6 DEF Doubled
<1> QED
  BY <1>3, <1>4

\* A buffer that is given room has it.
LEMMA GrownFits ==
  ASSUME NEW cap \in Nat \ {0}, NEW len \in Nat
  PROVE  Grown(cap, len) \in Nat /\ len <= Grown(cap, len)
<1> DEFINE D == cap .. cap + 2 * len
<1> DEFINE g == CHOOSE f : f = [c \in D |-> IF c < len THEN f[2 * c] ELSE c]
<1>1. Grown(cap, len) = g[cap]
  BY DEF Grown
<1>2. D = Doublings(cap, len, len)
  BY DEF Doublings
<1>3. Doubled(D, len, g)
  <2>1. \E f : Doubled(D, len, f)
    BY <1>2, DoubledExists
  <2> QED
    BY <2>1 DEF Doubled
<1> HIDE DEF g
<1>4. ASSUME NEW c \in D PROVE g[c] = IF c < len THEN g[2 * c] ELSE c
  BY <1>3 DEF Doubled
<1> DEFINE Bad == {n \in Nat : n <= len /\ \E c \in D : c + n >= len /\ ~ (g[c] \in Nat /\ len <= g[c])}
<1>5. SUFFICES ASSUME ~ (g[cap] \in Nat /\ len <= g[cap]) PROVE FALSE
  BY <1>1
<1>6. len \in Bad
  BY <1>5
<1>7. PICK n \in Bad : \A m \in Bad : n <= m
  <2>1. Bad \in SUBSET Nat
    OBVIOUS
  <2> HIDE DEF Bad
  <2> QED
    BY <1>6, <2>1, Least
<1>8. PICK c \in D : c + n >= len /\ ~ (g[c] \in Nat /\ len <= g[c])
  BY <1>7
<1>9. c < len /\ g[c] = g[2 * c]
  BY <1>4, <1>8
<1>10. n \in Nat /\ n - 1 \in Nat /\ n - 1 <= len /\ ~ (n <= n - 1)
  BY <1>7, <1>8, <1>9
<1>11. 2 * c \in D /\ 2 * c + (n - 1) >= len
  BY <1>8, <1>9, <1>10
<1>12. n - 1 \in Bad
  BY <1>8, <1>9, <1>10, <1>11
<1> QED
  BY <1>7, <1>10, <1>12

-----------------------------------------------------------------------------
(* What is read and joined *)

\* The text of a value that has one is there.
TextIn(x) ==
  /\ x.type \in {"int", "float", "bool", "str", "null", "array"}
  /\ x.type = "str" => IsSeq(x.s)
  /\ x.type = "float" => IsSeq(Shown[x.f])
HeapRead(h) == \A a \in 1 .. Len(h) : TextIn(h[a])

\* The scan is on its line, which is one of a file, and the buffer has room for
\* the end of its text.
LineTexts == {trim(raw) : raw \in Lines} \cup {<<>>}
LineRead(l) ==
  /\ l.text \in LineTexts /\ l.p \in 1 .. Len(l.text) + 1
  /\ IsSeq(l.es) /\ IsSeq(l.buf)
  /\ l.buf # NoText => l.cap \in Nat /\ Len(l.buf) < l.cap

ReadInv == HeapRead(heap) /\ LineRead(ln)

LEMMA LineIsSeq == \A s \in LineTexts : IsSeq(s)
<1>1. ASSUME NEW raw \in Lines PROVE IsSeq(trim(raw))
  BY Trims, SeqIs, CfgAssumption DEF CfgAssumption
<1> QED
  BY <1>1, NoneIsSeq DEF LineTexts

LEMMA NoneEnds == \A s : s = <<>> => next_tok(s, 1).type = "eof"
<1> SUFFICES ASSUME NEW s, s = <<>> PROVE next_tok(s, 1).type = "eof"
  OBVIOUS
<1>1. IsSeq(s) /\ Len(s) = 0 /\ 1 \in 1 .. Len(s) + 1
  BY NoneIsSeq, NoLength
<1>2. PICK q \in 1 .. Len(s) + 1 : q = lex_skip_ws(s, 1)
  BY <1>1, AfterOn DEF lex_skip_ws
<1>3. q = 1 /\ At(s, 1) = End
  BY <1>1, <1>2, Sequence DEF At
<1>4. next_tok(s, 1) = token_at(s, 1)
  BY <1>2, <1>3 DEF next_tok
<1>9. End \notin DOMAIN Single /\ End \notin Digit /\ End \notin Letters
  <2>1. End \notin Digit /\ End \notin Letters
    BY TokenAssumption DEF TokenAssumption
  <2>2. End \notin DOMAIN Single
    BY DEF Single, End
  <2> QED
    BY <2>1, <2>2
<1>10. token_at(s, 1) = Token("eof", <<>>, 1, FALSE)
  BY <1>3, <1>9 DEF token_at, End
<1> QED
  BY <1>4, <1>10 DEF Token

\* A token of a line, as TokAt gives it.
TokenRead(tok) ==
  /\ tok.p \in 1 .. Len(ln.text) + 1
  /\ tok.type = "str" => IsSeq(tok.val)
  /\ tok.type = "float" => IsSeq(Shown[tok.val])

LEMMA TokensRead ==
  ASSUME LineRead(ln), NEW p \in 1 .. Len(ln.text) + 1
  PROVE  TokenRead(TokAt(p))
<1>1. PICK s \in LineTexts : s = ln.text
  BY DEF LineRead
<1>2. PICK tok : tok = next_tok(s, p)
  OBVIOUS
<1>3. IsSeq(s)
  BY LineIsSeq
<1>4. tok.p \in 1 .. Len(s) + 1 /\ (tok.type = "str" => IsSeq(tok.val))
  <2>1. TokenFrom(tok, s, p) /\ Len(s) \in Nat
    BY <1>1, <1>2, <1>3, NextOn, Sequence
  <2> QED
    BY <1>1, <2>1 DEF TokenFrom
<1>5. ASSUME tok.type = "float" PROVE IsSeq(Shown[tok.val])
  <2>1. CASE s = <<>>
    BY <1>1, <1>2, <1>5, <2>1, NoneEnds, NoLength
  <2>2. CASE \E raw \in Lines : s = trim(raw)
    <3>1. PICK raw \in Lines : s = trim(raw)
      BY <2>2
    <3>2. Shown[tok.val] \in Seq(STRING)
      BY <1>1, <1>2, <1>5, <3>1, ShownAssumption DEF ShownAssumption
    <3> QED
      BY <3>2, SeqIs
  <2> QED
    BY <2>1, <2>2 DEF LineTexts
<1> QED
  BY <1>1, <1>2, <1>4, <1>5 DEF TokenRead, TokAt

LEMMA OneMoreRead ==
  ASSUME HeapInv, HeapRead(heap), NEW x, TextIn(x), heap' = Append(heap, x)
  PROVE  HeapRead(heap')
<1>1. PICK g, h : h = heap /\ g = heap' /\ g = Append(h, x) /\ IsSeq(h)
  BY DEF HeapInv
<1>2. /\ Len(g) = Len(h) + 1 /\ g[Len(h) + 1] = x /\ \A i \in 1 .. Len(h) : g[i] = h[i]
      /\ Len(h) \in Nat
  BY <1>1, Appended, Sequence
<1>3. ASSUME NEW a \in 1 .. Len(g) PROVE TextIn(g[a])
  BY <1>1, <1>2 DEF HeapRead
<1> QED
  BY <1>1, <1>3 DEF HeapRead

LEMMA AllocRead ==
  ASSUME HeapInv, HeapRead(heap), NEW x, TextIn(x), NEW a, Alloc(x, a)
  PROVE  HeapRead(heap')
BY OneMoreRead DEF Alloc

LEMMA AllocStrRead ==
  ASSUME HeapInv, HeapRead(heap), NEW s, IsSeq(s), NEW a, AllocStr(s, a)
  PROVE  HeapRead(heap')
<1>1. IsSeq(NoText)
  BY OneIsSeq DEF NoText
<1>2. TextIn(var_str(s)) /\ TextIn(var_str(NoText))
  BY <1>1 DEF TextIn, var_str
<1> QED
  BY <1>2, AllocRead, OneMoreRead DEF AllocStr

LEMMA PushRead ==
  ASSUME HeapInv, HeapRead(heap), NEW c \in ArraysOf(heap), NEW v \in 1 .. Len(heap),
         heap' = var_push(heap, c, v)
  PROVE  HeapRead(heap')
<1>1. IsSeq(heap) /\ IsSeq(heap') /\ DOMAIN heap' = DOMAIN heap
  BY Pushed DEF HeapInv, var_push
<1>2. 1 .. Len(heap') = 1 .. Len(heap)
  BY <1>1, Sequence
<1>3. \A a \in 1 .. Len(heap) : a # c => heap'[a] = heap[a]
  BY PushedOne
<1>4. heap'[c].type = "array"
  BY Pushed DEF Grows, ArraysOf
<1> QED
  BY <1>2, <1>3, <1>4 DEF HeapRead, TextIn

\* What var_to_str makes of a value is a text.
LEMMA TextsRead ==
  ASSUME HeapRead(heap), NEW a \in 0 .. Len(heap), NEW text \in Texts(a)
  PROVE  IsSeq(text)
<1>1. IsSeq(<<"null">>) /\ IsSeq(<<"[array]">>)
  BY OneIsSeq
<1>2. \A c : IsSeq(<<c>>)
  BY OneIsSeq
<1>3. CASE text = <<>>
  BY <1>3, NoneIsSeq
<1>4. CASE text = var_to_str(heap, a) /\ a = Null
  BY <1>1, <1>4 DEF var_to_str
<1>5. CASE text = var_to_str(heap, a) /\ a # Null
  <2>1. TextIn(heap[a])
    BY <1>5 DEF HeapRead, Null
  <2> QED
    BY <1>2, <1>5, <2>1 DEF TextIn, var_to_str
<1> QED
  BY <1>3, <1>4, <1>5 DEF Texts

-----------------------------------------------------------------------------
(* The ways a step ends *)

LEMMA GoRead ==
  ASSUME HeapRead(heap'), NEW l, IsLine(l), LineRead(l), NEW at, NEW tok, Go(at, l, tok)
  PROVE  ReadInv'
<1>1. PICK m : m = ln'
  OBVIOUS
<1>2. m.text = l.text /\ m.p = l.p /\ m.es = l.es /\ m.buf = l.buf /\ m.cap = l.cap
  BY <1>1 DEF Go, IsLine
<1>3. LineRead(m)
  BY <1>2 DEF LineRead
<1> QED
  BY <1>1, <1>3 DEF ReadInv

LEMMA NoLineRead == LineRead(NoLine)
<1>1. PICK e : e = <<>>
  OBVIOUS
<1>2. PICK l : l = NoLine
  OBVIOUS
<1>3. l.text = e /\ l.p = 1 /\ l.es = e /\ l.buf = NoText
  BY <1>1, <1>2 DEF NoLine
<1>4. IsSeq(e) /\ Len(e) = 0 /\ e \in LineTexts
  BY <1>1, NoneIsSeq, NoLength DEF LineTexts
<1>5. IsSeq(NoText)
  BY OneIsSeq DEF NoText
<1> QED
  BY <1>2, <1>3, <1>4, <1>5 DEF LineRead

LEMMA ReturnRead ==
  ASSUME HeapRead(heap'), NEW bad, Return(bad)
  PROVE  ReadInv'
BY NoLineRead DEF Return, ReadInv

\* The locals change but for what they have read and joined.
LEMMA AsIsRead ==
  ASSUME CfgInv, ReadInv, HeapRead(heap'), NEW l, IsLine(l), NEW at, NEW tok, Go(at, l, tok),
         l.text = ln.text, l.p = ln.p, l.es = ln.es, l.buf = ln.buf, l.cap = ln.cap
  PROVE  ReadInv'
<1>1. LineRead(l)
  BY DEF ReadInv, LineRead
<1> QED
  BY <1>1, GoRead

\* ... and the scan has gone on.
LEMMA OnRead ==
  ASSUME CfgInv, ReadInv, HeapRead(heap'), NEW l, IsLine(l), NEW at, NEW tok, Go(at, l, tok),
         l.text = ln.text, l.p \in 1 .. Len(ln.text) + 1, l.es = ln.es, l.buf = ln.buf, l.cap = ln.cap
  PROVE  ReadInv'
<1>1. LineRead(l)
  BY DEF ReadInv, LineRead
<1> QED
  BY <1>1, GoRead

LEMMA YieldRead ==
  ASSUME CfgInv, ReadInv, HeapRead(heap'), NEW a, NEW p \in 1 .. Len(ln.text) + 1, NEW tok,
         Yield(a, p, tok)
  PROVE  ReadInv'
<1>1. PICK l, at : l = [ln EXCEPT !.val = a, !.p = p] /\ Go(at, l, tok)
  BY DEF Yield
<1>2. /\ IsLine(l) /\ l.text = ln.text /\ l.p = p /\ l.es = ln.es /\ l.buf = ln.buf
      /\ l.cap = ln.cap
  BY <1>1 DEF CfgInv, LineInv, LineOn, IsLine
<1> QED
  BY <1>1, <1>2, OnRead

LEMMA NullRead ==
  ASSUME CfgInv, ReadInv, NEW a, Alloc(var_null, a)
  PROVE  HeapRead(heap')
<1>1. TextIn(var_null)
  BY DEF TextIn, var_null
<1> QED
  BY <1>1, AllocRead DEF CfgInv, ReadInv

LEMMA OrNullRead ==
  ASSUME CfgInv, ReadInv, NEW a, NEW p \in 1 .. Len(ln.text) + 1, NEW tok, OrNull(a, p, tok)
  PROVE  ReadInv'
<1>1. CASE Keep /\ Yield(a, p, tok)
  BY <1>1, YieldRead DEF Keep, ReadInv
<1>2. CASE \E x \in New : Alloc(var_null, x) /\ Yield(x, p, tok)
  BY <1>2, NullRead, YieldRead
<1> QED
  BY <1>1, <1>2 DEF OrNull

LEMMA ToStoreRead ==
  ASSUME CfgInv, ReadInv, NEW a, NEW tok, ToStore(a, tok)
  PROVE  ReadInv'
<1>1. ASSUME NEW x, HeapRead(heap'), NEW l, l = [ln EXCEPT !.val = x], Go("store", l, tok)
      PROVE  ReadInv'
  <2>1. /\ IsLine(l) /\ l.text = ln.text /\ l.p = ln.p /\ l.es = ln.es /\ l.buf = ln.buf
        /\ l.cap = ln.cap
    BY <1>1 DEF CfgInv, LineInv, LineOn, IsLine
  <2> QED
    BY <1>1, <2>1, AsIsRead
<1>2. CASE Keep /\ Go("store", [ln EXCEPT !.val = a], tok)
  BY <1>1, <1>2 DEF Keep, ReadInv
<1>3. CASE \E x \in New : Alloc(var_null, x) /\ Go("store", [ln EXCEPT !.val = x], tok)
  BY <1>1, <1>3, NullRead
<1> QED
  BY <1>2, <1>3 DEF ToStore

-----------------------------------------------------------------------------
(* The steps *)

LEMMA ParseReads ==
  ASSUME CfgInv, ReadInv, ParseLine
  PROVE  ReadInv'
<1>1. LineRead(ln) /\ HeapRead(heap) /\ ln.p \in 1 .. Len(ln.text) + 1
  BY DEF ReadInv, LineRead
<1>2. TokenRead(Tok)
  BY <1>1, TokensRead DEF Tok
<1>3. PICK tok : /\ TokenRead(tok)
                 /\ \/ BlankLine(tok) \/ NoKey(tok) \/ Include(tok) \/ Display(tok)
                    \/ \E op \in {TokAt(tok.p)} :
                         KeyEq(tok, op) \/ KeyPlusEq(tok, op) \/ NoOperator(op)
  BY <1>2 DEF ParseLine
<1>4. TokenRead(TokAt(tok.p))
  BY <1>1, <1>3, TokensRead DEF TokenRead
<1>5. ASSUME NEW bad, Nothing(bad) PROVE ReadInv'
  BY <1>1, <1>5, ReturnRead DEF Nothing, Keep
<1>6. ASSUME NEW path, NEW depth, Open(path, depth) PROVE ReadInv'
  BY <1>1, <1>6, NoLineRead DEF Open, Keep, ReadInv
<1>7. CASE Display(tok)
  <2>1. PICK l : l = [ln EXCEPT !.mode = "display", !.p = tok.p]
    OBVIOUS
  <2>2. /\ IsLine(l) /\ l.text = ln.text /\ l.p = tok.p /\ l.es = ln.es /\ l.buf = ln.buf
        /\ l.cap = ln.cap
    BY <2>1 DEF CfgInv, LineInv, LineOn, IsLine
  <2>3. Go("rhs", l, tok) /\ HeapRead(heap')
    BY <1>1, <1>7, <2>1 DEF Display, Keep
  <2> QED
    BY <1>3, <2>2, <2>3, OnRead DEF TokenRead
<1>8. ASSUME NEW op, TokenRead(op), KeyEq(tok, op) PROVE ReadInv'
  <2>1. PICK l : l = [ln EXCEPT !.mode = "set", !.key = tok.val, !.p = op.p]
    OBVIOUS
  <2>2. /\ IsLine(l) /\ l.text = ln.text /\ l.p = op.p /\ l.es = ln.es /\ l.buf = ln.buf
        /\ l.cap = ln.cap
    BY <2>1 DEF CfgInv, LineInv, LineOn, IsLine
  <2>3. Go("rhs", l, op) /\ HeapRead(heap')
    BY <1>1, <1>8, <2>1 DEF KeyEq, Keep
  <2> QED
    BY <1>8, <2>2, <2>3, OnRead DEF TokenRead
<1>9. ASSUME NEW op, TokenRead(op), KeyPlusEq(tok, op) PROVE ReadInv'
  <2>1. PICK a, es : /\ a = dict_get(tok.val) /\ es \in Texts(a)
                     /\ (a = Null => es = <<>>)
                     /\ Go("rhs", [ln EXCEPT !.mode = "append", !.key = tok.val,
                                             !.p = op.p, !.es = es], op)
    BY <1>9 DEF KeyPlusEq
  <2>2. a \in 0 .. Len(heap)
    BY <2>1, Gets DEF CfgInv
  <2>3. IsSeq(es)
    BY <1>1, <2>1, <2>2, TextsRead
  <2>4. PICK l : l = [ln EXCEPT !.mode = "append", !.key = tok.val, !.p = op.p, !.es = es]
    OBVIOUS
  <2>5. /\ IsLine(l) /\ l.text = ln.text /\ l.p = op.p /\ l.es = es /\ l.buf = ln.buf
        /\ l.cap = ln.cap
    BY <2>4 DEF CfgInv, LineInv, LineOn, IsLine
  <2>6. LineRead(l)
    BY <1>1, <1>9, <2>3, <2>5 DEF LineRead, TokenRead
  <2>7. Go("rhs", l, op) /\ HeapRead(heap')
    BY <1>1, <1>9, <2>1, <2>4 DEF KeyPlusEq
  <2> QED
    BY <2>5, <2>6, <2>7, GoRead
<1> QED
  BY <1>3, <1>4, <1>5, <1>6, <1>7, <1>8, <1>9 DEF BlankLine, NoKey, Include, NoOperator

LEMMA LiteralRead ==
  ASSUME CfgInv, ReadInv, NEW tok, TokenRead(tok), Literal(tok)
  PROVE  ReadInv'
<1>1. PICK a \in New :
        /\ \/ tok.type = "str" /\ AllocStr(tok.val, a)
           \/ tok.type = "int" /\ Alloc(var_int(tok.val), a)
           \/ tok.type = "float" /\ Alloc(var_float(tok.val), a)
           \/ \E x \in {var_bool(TRUE), var_bool(FALSE), var_null} : Alloc(x, a)
        /\ Yield(a, tok.p, tok)
  BY DEF Literal
<1>2. HeapRead(heap) /\ HeapInv
  BY DEF ReadInv, CfgInv
<1>3. HeapRead(heap')
  <2>1. CASE tok.type = "str" /\ AllocStr(tok.val, a)
    BY <1>2, <2>1, AllocStrRead DEF TokenRead
  <2>2. ASSUME NEW x, TextIn(x), Alloc(x, a) PROVE HeapRead(heap')
    BY <1>2, <2>2, AllocRead
  <2>3. /\ TextIn(var_int(tok.val)) /\ TextIn(var_bool(TRUE)) /\ TextIn(var_bool(FALSE))
        /\ TextIn(var_null) /\ (tok.type = "float" => TextIn(var_float(tok.val)))
    BY DEF TextIn, var_int, var_float, var_bool, var_null, TokenRead
  <2> QED
    BY <1>1, <2>1, <2>2, <2>3
<1> QED
  BY <1>1, <1>3, YieldRead DEF TokenRead

LEMMA BeginRead ==
  ASSUME CfgInv, ReadInv, NEW tok, TokenRead(tok), BeginArray(tok)
  PROVE  ReadInv'
<1>1. PICK a, at :
        /\ Alloc(var_array, a)
        /\ Go(at, [ln EXCEPT !.nest = IF a = Null THEN @ ELSE Append(@, a), !.p = tok.p], tok)
  BY DEF BeginArray
<1>2. PICK s, t : s = ln.nest /\ t = (IF a = Null THEN s ELSE Append(s, a))
  OBVIOUS
<1>3. PICK l : l = [ln EXCEPT !.nest = t, !.p = tok.p]
  OBVIOUS
<1>4. /\ IsLine(l) /\ l.text = ln.text /\ l.p = tok.p /\ l.es = ln.es /\ l.buf = ln.buf
      /\ l.cap = ln.cap
  BY <1>3 DEF CfgInv, LineInv, LineOn, IsLine
<1>5. Go(at, l, tok)
  BY <1>1, <1>2, <1>3
<1>6. TextIn(var_array)
  BY DEF TextIn, var_array
<1>7. HeapRead(heap')
  BY <1>1, <1>6, AllocRead DEF CfgInv, ReadInv
<1> QED
  BY <1>4, <1>5, <1>7, OnRead DEF TokenRead

LEMMA AtomReads ==
  ASSUME CfgInv, ReadInv, ReadAtom
  PROVE  ReadInv'
<1>1. LineRead(ln) /\ ln.p \in 1 .. Len(ln.text) + 1
  BY DEF ReadInv, LineRead
<1>2. TokenRead(Tok)
  BY <1>1, TokensRead DEF Tok
<1>3. PICK tok : /\ TokenRead(tok)
                 /\ \/ Literal(tok) \/ BeginArray(tok) \/ NoAtom(tok)
                    \/ \E next \in {TokAt(tok.p)} : Reference(tok, next) \/ Indexed(tok, next)
  BY <1>2 DEF ReadAtom
<1>4. TokenRead(TokAt(tok.p))
  BY <1>1, <1>3, TokensRead DEF TokenRead
<1>5. CASE NoAtom(tok)
  BY <1>3, <1>5, NullRead, YieldRead DEF NoAtom, TokenRead
<1>6. ASSUME NEW next, Reference(tok, next) PROVE ReadInv'
  <2>1. PICK a : OrNull(a, tok.p, next)
    BY <1>6 DEF Reference
  <2> QED
    BY <1>3, <2>1, OrNullRead DEF TokenRead
<1>7. ASSUME NEW next, TokenRead(next), Indexed(tok, next) PROVE ReadInv'
  <2>1. PICK idx, rb, a, e : idx = TokAt(next.p) /\ rb = TokAt(idx.p) /\ OrNull(a, rb.p, e)
    BY <1>7 DEF Indexed
  <2>2. TokenRead(idx)
    BY <1>1, <1>7, <2>1, TokensRead DEF TokenRead
  <2>3. TokenRead(rb)
    BY <1>1, <2>1, <2>2, TokensRead DEF TokenRead
  <2> QED
    BY <2>1, <2>3, OrNullRead DEF TokenRead
<1> QED
  BY <1>3, <1>4, <1>5, <1>6, <1>7, LiteralRead, BeginRead

LEMMA ItemsRead ==
  ASSUME CfgInv, ReadInv, Items
  PROVE  ReadInv'
<1>1. LineRead(ln) /\ ln.p \in 1 .. Len(ln.text) + 1 /\ HeapRead(heap')
  BY DEF ReadInv, LineRead, Items, Keep
<1>2. TokenRead(Tok)
  BY <1>1, TokensRead DEF Tok
<1>3. PICK tok, at :
        /\ TokenRead(tok)
        /\ \/ Go("atom", ln, tok)
           \/ Go("items", [ln EXCEPT !.p = tok.p], tok)
           \/ Go("items", [ln EXCEPT !.p = tok.p, !.error = TRUE], tok)
           \/ Go(at, [ln EXCEPT !.val = ln.nest[Len(ln.nest)],
                                !.nest = SubSeq(@, 1, Len(ln.nest) - 1),
                                !.p = IF tok.type = "rbracket" THEN tok.p ELSE @], tok)
  BY <1>2 DEF Items, Past
<1>4. CASE Go("atom", ln, tok)
  <2>1. PICK l : l = ln
    OBVIOUS
  <2>2. IsLine(l)
    BY <2>1 DEF CfgInv, LineInv, LineOn
  <2> QED
    BY <1>1, <1>4, <2>1, <2>2, AsIsRead
<1>5. ASSUME NEW l, l = [ln EXCEPT !.p = tok.p] \/ l = [ln EXCEPT !.p = tok.p, !.error = TRUE],
             Go("items", l, tok)
      PROVE  ReadInv'
  <2>1. /\ IsLine(l) /\ l.text = ln.text /\ l.p = tok.p /\ l.es = ln.es /\ l.buf = ln.buf
        /\ l.cap = ln.cap
    BY <1>5 DEF CfgInv, LineInv, LineOn, IsLine
  <2> QED
    BY <1>1, <1>3, <1>5, <2>1, OnRead DEF TokenRead
<1>6. CASE Go(at, [ln EXCEPT !.val = ln.nest[Len(ln.nest)],
                             !.nest = SubSeq(@, 1, Len(ln.nest) - 1),
                             !.p = IF tok.type = "rbracket" THEN tok.p ELSE @], tok)
  <2>1. PICK s, v, t, q : /\ s = ln.nest /\ v = s[Len(s)] /\ t = SubSeq(s, 1, Len(s) - 1)
                          /\ q = IF tok.type = "rbracket" THEN tok.p ELSE ln.p
    OBVIOUS
  <2>2. PICK l : l = [ln EXCEPT !.val = v, !.nest = t, !.p = q]
    OBVIOUS
  <2>3. /\ IsLine(l) /\ l.text = ln.text /\ l.p = q /\ l.es = ln.es /\ l.buf = ln.buf
        /\ l.cap = ln.cap
    BY <2>2 DEF CfgInv, LineInv, LineOn, IsLine
  <2>4. Go(at, l, tok)
    BY <1>6, <2>1, <2>2
  <2>5. q \in 1 .. Len(ln.text) + 1
    BY <1>1, <1>3, <2>1 DEF TokenRead
  <2> QED
    BY <1>1, <2>3, <2>4, <2>5, OnRead
<1> QED
  BY <1>3, <1>4, <1>5, <1>6

LEMMA PushesRead ==
  ASSUME CfgInv, ReadInv, Push
  PROVE  ReadInv'
<1>1. PICK A, s, n : A = ArraysOf(heap) /\ s = ln.nest /\ n = Len(s)
  OBVIOUS
<1>2. s \in Seq(A) /\ n \in Nat \ {0} /\ Len(s) = n
  <2>1. s \in Seq(A) /\ s # <<>>
    BY <1>1 DEF CfgInv, LineInv, LineOn, Push
  <2> QED
    BY <1>1, <2>1
<1>3. PICK a \in ArraysOf(heap) : a = ln.nest[Len(ln.nest)]
  BY <1>1, <1>2
<1>4. PICK v \in 0 .. Len(heap) : v = ln.val
  BY DEF CfgInv, LineInv, LineOn
<1>5. HeapRead(heap')
  <2>1. CASE v # Null /\ heap' = var_push(heap, a, v)
    <3>1. v \in 1 .. Len(heap)
      BY <2>1, Sequence DEF CfgInv, HeapInv, Null
    <3> QED
      BY <2>1, <3>1, PushRead DEF CfgInv, ReadInv
  <2>2. CASE UNCHANGED heap
    BY <2>2 DEF ReadInv
  <2> QED
    BY <1>3, <1>4, <2>1, <2>2 DEF Push, Keep
<1>6. PICK l : l = ln
  OBVIOUS
<1>7. IsLine(l) /\ Go("items", l, NoTok)
  BY <1>6 DEF Push, CfgInv, LineInv, LineOn
<1> QED
  BY <1>5, <1>6, <1>7, AsIsRead

LEMMA AsIs ==
  ASSUME CfgInv, ReadInv, NEW at, NEW tok, Go(at, ln, tok), HeapRead(heap')
  PROVE  ReadInv'
<1>1. PICK l : l = ln
  OBVIOUS
<1>2. IsLine(l)
  BY <1>1 DEF CfgInv, LineInv, LineOn
<1> QED
  BY <1>1, <1>2, AsIsRead

LEMMA BeginsRead ==
  ASSUME CfgInv, ReadInv, NEW tok, BeginConcat(tok)
  PROVE  ReadInv'
<1>1. UNCHANGED heap /\ HeapRead(heap) /\ HeapRead(heap') /\ LineRead(ln)
  BY DEF BeginConcat, ReadInv
<1>2. CASE Go("single", ln, tok)
  BY <1>1, <1>2, AsIs
<1>3. ASSUME NEW text \in Texts(ln.val), NEW cap,
             cap = (IF Len(text) + 1 > ConcatCap THEN Len(text) + 1 ELSE ConcatCap),
             Go("plus", [ln EXCEPT !.buf = text, !.cap = cap], tok)
      PROVE  ReadInv'
  <2>1. IsSeq(text) /\ Len(text) \in Nat
    BY <1>1, TextsRead, Sequence DEF CfgInv, LineInv, LineOn
  <2>2. cap \in Nat /\ Len(text) < cap
    <3>1. ConcatCap \in Nat
      BY CfgAssumption DEF CfgAssumption
    <3> QED
      BY <1>3, <2>1, <3>1
  <2>3. PICK l : l = [ln EXCEPT !.buf = text, !.cap = cap]
    OBVIOUS
  <2>4. /\ IsLine(l) /\ l.text = ln.text /\ l.p = ln.p /\ l.es = ln.es /\ l.buf = text
        /\ l.cap = cap
    BY <2>3 DEF CfgInv, LineInv, LineOn, IsLine
  <2>5. LineRead(l)
    BY <1>1, <2>1, <2>2, <2>4 DEF LineRead
  <2> QED
    BY <1>1, <1>3, <2>3, <2>4, <2>5, GoRead
<1> QED
  BY <1>2, <1>3 DEF BeginConcat

LEMMA AddsRead ==
  ASSUME CfgInv, ReadInv, AddOperand
  PROVE  ReadInv'
<1>1. UNCHANGED heap /\ HeapRead(heap) /\ HeapRead(heap') /\ LineRead(ln)
  BY DEF AddOperand, ReadInv
<1>2. CASE Go("text", ln, NoTok)
  BY <1>1, <1>2, AsIs
<1>3. ASSUME NEW text \in Texts(ln.val),
             Go("plus", [ln EXCEPT !.buf = Joined(@, text),
                                   !.cap = Grown(@, Len(ln.buf) + Len(text) + 1)], NoTok)
      PROVE  ReadInv'
  <2>1. IsSeq(text) /\ Len(text) \in Nat
    BY <1>1, TextsRead, Sequence DEF CfgInv, LineInv, LineOn
  <2>2. IsSeq(ln.buf) /\ Len(ln.buf) \in Nat /\ ln.cap \in Nat \ {0}
    <3>1. IsSeq(ln.buf) /\ ln.cap \in Nat /\ Len(ln.buf) < ln.cap
      BY <1>1 DEF LineRead, AddOperand
    <3>2. PICK n \in Nat : n = Len(ln.buf)
      BY <3>1, Sequence
    <3> QED
      BY <3>1, <3>2
  <2>3. PICK buf, cap, len : /\ buf = ln.buf \o text /\ len = Len(ln.buf) + Len(text) + 1
                             /\ cap = Grown(ln.cap, len)
    OBVIOUS
  <2>4. IsSeq(buf) /\ Len(buf) = Len(ln.buf) + Len(text)
    <3>1. PICK s : s = ln.buf
      OBVIOUS
    <3> QED
      BY <2>1, <2>2, <2>3, <3>1, Concatenated
  <2>5. cap \in Nat /\ len <= cap /\ len \in Nat
    <3>1. len \in Nat
      BY <2>1, <2>2, <2>3
    <3>2. PICK c \in Nat \ {0} : c = ln.cap
      BY <2>2
    <3> QED
      BY <2>3, <3>1, <3>2, GrownFits
  <2>6. Len(buf) < cap
    BY <2>1, <2>2, <2>3, <2>4, <2>5
  <2>7. PICK l : l = [ln EXCEPT !.buf = buf, !.cap = cap]
    OBVIOUS
  <2>8. /\ IsLine(l) /\ l.text = ln.text /\ l.p = ln.p /\ l.es = ln.es /\ l.buf = buf
        /\ l.cap = cap
    BY <2>7 DEF CfgInv, LineInv, LineOn, IsLine
  <2>9. LineRead(l)
    BY <1>1, <2>4, <2>5, <2>6, <2>8 DEF LineRead
  <2>10. [ln EXCEPT !.buf = Joined(@, text), !.cap = Grown(@, Len(ln.buf) + Len(text) + 1)] = l
    BY <2>3, <2>7 DEF Joined, CfgInv, LineInv, LineOn, IsLine
  <2> QED
    BY <1>1, <1>3, <2>8, <2>9, <2>10, GoRead
<1> QED
  BY <1>2, <1>3 DEF AddOperand

LEMMA RhsReads ==
  ASSUME CfgInv, ReadInv, EvalRhs
  PROVE  ReadInv'
<1>1. LineRead(ln) /\ ln.p \in 1 .. Len(ln.text) + 1 /\ HeapRead(heap)
  BY DEF ReadInv, LineRead
<1>2. TokenRead(Tok)
  BY <1>1, TokensRead DEF Tok
<1>3. CASE Rhs
  <2>1. PICK tok : (Keep /\ Go("atom", ln, tok)) \/ ToStore(Null, tok)
    BY <1>3 DEF Rhs
  <2> QED
    BY <1>1, <2>1, AsIs, ToStoreRead DEF Keep
<1>4. CASE FirstOperand
  <2>1. PICK tok : ToStore(ln.val, tok) \/ BeginConcat(tok)
    BY <1>4 DEF FirstOperand, SingleValue
  <2>2. PICK a : a = ln.val
    OBVIOUS
  <2> QED
    BY <2>1, <2>2, BeginsRead, ToStoreRead
<1>5. CASE NoBuffer \/ Fallback
  <2>1. PICK a : a = ln.val /\ ToStore(a, NoTok)
    BY <1>5 DEF NoBuffer, Fallback
  <2> QED
    BY <2>1, ToStoreRead
<1>6. CASE Plus
  <2>1. HeapRead(heap')
    BY <1>1, <1>6 DEF Plus, Keep
  <2>2. PICK tok, next : /\ TokenRead(tok)
                         /\ Go("atom", [ln EXCEPT !.p = tok.p], next) \/ Go("text", ln, tok)
    BY <1>2, <1>6 DEF Plus
  <2>3. PICK l : l = [ln EXCEPT !.p = tok.p]
    OBVIOUS
  <2>4. /\ IsLine(l) /\ l.text = ln.text /\ l.p = tok.p /\ l.es = ln.es /\ l.buf = ln.buf
        /\ l.cap = ln.cap
    BY <2>3 DEF CfgInv, LineInv, LineOn, IsLine
  <2> QED
    BY <2>1, <2>2, <2>3, <2>4, AsIs, OnRead DEF TokenRead
<1>7. CASE BufferToStr
  <2>1. PICK a :
          AllocStr(ln.buf, a) /\ Go("fallback", [ln EXCEPT !.val = a, !.buf = NoText], NoTok)
    BY <1>7 DEF BufferToStr
  <2>2. PICK s, l : s = ln.buf /\ l = [ln EXCEPT !.val = a, !.buf = NoText]
    OBVIOUS
  <2>3. /\ IsLine(l) /\ l.text = ln.text /\ l.p = ln.p /\ l.es = ln.es /\ l.buf = NoText
    BY <2>2 DEF CfgInv, LineInv, LineOn, IsLine
  <2>4. HeapRead(heap')
    BY <1>1, <2>1, <2>2, AllocStrRead DEF CfgInv, LineRead
  <2>5. LineRead(l)
    <3>1. IsSeq(NoText)
      BY OneIsSeq DEF NoText
    <3> QED
      BY <1>1, <2>3, <3>1 DEF LineRead
  <2> QED
    BY <2>1, <2>2, <2>3, <2>4, <2>5, GoRead
<1> QED
  BY <1>3, <1>4, <1>5, <1>6, <1>7, AddsRead DEF EvalRhs

LEMMA StoreReads ==
  ASSUME CfgInv, ReadInv, Store
  PROVE  ReadInv'
<1>1. LineRead(ln) /\ HeapRead(heap)
  BY DEF ReadInv
<1>2. CASE Set \/ Show
  <2>1. PICK bad : Return(bad) /\ UNCHANGED heap
    BY <1>2 DEF Set, Show, Keep
  <2> QED
    BY <1>1, <2>1, ReturnRead
<1>3. CASE JoinTexts
  <2>1. UNCHANGED heap /\ HeapRead(heap')
    BY <1>1, <1>3 DEF JoinTexts
  <2>2. ASSUME NEW text \in Texts(ln.val), Go("join", [ln EXCEPT !.es = @ \o text], NoTok)
        PROVE  ReadInv'
    <3>1. PICK s, es : s = ln.es /\ es = s \o text
      OBVIOUS
    <3>2. IsSeq(text)
      BY <1>1, TextsRead DEF CfgInv, LineInv, LineOn
    <3>3. IsSeq(es)
      BY <1>1, <3>1, <3>2, Concatenated DEF LineRead
    <3>4. PICK l : l = [ln EXCEPT !.es = es]
      OBVIOUS
    <3>5. /\ IsLine(l) /\ l.text = ln.text /\ l.p = ln.p /\ l.es = es /\ l.buf = ln.buf
          /\ l.cap = ln.cap
      BY <3>4 DEF CfgInv, LineInv, LineOn, IsLine
    <3>6. LineRead(l)
      BY <1>1, <3>3, <3>5 DEF LineRead
    <3>7. Go("join", l, NoTok)
      BY <2>2, <3>1, <3>4
    <3> QED
      BY <2>1, <3>5, <3>6, <3>7, GoRead
  <2>3. CASE Return(TRUE)
    BY <2>1, <2>3, ReturnRead
  <2> QED
    BY <1>3, <2>2, <2>3 DEF JoinTexts
<1>4. CASE AppendStr
  <2>1. PICK a :
          AllocStr(ln.es, a) /\ Go("store", [ln EXCEPT !.mode = "set", !.val = a], NoTok)
    BY <1>4 DEF AppendStr
  <2>2. PICK s, l : s = ln.es /\ l = [ln EXCEPT !.mode = "set", !.val = a]
    OBVIOUS
  <2>3. /\ IsLine(l) /\ l.text = ln.text /\ l.p = ln.p /\ l.es = ln.es /\ l.buf = ln.buf
        /\ l.cap = ln.cap
    BY <2>2 DEF CfgInv, LineInv, LineOn, IsLine
  <2>4. HeapRead(heap')
    BY <1>1, <2>1, <2>2, AllocStrRead DEF CfgInv, LineRead
  <2> QED
    BY <2>1, <2>2, <2>3, <2>4, AsIsRead
<1> QED
  BY <1>2, <1>3, <1>4 DEF Store

LEMMA NoArrayReads ==
  ASSUME CfgInv, ReadInv, NoArray
  PROVE  ReadInv'
<1>1. PICK p : p = ln.p /\ p \in 1 .. Len(ln.text) + 1
  BY DEF ReadInv, LineRead
<1>2. PICK a : Alloc(var_null, a) /\ Yield(a, p, NoTok)
  BY <1>1 DEF NoArray
<1> QED
  BY <1>1, <1>2, NullRead, YieldRead

LEMMA ReadStep == CfgInv /\ ReadInv /\ [Next]_vars => ReadInv'
<1> SUFFICES ASSUME CfgInv, ReadInv, [Next]_vars PROVE ReadInv'
  OBVIOUS
<1>1. LineRead(ln) /\ HeapRead(heap)
  BY DEF ReadInv
<1>2. ASSUME NEW raw \in Lines, ReadLine(raw) PROVE ReadInv'
  <2>1. PICK e : e = <<>>
    OBVIOUS
  <2>2. PICK l, n, x : n = NoLine /\ x = trim(raw) /\ l = [n EXCEPT !.raw = raw, !.text = x]
    OBVIOUS
  <2>3. ln' = l /\ HeapRead(heap')
    BY <1>1, <1>2, <2>2 DEF ReadLine
  <2>4. l.text = x /\ l.p = 1 /\ l.es = e /\ l.buf = NoText
    BY <2>1, <2>2 DEF NoLine
  <2>5. x \in LineTexts /\ IsSeq(x) /\ Len(x) \in Nat /\ IsSeq(e)
    BY <2>1, <2>2, LineIsSeq, NoneIsSeq, Sequence DEF LineTexts
  <2>6. IsSeq(NoText)
    BY OneIsSeq DEF NoText
  <2>7. LineRead(l)
    BY <2>4, <2>5, <2>6 DEF LineRead
  <2> QED
    BY <2>3, <2>7 DEF ReadInv
<1>3. ASSUME NEW path, kfl_cfg_load(path) PROVE ReadInv'
  BY <1>1, <1>3, NoLineRead DEF kfl_cfg_load, Open, Keep, ReadInv
<1>4. ASSUME EndOfFile \/ (\E raw : SkipLine(raw)) \/ UNCHANGED vars PROVE ReadInv'
  BY <1>1, <1>4 DEF EndOfFile, SkipLine, vars, ReadInv
<1> QED
  BY <1>2, <1>3, <1>4, ParseReads, AtomReads, ItemsRead, PushesRead, RhsReads, StoreReads,
     NoArrayReads
  DEF Next, Step, EvalAtom

LEMMA LinesRead == Spec => []ReadInv
<1>1. Init => ReadInv
  <2> SUFFICES ASSUME Init PROVE ReadInv
    OBVIOUS
  <2>1. PICK e : e = heap /\ e = <<>>
    BY DEF Init
  <2>2. Len(e) = 0
    BY <2>1, NoLength
  <2> QED
    BY <2>1, <2>2, NoLineRead DEF Init, ReadInv, HeapRead
<1> QED
  BY <1>1, ReadStep, FilesAndPointers, PTL DEF Spec

\* The values, arrays and locals are what the code takes them for: every token
\* begins and ends on the line, whatever its characters are, so that the scan
\* never reads beyond the end of it, and eval_rhs's buffer has been given room
\* for every text it was joined with and for the NUL.
THEOREM TypeCorrect == Spec => []TypeOK
<1>1. ReadInv => ReadsInside
  BY DEF ReadInv, LineRead, ReadsInside
<1> QED
  BY <1>1, LinesRead, NothingDangles, PTL DEF TypeOK

-----------------------------------------------------------------------------
(* A load goes on until it returns *)

Outside == {"idle", "file"}
Places == Outside \cup {"line", "rhs", "no_array", "push", "items", "atom", "value", "plus",
                        "single", "text", "fallback", "store", "join"}

\* How far a line is from its end while no token is consumed and no array ends, ...
RankOf(at, mode) ==
  CASE at = "line" -> 12 [] at = "rhs" -> 11 [] at = "no_array" -> 10 [] at = "push" -> 9
    [] at = "items" -> 8 [] at = "atom" -> 7 [] at = "value" -> 6 [] at = "plus" -> 5
    [] at \in {"single", "text"} -> 4 [] at = "fallback" -> 3
    [] at = "store" /\ mode = "append" -> 2 [] at = "join" -> 1 [] OTHER -> 0

\* ... and how far at all: an array begins after a token at least.
LineLeft == 16 * (2 * (Len(ln.text) + 1 - ln.p) + Len(ln.nest)) + RankOf(pc, ln.mode)

\* How far the load is from its end: each line opens one file at most.
LoadLeft == 3 * budget + fds + (IF pc \in Outside THEN 0 ELSE 2)

Headway == LoadLeft' < LoadLeft \/ (LoadLeft' = LoadLeft /\ LineLeft' < LineLeft)
LoadAdvances == [][pc # "idle" => Headway]_vars

\* eval_atom is called when there is a token.
AtomSees == pc = "atom" => Tok.type # "eof"
BudgetInv == budget \in Nat /\ spare \in 0 .. Failures /\ pc \in Places
TurnInv == BudgetInv /\ AtomSees

Advanced == Headway /\ pc' \in Places /\ AtomSees'

LEMMA RankIs ==
  ASSUME NEW at, NEW mode
  PROVE  RankOf(at, mode) \in 0 .. 12
BY DEF RankOf

LEMMA FilesAre == ASSUME CfgInv PROVE fds \in Nat /\ (pc # "idle" => fds \in Nat \ {0})
<1>1. PICK s, n : s = stack /\ n = Len(s)
  OBVIOUS
<1> QED
  BY <1>1, Sequence DEF CfgInv, StackInv

LEMMA LeftIs ==
  ASSUME CfgInv, ReadInv, TurnInv
  PROVE  LoadLeft \in Nat /\ LineLeft \in Nat
<1>1. LoadLeft \in Nat
  BY FilesAre DEF LoadLeft, TurnInv, BudgetInv
<1>2. PICK n, p, k, r : /\ n = Len(ln.text) /\ p = ln.p /\ k = Len(ln.nest)
                        /\ r = RankOf(pc, ln.mode)
  OBVIOUS
<1>3. p \in 1 .. n + 1 /\ n \in Nat /\ k \in Nat /\ r \in 0 .. 12
  <2>1. n \in Nat
    BY <1>2, LineIsSeq, Sequence DEF ReadInv, LineRead
  <2>2. k \in Nat
    BY <1>2 DEF CfgInv, LineInv, LineOn
  <2> QED
    BY <1>2, <2>1, <2>2, RankIs DEF ReadInv, LineRead
<1>4. LineLeft = 16 * (2 * (n + 1 - p) + k) + r
  BY <1>2 DEF LineLeft
<1> QED
  BY <1>1, <1>3, <1>4

\* A step of the line: it takes a token, ends an array, or moves on.
LEMMA GoAhead ==
  ASSUME CfgInv, ReadInv, TurnInv, pc \notin Outside,
         NEW l, IsLine(l), l.text = ln.text, l.p \in ln.p .. Len(ln.text) + 1, Len(l.nest) \in Nat,
         NEW at \in Places \ Outside, NEW tok, Go(at, l, tok),
         \/ Len(l.nest) < Len(ln.nest) + 2 * (l.p - ln.p)
         \/ l.p = ln.p /\ l.nest = ln.nest /\ RankOf(at, l.mode) < RankOf(pc, ln.mode),
         at = "atom" => next_tok(l.text, l.p).type # "eof"
  PROVE  Advanced
<1>1. PICK m : m = ln'
  OBVIOUS
<1>2. m.text = l.text /\ m.p = l.p /\ m.nest = l.nest /\ m.mode = l.mode
  BY <1>1 DEF Go, IsLine
<1>3. pc' = at /\ budget' = budget /\ fds' = fds
  BY DEF Go, kept
<1>4. LoadLeft' = LoadLeft
  BY <1>3 DEF LoadLeft
<1>5. PICK n, p, k, r, p1, k1, r1 :
        /\ n = Len(ln.text) /\ p = ln.p /\ k = Len(ln.nest) /\ r = RankOf(pc, ln.mode)
        /\ p1 = l.p /\ k1 = Len(l.nest) /\ r1 = RankOf(at, l.mode)
  OBVIOUS
<1>6. n \in Nat /\ p \in 1 .. n + 1 /\ k \in Nat /\ r \in 0 .. 12 /\ r1 \in 0 .. 12
      /\ p1 \in p .. n + 1 /\ k1 \in Nat
  <2>1. n \in Nat
    BY <1>5, LineIsSeq, Sequence DEF ReadInv, LineRead
  <2>2. k \in Nat
    BY <1>5 DEF CfgInv, LineInv, LineOn
  <2> QED
    BY <1>5, <2>1, <2>2, RankIs DEF ReadInv, LineRead
<1>7. /\ LineLeft = 16 * (2 * (n + 1 - p) + k) + r
      /\ LineLeft' = 16 * (2 * (n + 1 - p1) + k1) + r1
  BY <1>1, <1>2, <1>3, <1>5 DEF LineLeft
<1>8. k1 < k + 2 * (p1 - p) \/ (p1 = p /\ k1 = k /\ r1 < r)
  BY <1>5
<1>9. LineLeft' < LineLeft
  <2>1. CASE k1 + 1 <= k + 2 * (p1 - p)
    <3>1. 2 * (n + 1 - p1) + k1 + 1 <= 2 * (n + 1 - p) + k
      BY <1>6, <2>1
    <3>2. PICK u, v \in Int : u = 2 * (n + 1 - p) + k /\ v = 2 * (n + 1 - p1) + k1
      BY <1>6
    <3>3. v + 1 <= u /\ LineLeft = 16 * u + r /\ LineLeft' = 16 * v + r1
      BY <1>7, <3>1, <3>2
    <3> QED
      BY <1>6, <3>3
  <2>2. CASE p1 = p /\ k1 = k /\ r1 < r
    <3>1. PICK u \in Int : u = 16 * (2 * (n + 1 - p) + k)
      BY <1>6
    <3>2. LineLeft = u + r /\ LineLeft' = u + r1
      BY <1>7, <2>2, <3>1
    <3> QED
      BY <1>6, <2>2, <3>2
  <2>3. k1 < k + 2 * (p1 - p) => k1 + 1 <= k + 2 * (p1 - p)
    BY <1>6
  <2> QED
    BY <1>8, <2>1, <2>2, <2>3
<1>10. AtomSees'
  BY <1>1, <1>2, <1>3 DEF AtomSees, Tok, TokAt
<1> QED
  BY <1>3, <1>4, <1>9, <1>10 DEF Advanced, Headway

\* ... and the end of it.
LEMMA ReturnAhead ==
  ASSUME CfgInv, TurnInv, pc \notin Outside, NEW bad, Return(bad)
  PROVE  Advanced
<1>1. budget' = budget /\ fds' = fds /\ pc' = "file"
  BY DEF Return
<1>2. budget \in Nat /\ fds \in Nat
  BY FilesAre DEF TurnInv, BudgetInv
<1>3. LoadLeft = 3 * budget + fds + 2 /\ LoadLeft' = 3 * budget + fds
  BY <1>1, <1>2 DEF LoadLeft, Outside
<1>4. LoadLeft' < LoadLeft
  BY <1>2, <1>3
<1> QED
  BY <1>1, <1>4 DEF Advanced, Headway, AtomSees, Places, Outside

\* What goes on at the same token, with the same arrays.
LEMMA DownAhead ==
  ASSUME CfgInv, ReadInv, TurnInv, pc \notin Outside,
         NEW l, IsLine(l), l.text = ln.text, l.p = ln.p, l.nest = ln.nest,
         NEW at \in Places \ Outside, NEW tok, Go(at, l, tok),
         RankOf(at, l.mode) < RankOf(pc, ln.mode),
         at = "atom" => Tok.type # "eof"
  PROVE  Advanced
<1>1. Len(l.nest) \in Nat
  BY DEF CfgInv, LineInv, LineOn
<1>2. l.p \in ln.p .. Len(ln.text) + 1
  <2>1. PICK n, p : n = Len(ln.text) /\ p = ln.p
    OBVIOUS
  <2>2. n \in Nat
    BY <2>1, LineIsSeq, Sequence DEF ReadInv, LineRead
  <2> QED
    BY <2>1, <2>2 DEF ReadInv, LineRead
<1> QED
  BY <1>1, <1>2, GoAhead DEF Tok, TokAt

\* What has consumed a token, with the same arrays.
LEMMA PastAhead ==
  ASSUME CfgInv, ReadInv, TurnInv, pc \notin Outside,
         NEW l, IsLine(l), l.text = ln.text, l.p \in ln.p + 1 .. Len(ln.text) + 1, l.nest = ln.nest,
         NEW at \in Places \ Outside, NEW tok, Go(at, l, tok),
         at = "atom" => next_tok(l.text, l.p).type # "eof"
  PROVE  Advanced
<1>1. PICK n, p, k, q : n = Len(ln.text) /\ p = ln.p /\ k = Len(ln.nest) /\ q = l.p
  OBVIOUS
<1>2. n \in Nat /\ p \in 1 .. n + 1 /\ k \in Nat /\ q \in p + 1 .. n + 1
  <2>1. n \in Nat
    BY <1>1, LineIsSeq, Sequence DEF ReadInv, LineRead
  <2>2. k \in Nat
    BY <1>1 DEF CfgInv, LineInv, LineOn
  <2> QED
    BY <1>1, <2>1, <2>2 DEF ReadInv, LineRead
<1>3. k < k + 2 * (q - p) /\ q \in p .. n + 1
  BY <1>2
<1> QED
  BY <1>1, <1>2, <1>3, GoAhead

\* Tokens as TokAt gives them.
TokenAfter(tok, p) == TokenFrom(tok, ln.text, p)
LEMMA TokensAfter ==
  ASSUME LineRead(ln), NEW p \in 1 .. Len(ln.text) + 1
  PROVE  TokenAfter(TokAt(p), p) /\ TokAt(p).p \in 1 .. Len(ln.text) + 1
<1>1. PICK s \in LineTexts : s = ln.text
  BY DEF LineRead
<1>2. IsSeq(s) /\ Len(s) \in Nat
  BY LineIsSeq, Sequence
<1>3. PICK t : t = next_tok(s, p) /\ TokenFrom(t, s, p)
  BY <1>1, <1>2, NextOn
<1> QED
  BY <1>1, <1>2, <1>3 DEF TokenAfter, TokAt, TokenFrom

-----------------------------------------------------------------------------
(* The steps *)

\* Positions of the line behind the one that is read.
Later(p) == p \in ln.p + 1 .. Len(ln.text) + 1
NotBefore(p) == p \in ln.p .. Len(ln.text) + 1

LEMMA ScanOn ==
  ASSUME LineRead(ln)
  PROVE  /\ Len(ln.text) \in Nat /\ ln.p \in 1 .. Len(ln.text) + 1
         /\ Tok.p \in 1 .. Len(ln.text) + 1 /\ NotBefore(Tok.p)
         /\ Tok.type # "eof" => Later(Tok.p)
         /\ \A p : Later(p) => p \in 1 .. Len(ln.text) + 1 /\ NotBefore(p)
         /\ \A p : Later(p) => Later(TokAt(p).p)
<1>1. PICK n, q : n = Len(ln.text) /\ q = ln.p
  OBVIOUS
<1>2. n \in Nat /\ q \in 1 .. n + 1
  BY <1>1, LineIsSeq, Sequence DEF LineRead
<1>3. PICK t : t = Tok /\ TokenAfter(t, q)
  BY <1>1, <1>2, TokensAfter DEF Tok
<1>4. t.p \in q .. n + 1 /\ (t.type # "eof" => t.p \in q + 1 .. n + 1)
  BY <1>1, <1>3 DEF TokenAfter, TokenFrom
<1>5. \A p : Later(p) => p \in 1 .. n + 1 /\ NotBefore(p)
  BY <1>1, <1>2 DEF Later, NotBefore
<1>6. ASSUME NEW p, Later(p) PROVE Later(TokAt(p).p)
  <2>1. PICK u : u = TokAt(p) /\ TokenAfter(u, p)
    BY <1>1, <1>5, <1>6, TokensAfter
  <2>2. u.p \in p .. n + 1 /\ p \in q + 1 .. n + 1
    BY <1>1, <1>6, <2>1 DEF TokenAfter, TokenFrom, Later
  <2> QED
    BY <1>1, <1>2, <2>1, <2>2 DEF Later
<1>7. t.p \in 1 .. n + 1 /\ NotBefore(t.p) /\ (t.type # "eof" => Later(t.p))
  BY <1>1, <1>2, <1>4 DEF Later, NotBefore
<1> QED
  BY <1>1, <1>2, <1>3, <1>5, <1>6, <1>7

LEMMA YieldAhead ==
  ASSUME CfgInv, ReadInv, TurnInv, pc \notin Outside, NEW a, NEW p, Later(p), NEW tok,
         Yield(a, p, tok)
  PROVE  Advanced
<1>1. PICK l, at : /\ l = [ln EXCEPT !.val = a, !.p = p] /\ Go(at, l, tok)
                   /\ at \in {"value", "push"}
  BY DEF Yield
<1>2. IsLine(l) /\ l.text = ln.text /\ l.p = p /\ l.nest = ln.nest
  BY <1>1 DEF CfgInv, LineInv, LineOn, IsLine
<1>3. at \in Places \ Outside /\ at # "atom"
  BY <1>1 DEF Places, Outside
<1> QED
  BY <1>1, <1>2, <1>3, PastAhead DEF Later

LEMMA ParseAhead ==
  ASSUME CfgInv, ReadInv, TurnInv, ParseLine
  PROVE  Advanced
<1>0. pc = "line" /\ pc \notin Outside /\ LineRead(ln)
  BY DEF ParseLine, Outside, ReadInv
<1>1. PICK tok : /\ tok = Tok
                 /\ \/ BlankLine(tok) \/ NoKey(tok) \/ Include(tok) \/ Display(tok)
                    \/ /\ IsKey(tok)
                       /\ \E op \in {TokAt(tok.p)} :
                            KeyEq(tok, op) \/ KeyPlusEq(tok, op) \/ NoOperator(op)
  BY DEF ParseLine
<1>2. ASSUME NEW bad, Nothing(bad) PROVE Advanced
  BY <1>0, <1>2, ReturnAhead DEF Nothing
<1>3. ASSUME NEW path, NEW depth, Open(path, depth) PROVE Advanced
  <2>1. fds' = fds + 1 /\ budget' = budget /\ pc' = "file"
    BY <1>3 DEF Open
  <2>2. budget \in Nat /\ fds \in Nat
    BY FilesAre DEF TurnInv, BudgetInv
  <2>3. LoadLeft = 3 * budget + fds + 2 /\ LoadLeft' = 3 * budget + (fds + 1)
    BY <1>0, <2>1, <2>2 DEF LoadLeft, Outside
  <2>4. LoadLeft' < LoadLeft
    BY <2>2, <2>3
  <2> QED
    BY <2>1, <2>4 DEF Advanced, Headway, AtomSees, Places, Outside
<1>4. ASSUME NEW l, IsLine(l), l.text = ln.text, l.nest = ln.nest, Later(l.p), NEW t,
             Go("rhs", l, t)
      PROVE  Advanced
  <2>1. "rhs" \in Places \ Outside
    BY DEF Places, Outside
  <2> QED
    BY <1>0, <1>4, <2>1, PastAhead DEF Later
<1>5. tok.type = "ident" => Later(tok.p)
  BY <1>0, <1>1, ScanOn
<1>6. CASE Display(tok)
  <2>1. PICK l : l = [ln EXCEPT !.mode = "display", !.p = tok.p]
    OBVIOUS
  <2>2. IsLine(l) /\ l.text = ln.text /\ l.nest = ln.nest /\ l.p = tok.p
    BY <2>1 DEF CfgInv, LineInv, LineOn, IsLine
  <2> QED
    BY <1>4, <1>5, <1>6, <2>1, <2>2 DEF Display, Is
<1>7. ASSUME NEW op, op = TokAt(tok.p), IsKey(tok), KeyEq(tok, op) \/ KeyPlusEq(tok, op)
      PROVE  Advanced
  <2>1. Later(op.p)
    BY <1>0, <1>5, <1>7, ScanOn DEF IsKey
  <2>2. PICK mode, es : Go("rhs", [ln EXCEPT !.mode = mode, !.key = tok.val, !.p = op.p,
                                             !.es = es], op)
    <3>1. CASE KeyEq(tok, op)
      <4>1. [ln EXCEPT !.mode = "set", !.key = tok.val, !.p = op.p]
              = [ln EXCEPT !.mode = "set", !.key = tok.val, !.p = op.p, !.es = ln.es]
        BY DEF CfgInv, LineInv, LineOn, IsLine
      <4> QED
        BY <3>1, <4>1 DEF KeyEq
    <3>2. CASE KeyPlusEq(tok, op)
      BY <3>2 DEF KeyPlusEq
    <3> QED
      BY <1>7, <3>1, <3>2
  <2>3. PICK l : l = [ln EXCEPT !.mode = mode, !.key = tok.val, !.p = op.p, !.es = es]
    OBVIOUS
  <2>4. IsLine(l) /\ l.text = ln.text /\ l.nest = ln.nest /\ l.p = op.p
    BY <2>3 DEF CfgInv, LineInv, LineOn, IsLine
  <2> QED
    BY <1>4, <2>1, <2>2, <2>3, <2>4
<1> QED
  BY <1>1, <1>2, <1>3, <1>6, <1>7 DEF BlankLine, NoKey, Include, NoOperator

LEMMA AtomAhead ==
  ASSUME CfgInv, ReadInv, TurnInv, ReadAtom
  PROVE  Advanced
<1>0. pc = "atom" /\ pc \notin Outside /\ LineRead(ln)
  BY DEF ReadAtom, Outside, ReadInv
<1>1. PICK tok : /\ tok = Tok
                 /\ \/ Literal(tok) \/ BeginArray(tok) \/ NoAtom(tok)
                    \/ \E next \in {TokAt(tok.p)} : Reference(tok, next) \/ Indexed(tok, next)
  BY DEF ReadAtom
<1>2. Later(tok.p)
  BY <1>0, <1>1, ScanOn DEF TurnInv, AtomSees
<1>3. ASSUME NEW a, NEW p, Later(p), NEW t, OrNull(a, p, t) PROVE Advanced
  BY <1>0, <1>3, YieldAhead DEF OrNull
<1>4. CASE Literal(tok) \/ NoAtom(tok)
  BY <1>0, <1>2, <1>4, YieldAhead DEF Literal, NoAtom
<1>5. ASSUME NEW next, Reference(tok, next) PROVE Advanced
  <2>1. PICK a : OrNull(a, tok.p, next)
    BY <1>5 DEF Reference
  <2> QED
    BY <1>2, <1>3, <2>1
<1>6. ASSUME NEW next, next = TokAt(tok.p), Indexed(tok, next) PROVE Advanced
  <2>1. PICK idx, rb, a, e : idx = TokAt(next.p) /\ rb = TokAt(idx.p) /\ OrNull(a, rb.p, e)
    BY <1>6 DEF Indexed
  <2>2. Later(next.p)
    BY <1>0, <1>2, <1>6, ScanOn
  <2>3. Later(idx.p)
    BY <1>0, <2>1, <2>2, ScanOn
  <2>4. Later(rb.p)
    BY <1>0, <2>1, <2>3, ScanOn
  <2> QED
    BY <1>3, <2>1, <2>4
<1>7. CASE BeginArray(tok)
  <2>1. PICK a, at :
          /\ at \in {"no_array", "items"}
          /\ Go(at, [ln EXCEPT !.nest = IF a = Null THEN @ ELSE Append(@, a), !.p = tok.p], tok)
    BY <1>7 DEF BeginArray
  <2>2. PICK s, t : s = ln.nest /\ t = (IF a = Null THEN s ELSE Append(s, a))
    OBVIOUS
  <2>3. PICK l : l = [ln EXCEPT !.nest = t, !.p = tok.p]
    OBVIOUS
  <2>4. IsLine(l) /\ l.text = ln.text /\ l.p = tok.p /\ l.nest = t
    BY <2>3 DEF CfgInv, LineInv, LineOn, IsLine
  <2>5. Go(at, l, tok)
    BY <2>1, <2>2, <2>3
  <2>6. at \in Places \ Outside /\ at # "atom"
    BY <2>1 DEF Places, Outside
  <2>7. Len(s) \in Nat /\ Len(t) \in Nat /\ Len(t) <= Len(s) + 1
    <3>1. IsSeq(s)
      BY <2>2, SeqIs DEF CfgInv, LineInv, LineOn
    <3>2. Len(s) \in Nat
      BY <3>1, Sequence
    <3>3. CASE a = Null
      BY <2>2, <3>2, <3>3
    <3>4. CASE a # Null
      <4>1. Len(t) = Len(s) + 1
        BY <2>2, <3>1, <3>4, Appended
      <4> QED
        BY <3>2, <4>1
    <3> QED
      BY <3>3, <3>4
  <2>8. Len(l.nest) < Len(ln.nest) + 2 * (l.p - ln.p) /\ NotBefore(l.p)
    <3>1. PICK n, p, q, j, k : /\ n = Len(ln.text) /\ p = ln.p /\ q = l.p /\ j = Len(s)
                               /\ k = Len(t)
      OBVIOUS
    <3>2. n \in Nat /\ p \in 1 .. n + 1 /\ q \in p + 1 .. n + 1
      BY <1>0, <1>2, <2>4, <3>1, ScanOn DEF Later
    <3>3. k < j + 2 * (q - p)
      BY <2>7, <3>1, <3>2
    <3> QED
      BY <2>2, <2>4, <3>1, <3>3, <1>0, <1>2, ScanOn
  <2> QED
    BY <1>0, <2>4, <2>5, <2>6, <2>7, <2>8, GoAhead DEF NotBefore
<1> QED
  BY <1>1, <1>4, <1>5, <1>6, <1>7

LEMMA ItemsAhead ==
  ASSUME CfgInv, ReadInv, TurnInv, Items
  PROVE  Advanced
<1>0. pc = "items" /\ pc \notin Outside /\ LineRead(ln)
  BY DEF Items, Outside, ReadInv
<1>1. PICK tok, at :
        /\ tok = Tok /\ at \in {"value", "push"}
        /\ \/ tok.type \in {"str", "int", "float", "ident", "lbracket"} /\ Go("atom", ln, tok)
           \/ tok.type # "eof" /\ Go("items", [ln EXCEPT !.p = tok.p], tok)
           \/ tok.type # "eof" /\ Go("items", [ln EXCEPT !.p = tok.p, !.error = TRUE], tok)
           \/ Go(at, [ln EXCEPT !.val = ln.nest[Len(ln.nest)],
                                !.nest = SubSeq(@, 1, Len(ln.nest) - 1),
                                !.p = IF tok.type = "rbracket" THEN tok.p ELSE @], tok)
  BY DEF Items, Past
<1>2. {"atom", "items", "value", "push"} \subseteq Places \ Outside
  BY DEF Places, Outside
<1>3. CASE tok.type \in {"str", "int", "float", "ident", "lbracket"} /\ Go("atom", ln, tok)
  <2>1. PICK l : l = ln
    OBVIOUS
  <2>2. IsLine(l) /\ RankOf("atom", l.mode) < RankOf(pc, ln.mode)
    BY <1>0, <2>1 DEF CfgInv, LineInv, LineOn, RankOf
  <2> QED
    BY <1>0, <1>1, <1>2, <1>3, <2>1, <2>2, DownAhead
<1>4. ASSUME NEW l, l = [ln EXCEPT !.p = tok.p] \/ l = [ln EXCEPT !.p = tok.p, !.error = TRUE],
             Go("items", l, tok), tok.type # "eof"
      PROVE  Advanced
  <2>1. IsLine(l) /\ l.text = ln.text /\ l.p = tok.p /\ l.nest = ln.nest
    BY <1>4 DEF CfgInv, LineInv, LineOn, IsLine
  <2>2. Later(l.p)
    BY <1>0, <1>1, <1>4, <2>1, ScanOn
  <2> QED
    BY <1>0, <1>2, <1>4, <2>1, <2>2, PastAhead DEF Later
<1>5. CASE Go(at, [ln EXCEPT !.val = ln.nest[Len(ln.nest)],
                             !.nest = SubSeq(@, 1, Len(ln.nest) - 1),
                             !.p = IF tok.type = "rbracket" THEN tok.p ELSE @], tok)
  <2>1. PICK s, v, t, q : /\ s = ln.nest /\ v = s[Len(s)] /\ t = SubSeq(s, 1, Len(s) - 1)
                          /\ q = IF tok.type = "rbracket" THEN tok.p ELSE ln.p
    OBVIOUS
  <2>2. PICK l : l = [ln EXCEPT !.val = v, !.nest = t, !.p = q]
    OBVIOUS
  <2>3. IsLine(l) /\ l.text = ln.text /\ l.p = q /\ l.nest = t
    BY <2>2 DEF CfgInv, LineInv, LineOn, IsLine
  <2>4. Go(at, l, tok)
    BY <1>5, <2>1, <2>2
  <2>5. PICK n, p, j : n = Len(ln.text) /\ p = ln.p /\ j = Len(s)
    OBVIOUS
  <2>6. n \in Nat /\ p \in 1 .. n + 1 /\ q \in p .. n + 1
    <3>1. n \in Nat /\ p \in 1 .. n + 1 /\ tok.p \in p .. n + 1
      BY <1>0, <1>1, <2>5, ScanOn DEF NotBefore
    <3> QED
      BY <2>1, <2>5, <3>1
  <2>7. j \in Nat /\ Len(t) = j - 1 /\ Len(t) \in Nat
    <3>1. PICK A : A = ArraysOf(heap)
      OBVIOUS
    <3>2. s \in Seq(A) /\ s # <<>>
      BY <1>0, <2>1, <3>1 DEF CfgInv, LineInv, LineOn
    <3> QED
      BY <2>1, <2>5, <3>2
  <2>8. Len(l.nest) < Len(ln.nest) + 2 * (l.p - ln.p)
    <3>1. PICK k : k = Len(t)
      OBVIOUS
    <3>2. k < j + 2 * (q - p)
      BY <2>6, <2>7, <3>1
    <3> QED
      BY <2>1, <2>3, <2>5, <3>1, <3>2
  <2>9. at \in Places \ Outside /\ at # "atom"
    BY <1>1, <1>2
  <2> QED
    BY <1>0, <2>3, <2>4, <2>5, <2>6, <2>7, <2>8, <2>9, GoAhead
<1> QED
  BY <1>1, <1>3, <1>4, <1>5

\* The array that could not be made is a value at once.
LEMMA NoArrayAhead ==
  ASSUME CfgInv, ReadInv, TurnInv, NoArray
  PROVE  Advanced
<1>0. pc = "no_array" /\ pc \notin Outside
  BY DEF NoArray, Outside
<1>1. PICK a, at, l : /\ at \in {"value", "push"} /\ l = [ln EXCEPT !.val = a, !.p = ln.p]
                      /\ Go(at, l, NoTok)
  BY DEF NoArray, Yield
<1>2. IsLine(l) /\ l.text = ln.text /\ l.p = ln.p /\ l.nest = ln.nest
  BY <1>1 DEF CfgInv, LineInv, LineOn, IsLine
<1>3. at \in Places \ Outside /\ at # "atom" /\ RankOf(at, l.mode) < RankOf(pc, ln.mode)
  BY <1>0, <1>1 DEF Places, Outside, RankOf
<1> QED
  BY <1>0, <1>1, <1>2, <1>3, DownAhead

\* On at the same token.
LEMMA SameAhead ==
  ASSUME CfgInv, ReadInv, TurnInv, pc \notin Outside, NEW at \in Places \ Outside, NEW tok,
         Go(at, ln, tok), RankOf(at, ln.mode) < RankOf(pc, ln.mode),
         at = "atom" => Tok.type # "eof"
  PROVE  Advanced
<1>1. PICK l : l = ln
  OBVIOUS
<1>2. IsLine(l)
  BY <1>1 DEF CfgInv, LineInv, LineOn
<1> QED
  BY <1>1, <1>2, DownAhead

LEMMA PushAhead ==
  ASSUME CfgInv, ReadInv, TurnInv, Push
  PROVE  Advanced
<1>1. /\ pc = "push" /\ pc \notin Outside /\ Go("items", ln, NoTok)
      /\ "items" \in Places \ Outside /\ RankOf("items", ln.mode) < RankOf(pc, ln.mode)
  BY DEF Push, Outside, Places, RankOf
<1> QED
  BY <1>1, SameAhead

LEMMA ToStoreAhead ==
  ASSUME CfgInv, ReadInv, TurnInv, pc \in {"rhs", "value", "single", "fallback"}, NEW a, NEW tok,
         ToStore(a, tok)
  PROVE  Advanced
<1>1. PICK x, l : l = [ln EXCEPT !.val = x] /\ Go("store", l, tok)
  BY DEF ToStore
<1>2. IsLine(l) /\ l.text = ln.text /\ l.p = ln.p /\ l.nest = ln.nest
  BY <1>1 DEF CfgInv, LineInv, LineOn, IsLine
<1>3. /\ pc \notin Outside /\ "store" \in Places \ Outside
      /\ RankOf("store", l.mode) < RankOf(pc, ln.mode)
  BY DEF Places, Outside, RankOf
<1> QED
  BY <1>1, <1>2, <1>3, DownAhead

LEMMA RhsAhead ==
  ASSUME CfgInv, ReadInv, TurnInv, EvalRhs
  PROVE  Advanced
<1>0. LineRead(ln)
  BY DEF ReadInv
<1>1. {"atom", "single", "plus", "text", "fallback"} \subseteq Places \ Outside
  BY DEF Places, Outside
<1>2. \A at, mode :
        /\ at = "rhs" => RankOf("atom", mode) < RankOf(at, ln.mode)
        /\ at = "value" => /\ RankOf("single", mode) < RankOf(at, ln.mode)
                           /\ RankOf("plus", mode) < RankOf(at, ln.mode)
                           /\ RankOf("text", mode) < RankOf(at, ln.mode)
        /\ at = "plus" => RankOf("text", mode) < RankOf(at, ln.mode)
        /\ at = "text" => RankOf("fallback", mode) < RankOf(at, ln.mode)
  BY DEF RankOf
<1>3. pc \in {"rhs", "value", "plus", "text"} => pc \notin Outside
  BY DEF Outside
<1>4. CASE Rhs
  <2>1. PICK tok : /\ tok = Tok
                   /\ (~ Ends(tok) /\ Go("atom", ln, tok)) \/ ToStore(Null, tok)
    BY <1>4 DEF Rhs
  <2>2. pc = "rhs"
    BY <1>4 DEF Rhs
  <2>3. ASSUME ~ Ends(tok), Go("atom", ln, tok) PROVE Advanced
    <3>1. Tok.type # "eof"
      BY <2>1, <2>3 DEF Ends
    <3> QED
      BY <1>1, <1>2, <1>3, <2>2, <2>3, <3>1, SameAhead
  <2>4. PICK a : a = Null
    OBVIOUS
  <2> QED
    BY <2>1, <2>2, <2>3, <2>4, ToStoreAhead
<1>5. CASE NoBuffer \/ Fallback
  <2>1. PICK a : a = ln.val /\ ToStore(a, NoTok)
    BY <1>5 DEF NoBuffer, Fallback
  <2> QED
    BY <1>5, <2>1, ToStoreAhead DEF NoBuffer, Fallback
<1>6. ASSUME pc = "value", NEW l, IsLine(l), l.text = ln.text, l.p = ln.p, l.nest = ln.nest,
             NEW tok, Go("plus", l, tok)
      PROVE  Advanced
  BY <1>1, <1>2, <1>3, <1>6, DownAhead
<1>7. CASE FirstOperand
  <2>1. PICK tok : ToStore(ln.val, tok) \/ BeginConcat(tok)
    BY <1>7 DEF FirstOperand, SingleValue
  <2>2. pc = "value"
    BY <1>7 DEF FirstOperand
  <2>3. CASE BeginConcat(tok)
    <3>1. CASE Go("single", ln, tok)
      BY <1>1, <1>2, <1>3, <2>2, <3>1, SameAhead
    <3>2. ASSUME NEW text, NEW cap, Go("plus", [ln EXCEPT !.buf = text, !.cap = cap], tok)
          PROVE  Advanced
      <4>1. PICK l : l = [ln EXCEPT !.buf = text, !.cap = cap]
        OBVIOUS
      <4>2. IsLine(l) /\ l.text = ln.text /\ l.p = ln.p /\ l.nest = ln.nest
        BY <4>1 DEF CfgInv, LineInv, LineOn, IsLine
      <4> QED
        BY <1>6, <2>2, <3>2, <4>1, <4>2
    <3> QED
      BY <2>3, <3>1, <3>2 DEF BeginConcat
  <2>4. PICK a : a = ln.val
    OBVIOUS
  <2> QED
    BY <2>1, <2>2, <2>3, <2>4, ToStoreAhead
<1>8. CASE AddOperand
  <2>1. pc = "value"
    BY <1>8 DEF AddOperand
  <2>2. CASE Go("text", ln, NoTok)
    BY <1>1, <1>2, <1>3, <2>1, <2>2, SameAhead
  <2>3. ASSUME NEW text, Go("plus", [ln EXCEPT !.buf = Joined(@, text),
                                   !.cap = Grown(@, Len(ln.buf) + Len(text) + 1)], NoTok)
        PROVE  Advanced
    <3>1. PICK l : l = [ln EXCEPT !.buf = Joined(@, text),
                                  !.cap = Grown(@, Len(ln.buf) + Len(text) + 1)]
      OBVIOUS
    <3>2. IsLine(l) /\ l.text = ln.text /\ l.p = ln.p /\ l.nest = ln.nest
      BY <3>1 DEF CfgInv, LineInv, LineOn, IsLine
    <3> QED
      BY <1>6, <2>1, <2>3, <3>1, <3>2
  <2> QED
    BY <1>8, <2>2, <2>3 DEF AddOperand
<1>9. CASE Plus
  <2>1. pc = "plus"
    BY <1>9 DEF Plus
  <2>2. PICK tok, next :
          /\ tok = Tok /\ next = TokAt(tok.p)
          /\ \/ /\ tok.type = "plus" /\ ~ Ends(next)
                /\ Go("atom", [ln EXCEPT !.p = tok.p], next)
             \/ Go("text", ln, tok)
    BY <1>9 DEF Plus
  <2>3. ASSUME tok.type = "plus", ~ Ends(next), Go("atom", [ln EXCEPT !.p = tok.p], next)
        PROVE  Advanced
    <3>1. PICK l : l = [ln EXCEPT !.p = tok.p]
      OBVIOUS
    <3>2. IsLine(l) /\ l.text = ln.text /\ l.p = tok.p /\ l.nest = ln.nest
      BY <3>1 DEF CfgInv, LineInv, LineOn, IsLine
    <3>3. Later(tok.p)
      BY <1>0, <2>2, <2>3, ScanOn
    <3>4. next_tok(l.text, l.p).type # "eof"
      BY <2>2, <2>3, <3>2 DEF Ends, TokAt
    <3> QED
      BY <1>1, <1>3, <2>1, <2>3, <3>1, <3>2, <3>3, <3>4, PastAhead DEF Later
  <2>4. CASE Go("text", ln, tok)
    BY <1>1, <1>2, <1>3, <2>1, <2>4, SameAhead
  <2> QED
    BY <2>2, <2>3, <2>4
<1>10. CASE BufferToStr
  <2>1. PICK a : Go("fallback", [ln EXCEPT !.val = a, !.buf = NoText], NoTok)
    BY <1>10 DEF BufferToStr
  <2>2. PICK l : l = [ln EXCEPT !.val = a, !.buf = NoText]
    OBVIOUS
  <2>3. IsLine(l) /\ l.text = ln.text /\ l.p = ln.p /\ l.nest = ln.nest
    BY <2>2 DEF CfgInv, LineInv, LineOn, IsLine
  <2>4. pc = "text"
    BY <1>10 DEF BufferToStr
  <2> QED
    BY <1>1, <1>2, <1>3, <2>1, <2>2, <2>3, <2>4, DownAhead
<1> QED
  BY <1>4, <1>5, <1>7, <1>8, <1>9, <1>10 DEF EvalRhs

LEMMA StoreAhead ==
  ASSUME CfgInv, ReadInv, TurnInv, Store
  PROVE  Advanced
<1>0. pc \in {"store", "join"} /\ pc \notin Outside /\ {"store", "join"} \subseteq Places \ Outside
  BY DEF Store, Set, Show, JoinTexts, AppendStr, Outside, Places
<1>1. ASSUME NEW bad, Return(bad) PROVE Advanced
  BY <1>0, <1>1, ReturnAhead
<1>2. ASSUME pc = "store", ln.mode = "append", NEW es, Go("join", [ln EXCEPT !.es = es], NoTok)
      PROVE  Advanced
  <2>1. PICK l : l = [ln EXCEPT !.es = es]
    OBVIOUS
  <2>2. IsLine(l) /\ l.text = ln.text /\ l.p = ln.p /\ l.nest = ln.nest
    BY <2>1 DEF CfgInv, LineInv, LineOn, IsLine
  <2>3. RankOf("join", l.mode) < RankOf(pc, ln.mode)
    BY <1>2 DEF RankOf
  <2> QED
    BY <1>0, <1>2, <2>1, <2>2, <2>3, DownAhead
<1>3. CASE JoinTexts
  <2>1. \/ Return(TRUE)
        \/ \E text : Go("join", [ln EXCEPT !.es = ln.es \o text], NoTok)
    BY <1>3 DEF JoinTexts
  <2>2. pc = "store" /\ ln.mode = "append"
    BY <1>3 DEF JoinTexts
  <2> QED
    BY <1>1, <1>2, <2>1, <2>2
<1>4. CASE AppendStr
  <2>1. PICK a : Go("store", [ln EXCEPT !.mode = "set", !.val = a], NoTok)
    BY <1>4 DEF AppendStr
  <2>2. PICK l : l = [ln EXCEPT !.mode = "set", !.val = a]
    OBVIOUS
  <2>3. IsLine(l) /\ l.text = ln.text /\ l.p = ln.p /\ l.nest = ln.nest /\ l.mode = "set"
    BY <2>2 DEF CfgInv, LineInv, LineOn, IsLine
  <2>4. RankOf("store", l.mode) < RankOf(pc, ln.mode)
    BY <1>4, <2>3 DEF AppendStr, RankOf
  <2> QED
    BY <1>0, <2>1, <2>2, <2>3, <2>4, DownAhead
<1> QED
  BY <1>1, <1>3, <1>4 DEF Store, Set, Show

\* Reading a line takes it from the file, and the end of a file closes it.
LEMMA FileAhead ==
  ASSUME CfgInv, ReadInv, TurnInv,
         EndOfFile \/ \E raw \in Lines : ReadLine(raw) \/ SkipLine(raw)
  PROVE  Advanced
<1>1. budget \in Nat /\ fds \in Nat /\ pc = "file"
  BY FilesAre DEF TurnInv, BudgetInv, EndOfFile, ReadLine, SkipLine
<1>2. LoadLeft = 3 * budget + fds
  BY <1>1 DEF LoadLeft, Outside
<1>3. CASE EndOfFile
  <2>1. budget' = budget /\ fds' = fds - 1 /\ pc' \in Outside
    BY <1>1, <1>3 DEF EndOfFile, Outside
  <2>2. LoadLeft' = 3 * budget + (fds - 1)
    BY <1>1, <2>1 DEF LoadLeft
  <2>3. LoadLeft' < LoadLeft
    BY <1>1, <1>2, <2>2
  <2> QED
    BY <2>1, <2>3 DEF Advanced, Headway, AtomSees, Places, Outside
<1>4. ASSUME NEW raw, ReadLine(raw) \/ SkipLine(raw) PROVE Advanced
  <2>1. budget' = budget - 1 /\ fds' = fds /\ pc' \in {"line", "file"}
    BY <1>1, <1>4 DEF ReadLine, SkipLine
  <2>2. PICK k \in {0, 2} : LoadLeft' = 3 * (budget - 1) + fds + k
    BY <1>1, <2>1 DEF LoadLeft
  <2>3. LoadLeft' < LoadLeft
    BY <1>1, <1>2, <2>2
  <2> QED
    BY <2>1, <2>3 DEF Advanced, Headway, AtomSees, Places, Outside
<1> QED
  BY <1>3, <1>4

LEMMA StepAhead ==
  ASSUME CfgInv, ReadInv, TurnInv, Step
  PROVE  Advanced
BY FileAhead, ParseAhead, AtomAhead, NoArrayAhead, ItemsAhead, PushAhead, RhsAhead, StoreAhead
DEF Step, EvalAtom

\* One allocation fails at a time, while there are some left that may.
LEMMA AllocSpare == ASSUME NEW x, NEW a, Alloc(x, a) PROVE Works \/ Fails
BY DEF Alloc

LEMMA AllocStrSpare == ASSUME NEW s, NEW a, AllocStr(s, a) PROVE Works \/ Fails
BY AllocSpare DEF AllocStr

LEMMA OrNullSpare ==
  ASSUME NEW a, NEW p, NEW tok, OrNull(a, p, tok) \/ ToStore(a, tok)
  PROVE  Works \/ Fails
BY AllocSpare DEF OrNull, ToStore, Keep

LEMMA StepSpare ==
  ASSUME Step
  PROVE  Works \/ Fails
<1>1. ASSUME ParseLine PROVE Works \/ Fails
  BY <1>1 DEF ParseLine, BlankLine, NoKey, Include, Display, KeyEq, KeyPlusEq, NoOperator,
     Nothing, Open, Keep, Text
<1>2. ASSUME ReadAtom PROVE Works \/ Fails
  <2>1. PICK tok : \/ Literal(tok) \/ BeginArray(tok) \/ NoAtom(tok)
                   \/ \E next : Reference(tok, next) \/ Indexed(tok, next)
    BY <1>2 DEF ReadAtom
  <2>2. CASE Literal(tok) \/ BeginArray(tok) \/ NoAtom(tok)
    BY <2>2, AllocSpare, AllocStrSpare DEF Literal, BeginArray, NoAtom
  <2>3. ASSUME NEW next, Reference(tok, next) \/ Indexed(tok, next) PROVE Works \/ Fails
    <3>1. PICK a, p, t : OrNull(a, p, t)
      BY <2>3 DEF Reference, Indexed
    <3> QED
      BY <3>1, OrNullSpare
  <2> QED
    BY <2>1, <2>2, <2>3
<1>3. ASSUME NoArray \/ Items \/ Push PROVE Works \/ Fails
  BY <1>3, AllocSpare DEF NoArray, Items, Push, Keep
<1>4. ASSUME EvalRhs PROVE Works \/ Fails
  <2>1. ASSUME NEW tok, Rhs \/ NoBuffer \/ Fallback \/ SingleValue(tok) PROVE Works \/ Fails
    <3>1. Keep \/ \E a, t : ToStore(a, t)
      BY <2>1 DEF Rhs, NoBuffer, Fallback, SingleValue
    <3> QED
      BY <3>1, OrNullSpare DEF Keep
  <2>2. ASSUME NEW tok, BeginConcat(tok) \/ AddOperand PROVE Works \/ Fails
    BY <2>2 DEF BeginConcat, AddOperand, Text
  <2>3. ASSUME Plus \/ BufferToStr PROVE Works \/ Fails
    BY <2>3, AllocStrSpare DEF Plus, BufferToStr, Keep
  <2> QED
    BY <1>4, <2>1, <2>2, <2>3 DEF EvalRhs, FirstOperand
<1>5. ASSUME Store PROVE Works \/ Fails
  <2>1. ASSUME AppendStr PROVE Works \/ Fails
    BY <2>1, AllocStrSpare DEF AppendStr
  <2> QED
    BY <1>5, <2>1 DEF Store, Set, Show, JoinTexts, Keep, Text
<1>6. ASSUME NEW raw, ReadLine(raw) \/ SkipLine(raw) \/ EndOfFile PROVE Works
  BY <1>6 DEF ReadLine, SkipLine, EndOfFile, Works
<1> QED
  BY <1>1, <1>2, <1>3, <1>4, <1>5, <1>6 DEF Step, EvalAtom

LEMMA BudgetKept ==
  ASSUME Step
  PROVE  budget' = budget \/ (MoreLines /\ budget' = budget - 1)
<1>1. ASSUME NEW at, NEW l, NEW tok, Go(at, l, tok) PROVE budget' = budget
  BY <1>1 DEF Go, kept
<1>2. ASSUME NEW a, NEW p, NEW tok, Yield(a, p, tok) PROVE budget' = budget
  BY <1>1, <1>2 DEF Yield
<1>3. ASSUME NEW bad, Return(bad) PROVE budget' = budget
  BY <1>3 DEF Return
<1>4. ASSUME ParseLine PROVE budget' = budget
  BY <1>1, <1>3, <1>4 DEF ParseLine, BlankLine, NoKey, Include, Display, KeyEq, KeyPlusEq,
     NoOperator, Nothing, Open
<1>5. ASSUME ReadAtom PROVE budget' = budget
  <2>1. PICK tok : \/ Literal(tok) \/ BeginArray(tok) \/ NoAtom(tok)
                   \/ \E next : Reference(tok, next) \/ Indexed(tok, next)
    BY <1>5 DEF ReadAtom
  <2>2. ASSUME NEW a, NEW p, NEW t, OrNull(a, p, t) PROVE budget' = budget
    BY <1>2, <2>2 DEF OrNull
  <2>3. ASSUME NEW next, Reference(tok, next) \/ Indexed(tok, next) PROVE budget' = budget
    <3>1. PICK a, p, t : OrNull(a, p, t)
      BY <2>3 DEF Reference, Indexed
    <3> QED
      BY <2>2, <3>1
  <2>4. CASE Literal(tok) \/ BeginArray(tok) \/ NoAtom(tok)
    BY <1>1, <1>2, <2>4 DEF Literal, BeginArray, NoAtom
  <2> QED
    BY <2>1, <2>3, <2>4
<1>6. ASSUME NoArray \/ Items \/ Push PROVE budget' = budget
  BY <1>1, <1>2, <1>6 DEF NoArray, Items, Push
<1>7. ASSUME EvalRhs PROVE budget' = budget
  <2>1. ASSUME NEW a, NEW tok, ToStore(a, tok) PROVE budget' = budget
    BY <1>1, <2>1 DEF ToStore
  <2>2. ASSUME Rhs \/ FirstOperand \/ NoBuffer \/ Fallback PROVE budget' = budget
    BY <1>1, <2>1, <2>2 DEF Rhs, FirstOperand, SingleValue, BeginConcat, NoBuffer, Fallback
  <2>3. ASSUME Plus \/ AddOperand \/ BufferToStr PROVE budget' = budget
    BY <1>1, <2>3 DEF Plus, AddOperand, BufferToStr
  <2> QED
    BY <1>7, <2>2, <2>3 DEF EvalRhs
<1>8. ASSUME Store PROVE budget' = budget
  BY <1>1, <1>3, <1>8 DEF Store, Set, Show, JoinTexts, AppendStr
<1>9. ASSUME NEW raw, ReadLine(raw) \/ SkipLine(raw) \/ EndOfFile
      PROVE  budget' = budget \/ (MoreLines /\ budget' = budget - 1)
  BY <1>9 DEF ReadLine, SkipLine, EndOfFile
<1> QED
  BY <1>4, <1>5, <1>6, <1>7, <1>8, <1>9 DEF Step, EvalAtom

LEMMA TurnStep == CfgInv /\ ReadInv /\ TurnInv /\ [Next]_vars => TurnInv'
<1> SUFFICES ASSUME CfgInv, ReadInv, TurnInv, [Next]_vars PROVE TurnInv'
  OBVIOUS
<1>1. CASE UNCHANGED vars
  BY <1>1 DEF vars, TurnInv, BudgetInv, AtomSees, Tok, TokAt
<1>2. ASSUME NEW path, kfl_cfg_load(path) PROVE TurnInv'
  BY <1>2 DEF kfl_cfg_load, Open, Keep, Works, TurnInv, BudgetInv, AtomSees, Places, Outside
<1>3. CASE Step
  <2>1. Advanced
    BY <1>3, StepAhead
  <2>2. spare' \in 0 .. Failures
    <3>1. spare' = spare \/ (spare > 0 /\ spare' = spare - 1)
      BY <1>3, StepSpare DEF Works, Fails
    <3> QED
      BY <3>1, CfgAssumption DEF TurnInv, BudgetInv, CfgAssumption
  <2>3. budget' \in Nat
    BY <1>3, BudgetKept, CfgAssumption DEF TurnInv, BudgetInv, MoreLines, CfgAssumption
  <2> QED
    BY <2>1, <2>2, <2>3 DEF Advanced, TurnInv, BudgetInv
<1> QED
  BY <1>1, <1>2, <1>3 DEF Next

\* No line, and no files that include each other, keep kfl_cfg_load from its end:
\* whatever tokens come, and whichever allocation fails, each step of a load
\* takes a line from a file, closes one, or brings the line it works on nearer to
\* its end, by a measure that cannot fall for ever.  A scan that skipped a token
\* without consuming it, or a bracket that opened an array for nothing, would not.
THEOREM LoadsMakeHeadway ==
  Spec => [](LoadLeft \in Nat /\ LineLeft \in Nat) /\ LoadAdvances
<1>1. Init => TurnInv
  BY CfgAssumption DEF Init, TurnInv, BudgetInv, AtomSees, Places, Outside, CfgAssumption
<1>2. CfgInv /\ ReadInv /\ TurnInv /\ [Next]_vars => [pc # "idle" => Headway]_vars
  <2> SUFFICES ASSUME CfgInv, ReadInv, TurnInv, Next, pc # "idle" PROVE Headway
    BY DEF vars
  <2>1. Step
    BY DEF Next, kfl_cfg_load
  <2> QED
    BY <2>1, StepAhead DEF Advanced
<1>3. CfgInv /\ ReadInv /\ TurnInv => LoadLeft \in Nat /\ LineLeft \in Nat
  BY LeftIs
<1> QED
  BY <1>1, <1>2, <1>3, TurnStep, LinesRead, FilesAndPointers, PTL DEF Spec, LoadAdvances
=============================================================================
