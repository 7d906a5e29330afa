----------------------------- MODULE KRandProofs ----------------------------
(***************************************************************************)
(* Proofs about KRand, for any number of threads and calls, any word size  *)
(* and any mixing function.                                                *)
(***************************************************************************)
EXTENDS KRand, TLAPS

USE KRandAssumption DEF KRandAssumption

-----------------------------------------------------------------------------
(* The inductive invariant *)

\* A thread works on the global seed or on its own state, and what it loaded
\* from one is still there when it stores: nobody else is inside.
Holding(t) ==
  /\ pc[t] \in {"load", "store", "mix"} => cell[t] \in {Global, t}
  /\ pc[t] = "lock_draw" => cell[t] = Global
  /\ pc[t] \in {"lock_set", "set"} => arg[t] \in Values
  /\ pc[t] \in {"lock_draw", "load", "store"} => arg[t] \in Maxes
  /\ pc[t] = "store" => reg[t] = seed[cell[t]]
  /\ pc[t] \in {"store", "mix"} => reg[t] \in Values

\* Each seed is the one its next draw should take.
NextSeed ==
  \A c \in Cells :
    seed[c] = IF taken[c] = <<>> THEN base[c]
              ELSE (taken[c][Len(taken[c])] + 1) % Word

IInv ==
  /\ TypeOK
  /\ MutualExclusion
  /\ DrawsInOrder
  /\ NextSeed
  /\ \A t \in Threads : Holding(t)

LEMMA ValuesFact ==
  /\ Values \subseteq Nat
  /\ \A s \in Values : (s + 1) % Word \in Values
  /\ 1 % Word \in Values
  /\ Global \in Cells /\ Threads \subseteq Cells
<1>1. \A n \in Nat : n % Word \in 0 .. Word - 1
  OBVIOUS
<1>2. \A s \in Values : s + 1 \in Nat /\ s \in Nat
  BY DEF Values
<1>3. Values = 0 .. Word - 1 /\ Global \in Cells /\ Threads \subseteq Cells
  BY DEF Values, Cells
<1> QED
  BY <1>1, <1>2, <1>3

LEMMA ResultType == ASSUME NEW s \in Values, NEW m \in Nat PROVE Result(s, m) \in Nat
<1>1. Mix[s] \in Nat
  OBVIOUS
<1>2. ASSUME NEW a \in Nat, m > 0 PROVE a % m \in Nat
  BY <1>2
<1> QED
  BY <1>1, <1>2 DEF Result

LEMMA InitInv == Init => IInv
<1> SUFFICES ASSUME Init PROVE IInv
  OBVIOUS
<1>1. /\ seed \in [Cells -> Values] /\ base = seed
      /\ taken = [c \in Cells |-> <<>>]
  <2>1. \A c \in Cells : (IF c = Global THEN 1 % Word ELSE States[c]) \in Values
    BY ValuesFact DEF Cells
  <2> QED
    BY <2>1 DEF Init
<1>2. TypeOK
  <2>1. taken \in [Cells -> Seq(Nat)]
    BY <1>1
  <2> QED
    BY <1>1, <2>1, ValuesFact DEF Init, TypeOK, Places
<1>3. MutualExclusion
  BY DEF Init, MutualExclusion, Inside
<1>4. DrawsInOrder
  BY <1>1 DEF DrawsInOrder
<1>5. NextSeed
  BY <1>1 DEF NextSeed
<1>6. \A t \in Threads : Holding(t)
  BY DEF Init, Holding
<1> QED
  BY <1>2, <1>3, <1>4, <1>5, <1>6 DEF IInv

-----------------------------------------------------------------------------
(* The steps *)

\* A call begins.
LEMMA BeginInv ==
  ASSUME IInv, NEW t \in Threads, NEW at \in {"lock_set", "lock_draw", "load"},
         NEW c \in Cells, NEW a \in Nat, Begin(t, at, c, a),
         at = "load" => c = t, at = "lock_draw" => c = Global,
         at = "lock_set" => a \in Values, at # "lock_set" => a \in Maxes
  PROVE  IInv'
<1>1. TypeOK'
  <2>1. left' \in [Threads -> 0 .. Calls]
    BY DEF IInv, TypeOK, Begin
  <2> QED
    BY <2>1 DEF IInv, TypeOK, Begin, Places, history
<1>2. MutualExclusion'
  BY DEF IInv, TypeOK, MutualExclusion, Inside, Begin
<1>3. DrawsInOrder' /\ NextSeed'
  BY DEF IInv, DrawsInOrder, NextSeed, Begin, history
<1>4. ASSUME NEW u \in Threads PROVE Holding(u)'
  <2>1. Holding(u) /\ UNCHANGED <<seed, reg>>
    BY DEF IInv, Begin
  <2>2. CASE u = t
    BY <2>1, <2>2 DEF IInv, TypeOK, Holding, Begin
  <2>3. CASE u # t
    <3>1. UNCHANGED <<pc[u], cell[u], arg[u]>>
      BY <2>3 DEF IInv, TypeOK, Begin
    <3> QED
      BY <2>1, <3>1 DEF Holding
  <2> QED
    BY <2>2, <2>3
<1> QED
  BY <1>1, <1>2, <1>3, <1>4 DEF IInv

LEMMA LockInv ==
  ASSUME IInv, NEW t \in Threads, Lock(t)
  PROVE  IInv'
<1>1. TypeOK'
  BY DEF IInv, TypeOK, Lock, Goto, Places, call, history
<1>2. MutualExclusion'
  <2> SUFFICES ASSUME NEW u \in Threads PROVE Inside(u)' <=> lock' = u
    BY DEF MutualExclusion
  <2>1. CASE u = t /\ pc[t] = "lock_set"
    BY <2>1 DEF IInv, TypeOK, Inside, Lock, Goto
  <2>2. CASE u = t /\ pc[t] = "lock_draw"
    BY <2>2 DEF IInv, TypeOK, Holding, Inside, Lock, Goto, call
  <2>3. CASE u # t
    <3>1. UNCHANGED <<pc[u], cell[u]>> /\ lock = None /\ lock' = t
      BY <2>3 DEF IInv, TypeOK, Lock, Goto, call, Free
    <3> QED
      BY <2>3, <3>1 DEF IInv, MutualExclusion, Inside
  <2> QED
    BY <2>1, <2>2, <2>3 DEF Lock
<1>3. DrawsInOrder' /\ NextSeed'
  BY DEF IInv, DrawsInOrder, NextSeed, Lock, history
<1>4. ASSUME NEW u \in Threads PROVE Holding(u)'
  <2>1. Holding(u) /\ UNCHANGED <<seed, cell, arg, reg>>
    BY DEF IInv, Lock, call
  <2>2. \/ pc'[u] = pc[u]
        \/ pc[u] = "lock_set" /\ pc'[u] = "set"
        \/ pc[u] = "lock_draw" /\ pc'[u] = "load"
    BY DEF IInv, TypeOK, Lock, Goto
  <2> QED
    BY <2>1, <2>2 DEF Holding
<1> QED
  BY <1>1, <1>2, <1>3, <1>4 DEF IInv

LEMMA SetInv ==
  ASSUME IInv, NEW t \in Threads, Set(t)
  PROVE  IInv'
<1>1. pc[t] = "set" /\ arg[t] \in Values /\ lock = t /\ lock' = lock
  BY DEF IInv, Holding, MutualExclusion, Inside, Set
<1>2. TypeOK'
  <2>1. taken' \in [Cells -> Seq(Nat)]
    <3>1. /\ taken \in [Cells -> Seq(Nat)] /\ <<>> \in Seq(Nat)
          /\ taken' = [taken EXCEPT ![Global] = <<>>]
      BY DEF IInv, TypeOK, Set
    <3> QED
      BY <3>1
  <2> QED
    BY <1>1, <2>1 DEF IInv, TypeOK, Set, Goto, Places, call
<1>3. MutualExclusion'
  BY <1>1 DEF IInv, TypeOK, MutualExclusion, Inside, Set, Goto, call
<1>4. DrawsInOrder' /\ NextSeed'
  <2>1. \A c \in Cells :
          IF c = Global
          THEN taken'[c] = <<>> /\ seed'[c] = base'[c]
          ELSE taken'[c] = taken[c] /\ seed'[c] = seed[c] /\ base'[c] = base[c]
    BY DEF IInv, TypeOK, Set
  <2>2. DrawsInOrder /\ NextSeed
    BY DEF IInv
  <2>3. ASSUME NEW c \in Cells, NEW j \in DOMAIN taken'[c]
        PROVE  taken'[c][j] = IF j = 1 THEN base'[c]
                              ELSE (taken'[c][j - 1] + 1) % Word
    <3>1. c # Global
      BY <2>1, <2>3
    <3>2. taken'[c] = taken[c] /\ base'[c] = base[c]
      BY <2>1, <3>1
    <3> QED
      BY <2>2, <2>3, <3>2 DEF DrawsInOrder
  <2>4. ASSUME NEW c \in Cells
        PROVE  seed'[c] = IF taken'[c] = <<>> THEN base'[c]
                          ELSE (taken'[c][Len(taken'[c])] + 1) % Word
    <3>1. CASE c = Global
      BY <2>1, <3>1
    <3>2. CASE c # Global
      <4>1. /\ taken'[c] = taken[c] /\ base'[c] = base[c] /\ seed'[c] = seed[c]
        BY <2>1, <3>2
      <4> QED
        BY <2>2, <4>1 DEF NextSeed
    <3> QED
      BY <3>1, <3>2
  <2> QED
    BY <2>3, <2>4 DEF DrawsInOrder, NextSeed
<1>5. ASSUME NEW u \in Threads PROVE Holding(u)'
  <2>1. CASE u = t
    <3>1. pc'[t] = "unlock"
      BY DEF IInv, TypeOK, Set, Goto
    <3> QED
      BY <2>1, <3>1 DEF Holding
  <2>2. CASE u # t
    <3>0. Holding(u)
      BY DEF IInv
    <3>1. UNCHANGED <<pc[u], cell[u], arg[u], reg[u]>>
      BY <2>2 DEF IInv, TypeOK, Set, Goto, call
    <3>2. ~ Inside(u)
      BY <1>1, <2>2 DEF IInv, MutualExclusion
    <3>3. pc[u] = "store" => cell[u] = u /\ cell[u] # Global
      BY <3>2 DEF IInv, Holding, Inside
    <3>4. pc[u] = "store" => seed'[cell[u]] = seed[cell[u]]
      BY <3>3, ValuesFact DEF IInv, TypeOK, Set
    <3>5. pc[u] = "store" => seed'[cell'[u]] = seed[cell[u]]
      BY <3>1, <3>4
    <3> QED
      BY <3>0, <3>1, <3>5 DEF Holding
  <2> QED
    BY <2>1, <2>2
<1> QED
  BY <1>2, <1>3, <1>4, <1>5 DEF IInv

LEMMA LoadInv ==
  ASSUME IInv, NEW t \in Threads, Load(t)
  PROVE  IInv'
<1>1. pc[t] = "load" /\ cell[t] \in Cells /\ seed[cell[t]] \in Values
  BY DEF IInv, TypeOK, Load
<1>2. TypeOK'
  BY <1>1, ValuesFact DEF IInv, TypeOK, Load, Goto, Places, call, history
<1>3. MutualExclusion'
  BY <1>1 DEF IInv, TypeOK, MutualExclusion, Inside, Load, Goto, call
<1>4. DrawsInOrder' /\ NextSeed'
  BY DEF IInv, DrawsInOrder, NextSeed, Load, history
<1>5. \A u \in Threads : Holding(u)'
  BY <1>1 DEF IInv, TypeOK, Holding, Load, Goto, call
<1> QED
  BY <1>2, <1>3, <1>4, <1>5 DEF IInv

\* What was loaded is still the seed: the number the draw takes is the next.
LEMMA StoreInv ==
  ASSUME IInv, NEW t \in Threads, Store(t)
  PROVE  IInv'
<1> DEFINE c == cell[t]
<1>1. /\ pc[t] = "store" /\ c \in Cells /\ c \in {Global, t}
      /\ reg[t] = seed[c] /\ reg[t] \in Values
      /\ (reg[t] + 1) % Word \in Values
  BY ValuesFact DEF IInv, TypeOK, Holding, Store
<1>2. /\ seed' = [seed EXCEPT ![c] = (reg[t] + 1) % Word]
      /\ taken' = [taken EXCEPT ![c] = Append(@, reg[t])]
      /\ pc' = [pc EXCEPT ![t] = "mix"]
      /\ UNCHANGED <<lock, cell, arg, reg, rc, left, base>>
  BY DEF Store, Advance, Goto, call
<1> HIDE DEF c
<1>3. TypeOK'
  <2>1. taken' \in [Cells -> Seq(Nat)]
    <3>1. Append(taken[c], reg[t]) \in Seq(Nat)
      BY <1>1, ValuesFact DEF IInv, TypeOK
    <3> QED
      BY <1>2, <3>1 DEF IInv, TypeOK
  <2>2. seed' \in [Cells -> Values]
    BY <1>1, <1>2 DEF IInv, TypeOK
  <2> QED
    BY <1>2, <2>1, <2>2 DEF IInv, TypeOK, Places
<1>4. MutualExclusion'
  BY <1>1, <1>2 DEF IInv, TypeOK, MutualExclusion, Inside
<1>5. DrawsInOrder' /\ NextSeed'
  <2>1. /\ taken[c] \in Seq(Nat) /\ taken'[c] = Append(taken[c], reg[t])
        /\ seed'[c] = (reg[t] + 1) % Word
        /\ \A d \in Cells : d # c => taken'[d] = taken[d] /\ seed'[d] = seed[d]
    BY <1>1, <1>2 DEF IInv, TypeOK
  <2>2. reg[t] = IF taken[c] = <<>> THEN base[c]
                 ELSE (taken[c][Len(taken[c])] + 1) % Word
    BY <1>1 DEF IInv, NextSeed
  <2>3. /\ Len(taken'[c]) = Len(taken[c]) + 1 /\ Len(taken[c]) \in Nat
        /\ DOMAIN taken'[c] = 1 .. Len(taken[c]) + 1
        /\ DOMAIN taken[c] = 1 .. Len(taken[c])
        /\ \A j \in 1 .. Len(taken[c]) : taken'[c][j] = taken[c][j]
        /\ taken'[c][Len(taken[c]) + 1] = reg[t]
        /\ taken'[c] # <<>>
        /\ taken[c] = <<>> <=> Len(taken[c]) = 0
    BY <2>1
  <2>4. ASSUME NEW j \in DOMAIN taken'[c]
        PROVE  taken'[c][j] = IF j = 1 THEN base[c]
                              ELSE (taken'[c][j - 1] + 1) % Word
    <3>1. CASE j = Len(taken[c]) + 1
      BY <2>2, <2>3, <3>1
    <3>2. CASE j \in 1 .. Len(taken[c])
      <4>1. taken[c][j] = IF j = 1 THEN base[c] ELSE (taken[c][j - 1] + 1) % Word
        BY <1>1, <2>3, <3>2 DEF IInv, DrawsInOrder
      <4>2. taken'[c][j] = taken[c][j]
        BY <2>3, <3>2
      <4>3. j # 1 => j - 1 \in 1 .. Len(taken[c])
        BY <2>3, <3>2
      <4>4. j # 1 => taken'[c][j - 1] = taken[c][j - 1]
        BY <2>3, <4>3
      <4> QED
        BY <4>1, <4>2, <4>4
    <3> QED
      BY <2>3, <3>1, <3>2
  <2>5. DrawsInOrder'
    <3> SUFFICES ASSUME NEW d \in Cells, NEW j \in DOMAIN taken'[d]
                 PROVE  taken'[d][j] = IF j = 1 THEN base'[d]
                                       ELSE (taken'[d][j - 1] + 1) % Word
      BY DEF DrawsInOrder
    <3>0. base' = base
      BY <1>2
    <3>1. CASE d = c
      BY <2>4, <3>0, <3>1
    <3>2. CASE d # c
      <4>1. taken'[d] = taken[d] /\ base'[d] = base[d]
        BY <2>1, <3>0, <3>2
      <4> QED
        BY <4>1 DEF IInv, DrawsInOrder
    <3> QED
      BY <3>1, <3>2
  <2>6. NextSeed'
    BY <1>2, <2>1, <2>3 DEF IInv, NextSeed
  <2> QED
    BY <2>5, <2>6
<1>6. ASSUME NEW u \in Threads PROVE Holding(u)'
  <2>1. CASE u = t
    BY <1>1, <1>2, <2>1 DEF IInv, TypeOK, Holding, c
  <2>2. CASE u # t
    <3>1. pc'[u] = pc[u]
      BY <1>2, <2>2 DEF IInv, TypeOK
    <3>2. pc[u] = "store" => cell[u] # c
      <4>1. cell[u] = Global /\ pc[u] = "store" => lock = u
        BY DEF IInv, MutualExclusion, Inside
      <4>2. c = Global => lock = t
        BY <1>1 DEF IInv, MutualExclusion, Inside, c
      <4>3. pc[u] = "store" => cell[u] \in {Global, u}
        BY DEF IInv, Holding
      <4> QED
        BY <1>1, <2>2, <4>1, <4>2, <4>3
    <3>3. pc[u] = "store" => seed'[cell[u]] = seed[cell[u]]
      BY <1>2, <3>2 DEF IInv, TypeOK
    <3>4. Holding(u)
      BY DEF IInv
    <3>5. /\ cell'[u] = cell[u] /\ arg'[u] = arg[u] /\ reg'[u] = reg[u]
          /\ pc[u] = "store" => seed'[cell'[u]] = seed[cell[u]]
      BY <1>2, <3>3
    <3> QED
      BY <3>1, <3>4, <3>5 DEF Holding
  <2> QED
    BY <2>1, <2>2
<1> QED
  BY <1>3, <1>4, <1>5, <1>6 DEF IInv

LEMMA ComputeInv ==
  ASSUME IInv, NEW t \in Threads, Compute(t)
  PROVE  IInv'
<1>1. /\ pc[t] = "mix" /\ reg[t] \in Values /\ arg[t] \in Nat
      /\ Result(reg[t], arg[t]) \in Nat
  BY ResultType DEF IInv, TypeOK, Holding, Compute
<1>2. TypeOK'
  BY <1>1 DEF IInv, TypeOK, Compute, Goto, Places, call, history
<1>3. MutualExclusion'
  BY <1>1 DEF IInv, TypeOK, MutualExclusion, Inside, Compute, Goto, call
<1>4. DrawsInOrder' /\ NextSeed'
  BY DEF IInv, DrawsInOrder, NextSeed, Compute, history
<1>5. \A u \in Threads : Holding(u)'
  BY <1>1 DEF IInv, TypeOK, Holding, Compute, Goto, call
<1> QED
  BY <1>2, <1>3, <1>4, <1>5 DEF IInv

LEMMA UnlockInv ==
  ASSUME IInv, NEW t \in Threads, Unlock(t)
  PROVE  IInv'
<1>1. pc[t] = "unlock" /\ lock = t
  BY DEF IInv, MutualExclusion, Inside, Unlock
<1>2. TypeOK'
  BY <1>1 DEF IInv, TypeOK, Unlock, Unlocked, Goto, Places, call, history
<1>3. MutualExclusion'
  BY <1>1 DEF IInv, TypeOK, MutualExclusion, Inside, Unlock, Unlocked, Goto, call
<1>4. DrawsInOrder' /\ NextSeed'
  BY DEF IInv, DrawsInOrder, NextSeed, Unlock, history
<1>5. \A u \in Threads : Holding(u)'
  BY <1>1 DEF IInv, TypeOK, Holding, Unlock, Goto, call
<1> QED
  BY <1>2, <1>3, <1>4, <1>5 DEF IInv

-----------------------------------------------------------------------------
(* The theorems *)

LEMMA NextInv == IInv /\ [Next]_vars => IInv'
<1> SUFFICES ASSUME IInv, [Next]_vars PROVE IInv'
  OBVIOUS
<1>1. ASSUME NEW t \in Threads, NEW s \in Seeds, set_kseed64(t, s) PROVE IInv'
  <2>1. s \in Nat /\ s \in Values
    BY ValuesFact
  <2> QED
    BY <1>1, <2>1, BeginInv, ValuesFact DEF set_kseed64
<1>2. ASSUME NEW t \in Threads, NEW m \in Maxes, krand64(t, m) PROVE IInv'
  <2>1. m \in Nat
    OBVIOUS
  <2> QED
    BY <1>2, <2>1, BeginInv, ValuesFact DEF krand64
<1>3. ASSUME NEW t \in Threads, NEW m \in Maxes, krand64_r(t, m) PROVE IInv'
  <2>1. m \in Nat /\ t \in Cells
    BY ValuesFact
  <2> QED
    BY <1>3, <2>1, BeginInv DEF krand64_r
<1>4. ASSUME NEW t \in Threads, Step(t) PROVE IInv'
  BY <1>4, LockInv, SetInv, LoadInv, StoreInv, ComputeInv, UnlockInv DEF Step
<1>5. CASE UNCHANGED vars
  BY <1>5 DEF vars, IInv, TypeOK, MutualExclusion, Inside, DrawsInOrder,
              NextSeed, Holding
<1> QED
  BY <1>1, <1>2, <1>3, <1>4, <1>5 DEF Next

LEMMA Always == Spec => []IInv
BY InitInv, NextInv, PTL DEF Spec

\* The threads' places and numbers always have their types; seeds wrap.
THEOREM RandTypes == Spec => []TypeOK
<1>1. IInv => TypeOK
  BY DEF IInv
<1> QED
  BY <1>1, Always, PTL

\* The mutex's holder, and no other thread, is between lock and unlock and
\* works on _kseed64.
THEOREM Exclusive == Spec => []MutualExclusion
<1>1. IInv => MutualExclusion
  BY DEF IInv
<1> QED
  BY <1>1, Always, PTL

\* Whatever the threads, the draws from a seed take it and the numbers that
\* follow it, none lost and none taken twice.
THEOREM DrawsOrdered == Spec => []DrawsInOrder
<1>1. IInv => DrawsInOrder
  BY DEF IInv
<1> QED
  BY <1>1, Always, PTL

\* Every draw is one step of RandCounters, at the moment its thread stores the
\* seed: the library's "thread-safe".
THEOREM Atomic == Spec => IsAtomic
<1>1. Init => Counters!Init
  <2> SUFFICES ASSUME Init PROVE Counters!Init
    OBVIOUS
  <2>1. TypeOK /\ SeenRet = rc
    BY InitInv DEF Init, IInv, SeenRet
  <2> QED
    BY <2>1 DEF Counters!Init, TypeOK, Values
<1>2. IInv /\ [Next]_vars => [Counters!Next]_(Counters!vars)
  <2> SUFFICES ASSUME IInv, [Next]_vars PROVE [Counters!Next]_(Counters!vars)
    OBVIOUS
  <2>0. TypeOK
    BY DEF IInv
  <2>1. ASSUME NEW t \in Threads, NEW at \in {"lock_set", "lock_draw", "load"},
               NEW c, NEW a, Begin(t, at, c, a)
        PROVE  UNCHANGED Counters!vars
    BY <2>0, <2>1 DEF TypeOK, Begin, SeenRet, Counters!vars
  <2>2. ASSUME NEW t \in Threads, Lock(t) \/ Load(t) \/ Unlock(t)
        PROVE  UNCHANGED Counters!vars
    BY <2>0, <2>2 DEF TypeOK, Lock, Load, Unlock, Goto, call, SeenRet, Counters!vars
  <2>3. ASSUME NEW t \in Threads, Set(t) PROVE Counters!Next
    <3>1. SeenRet' = SeenRet
      BY <2>0, <2>3 DEF TypeOK, Set, Goto, call, SeenRet
    <3>2. arg[t] \in Values
      BY <2>3 DEF IInv, Holding, Set
    <3> QED
      BY <2>3, <3>1, <3>2 DEF Set, Counters!Next, Counters!Set, Values
  <2>4. ASSUME NEW t \in Threads, Store(t) PROVE Counters!Next
    <3>1. /\ SeenRet' = [SeenRet EXCEPT ![t] = Result(reg[t], arg[t])]
      BY <2>0, <2>4 DEF TypeOK, Store, Goto, call, SeenRet
    <3>2. reg[t] = seed[cell[t]] /\ cell[t] \in Cells /\ arg[t] \in Maxes
      BY <2>0, <2>4 DEF IInv, TypeOK, Holding, Store
    <3>3. seed' = [seed EXCEPT ![cell[t]] = (@ + 1) % Word]
      BY <2>4, <3>2 DEF Store, Advance
    <3> QED
      BY <3>1, <3>2, <3>3 DEF Counters!Next, Counters!Draw
  <2>5. ASSUME NEW t \in Threads, Compute(t) PROVE UNCHANGED Counters!vars
    BY <2>0, <2>5 DEF TypeOK, Compute, Goto, call, SeenRet, Counters!vars
  <2>6. CASE UNCHANGED vars
    BY <2>6 DEF vars, SeenRet, Counters!vars
  <2> QED
    BY <2>1, <2>2, <2>3, <2>4, <2>5, <2>6
       DEF Next, Step, set_kseed64, krand64, krand64_r
<1> QED
  BY <1>1, <1>2, Always, PTL DEF Spec, IsAtomic, Counters!Spec

-----------------------------------------------------------------------------
(* Calls make headway *)

\* The steps thread t has before it at most, of its call and the calls it has
\* not made: it starts at most 5 steps from its return.
ToReturn(p) ==
  CASE p = "idle" -> 0
    [] p = "unlock" -> 1
    [] p \in {"set", "mix"} -> 2
    [] p = "store" -> 3
    [] p = "load" -> 4
    [] p \in {"lock_set", "lock_draw"} -> 5
Work(t) == 6 * left[t] + ToReturn(pc[t])

Waiting(t) == pc[t] \in {"lock_set", "lock_draw"}

\* As long as calls are running, one of them waits for nothing.
SomeoneGoesOn ==
  \A t \in Threads : pc[t] # "idle" =>
    \E u \in Threads : pc[u] # "idle" /\ (Waiting(u) => Free)

\* A step takes one thread nearer to its end and none further away.
WorkFalls ==
  [][\E t \in Threads :
       /\ Work(t)' < Work(t)
       /\ \A u \in Threads \ {t} : Work(u)' = Work(u)]_vars

LEMMA GoesOn == IInv => SomeoneGoesOn
<1> SUFFICES ASSUME IInv, NEW t \in Threads, pc[t] # "idle"
             PROVE  \E u \in Threads : pc[u] # "idle" /\ (Waiting(u) => Free)
  BY DEF SomeoneGoesOn
<1>1. CASE lock = None
  BY <1>1 DEF Free
<1>2. CASE lock # None
  <2>1. lock \in Threads /\ Inside(lock)
    BY <1>2 DEF IInv, TypeOK, MutualExclusion
  <2>2. pc[lock] # "idle" /\ ~ Waiting(lock)
    BY <2>1 DEF Inside, Waiting
  <2> QED
    BY <2>1, <2>2
<1> QED
  BY <1>1, <1>2

\* A step changes the place and the calls left of one thread.
LEMMA OneThread ==
  ASSUME IInv, NEW t \in Threads, NEW p \in Places, NEW n \in Nat,
         pc' = [pc EXCEPT ![t] = p], left' = [left EXCEPT ![t] = n],
         6 * n + ToReturn(p) < Work(t)
  PROVE  /\ Work(t)' < Work(t)
         /\ \A u \in Threads \ {t} : Work(u)' = Work(u)
BY DEF IInv, TypeOK, Work

LEMMA BeginWorks ==
  ASSUME IInv, NEW t \in Threads, NEW at \in {"lock_set", "lock_draw", "load"},
         NEW c, NEW a, Begin(t, at, c, a)
  PROVE  /\ Work(t)' < Work(t)
         /\ \A u \in Threads \ {t} : Work(u)' = Work(u)
<1>1. left[t] \in Nat /\ left[t] - 1 \in Nat /\ at \in Places
  BY DEF IInv, TypeOK, Begin, Places
<1>2. pc' = [pc EXCEPT ![t] = at] /\ left' = [left EXCEPT ![t] = left[t] - 1]
  BY DEF Begin
<1>3. ToReturn(at) \in 4 .. 5 /\ ToReturn(pc[t]) = 0
  BY DEF Begin, ToReturn
<1>4. 6 * (left[t] - 1) + ToReturn(at) < Work(t)
  BY <1>1, <1>3 DEF Work
<1> QED
  BY <1>1, <1>2, <1>4, OneThread

LEMMA StepWorks ==
  ASSUME IInv, NEW t \in Threads, Step(t)
  PROVE  /\ Work(t)' < Work(t)
         /\ \A u \in Threads \ {t} : Work(u)' = Work(u)
<1>1. left[t] \in Nat /\ left' = [left EXCEPT ![t] = left[t]]
  BY DEF IInv, TypeOK, Step, Lock, Set, Load, Store, Compute, Unlock
<1>2. PICK p \in Places :
        /\ pc' = [pc EXCEPT ![t] = p]
        /\ \/ Waiting(t) /\ p \in {"set", "load"}
           \/ pc[t] = "set" /\ p = "unlock"
           \/ pc[t] = "load" /\ p = "store"
           \/ pc[t] = "store" /\ p = "mix"
           \/ pc[t] = "mix" /\ p \in {"unlock", "idle"}
           \/ pc[t] = "unlock" /\ p = "idle"
  BY DEF Step, Lock, Set, Load, Store, Compute, Unlock, Goto, Places, Waiting
<1>3. /\ ToReturn(p) \in Nat /\ ToReturn(pc[t]) \in Nat
      /\ ToReturn(p) < ToReturn(pc[t])
  BY <1>2 DEF ToReturn, Waiting
<1>4. 6 * left[t] + ToReturn(p) < Work(t)
  BY <1>1, <1>3 DEF Work
<1> QED
  BY <1>1, <1>2, <1>4, OneThread

\* The safety half of "every call returns": while calls are running one of them
\* waits for nothing - the holder of the mutex never waits for it - and each
\* step of a thread uses up some of its finitely many, and of no other's.
THEOREM CallsMakeHeadway ==
  Spec => [](SomeoneGoesOn /\ \A t \in Threads : Work(t) \in Nat) /\ WorkFalls
<1>1. IInv => \A t \in Threads : Work(t) \in Nat
  <2> SUFFICES ASSUME IInv, NEW t \in Threads PROVE Work(t) \in Nat
    OBVIOUS
  <2>1. left[t] \in Nat /\ pc[t] \in Places
    BY DEF IInv, TypeOK
  <2>2. ToReturn(pc[t]) \in Nat
    BY <2>1 DEF Places, ToReturn
  <2> QED
    BY <2>1, <2>2 DEF Work
<1>2. IInv /\ [Next]_vars =>
        [\E t \in Threads : /\ Work(t)' < Work(t)
                            /\ \A u \in Threads \ {t} : Work(u)' = Work(u)]_vars
  BY BeginWorks, StepWorks DEF Next, set_kseed64, krand64, krand64_r
<1> QED
  BY <1>1, <1>2, GoesOn, Always, PTL DEF Spec, WorkFalls
=============================================================================
