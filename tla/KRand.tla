------------------------------- MODULE KRand --------------------------------
(***************************************************************************)
(* The random number generator of src/src/krand64.c, as USER_SPACE builds  *)
(* have it, called by several threads: set_kseed64 and krand64 hold a      *)
(* mutex around the global seed, krand64_r works on a state its caller     *)
(* owns.  A call is the sequence of its accesses to the lock and the seed, *)
(* so that those of different threads interleave; the post-increment of    *)
(* the seed is a load and a store.                                         *)
(*                                                                         *)
(* taken and base are history variables that no action reads.              *)
(***************************************************************************)
EXTENDS Naturals, Sequences

CONSTANTS
  Threads,  \* the threads that call the generator
  None,     \* no thread
  Global,   \* _kseed64; the state a thread passes to krand64_r is named after it
  Word,     \* 2^64
  Mix,      \* what the multiplications make of a seed
  Seeds,    \* the seeds threads set
  States,   \* what each thread initialises its state for krand64_r to
  Maxes,    \* the values of max they pass
  Calls     \* how many calls each thread makes

Cells == Threads \cup {Global}
Values == 0 .. Word - 1

ASSUME KRandAssumption ==
  /\ None \notin Threads
  /\ Global \notin Threads
  /\ Word \in Nat \ {0}
  /\ Mix \in [Values -> Nat]
  /\ Seeds \subseteq Values
  /\ States \in [Threads -> Values]
  /\ Maxes \subseteq Nat
  /\ Calls \in Nat

VARIABLES
  lock,   \* the thread that holds _krand64_mtx, or None
  seed,   \* _kseed64 and the states of krand64_r
  pc,     \* where each thread is in its call
  cell,   \* the seed its call works on
  arg,    \* set_kseed64's seed, or max
  reg,    \* the local variable seed
  rc,     \* what its last draw returned
  left,   \* the calls it has not made yet
  base,   \* the value each seed was last set to
  taken   \* the seeds drawn from each since, in the order of the stores

call == <<cell, arg>>
history == <<base, taken>>
vars == <<lock, seed, pc, cell, arg, reg, rc, left, base, taken>>

\* The value of a draw; a max of 0 asks for all of it.
Result(s, m) == IF m > 0 THEN Mix[s] % m ELSE Mix[s]

\* seed + 1, as uint64_t; a seed that stays or that does not wrap, as slips.
AdvanceNot(s) == s
AdvanceWide(s) == s + 1
Advance(s) == (s + 1) % Word

Init ==
  /\ lock = None
  /\ seed = [c \in Cells |-> IF c = Global THEN 1 % Word ELSE States[c]]
  /\ pc = [t \in Threads |-> "idle"]
  /\ cell = [t \in Threads |-> Global]
  /\ arg = [t \in Threads |-> 0]
  /\ reg = [t \in Threads |-> 0]
  /\ rc = [t \in Threads |-> 0]
  /\ left = [t \in Threads |-> Calls]
  /\ base = seed
  /\ taken = [c \in Cells |-> <<>>]

-----------------------------------------------------------------------------

Begin(t, at, c, a) ==
  /\ pc[t] = "idle"
  /\ left[t] > 0
  /\ left' = [left EXCEPT ![t] = @ - 1]
  /\ pc' = [pc EXCEPT ![t] = at]
  /\ cell' = [cell EXCEPT ![t] = c]
  /\ arg' = [arg EXCEPT ![t] = a]
  /\ UNCHANGED <<lock, seed, reg, rc, history>>

set_kseed64(t, s) == Begin(t, "lock_set", Global, s)
krand64(t, m) == Begin(t, "lock_draw", Global, m)
krand64_r(t, m) == Begin(t, "load", t, m)

Goto(t, at) == pc' = [pc EXCEPT ![t] = at]

\* pthread_mutex_lock waits until no thread holds the mutex; or not, as a slip.
FreeAlways == TRUE
Free == lock = None

Lock(t) ==
  /\ Free
  /\ lock' = t
  /\ \/ pc[t] = "lock_set" /\ Goto(t, "set")
     \/ pc[t] = "lock_draw" /\ Goto(t, "load")
  /\ UNCHANGED <<seed, call, reg, rc, left, history>>

Set(t) ==
  /\ pc[t] = "set"
  /\ seed' = [seed EXCEPT ![Global] = arg[t]]
  /\ base' = [base EXCEPT ![Global] = arg[t]]
  /\ taken' = [taken EXCEPT ![Global] = <<>>]
  /\ Goto(t, "unlock")
  /\ UNCHANGED <<lock, call, reg, rc, left>>

Load(t) ==
  /\ pc[t] = "load"
  /\ reg' = [reg EXCEPT ![t] = seed[cell[t]]]
  /\ Goto(t, "store")
  /\ UNCHANGED <<lock, seed, call, rc, left, history>>

Store(t) ==
  /\ pc[t] = "store"
  /\ seed' = [seed EXCEPT ![cell[t]] = Advance(reg[t])]
  /\ taken' = [taken EXCEPT ![cell[t]] = Append(@, reg[t])]
  /\ Goto(t, "mix")
  /\ UNCHANGED <<lock, call, reg, rc, left, base>>

\* After the multiplications; krand64_r has no lock to give back.
Compute(t) ==
  /\ pc[t] = "mix"
  /\ rc' = [rc EXCEPT ![t] = Result(reg[t], arg[t])]
  /\ Goto(t, IF cell[t] = Global THEN "unlock" ELSE "idle")
  /\ UNCHANGED <<lock, seed, call, reg, left, history>>

\* The lock after pthread_mutex_unlock; a lock that is kept, as a slip.
UnlockedNot == lock
Unlocked == None

Unlock(t) ==
  /\ pc[t] = "unlock"
  /\ lock' = Unlocked
  /\ Goto(t, "idle")
  /\ UNCHANGED <<seed, call, reg, rc, left, history>>

Step(t) == Lock(t) \/ Set(t) \/ Load(t) \/ Store(t) \/ Compute(t) \/ Unlock(t)

Next ==
  \E t \in Threads :
    \/ \E s \in Seeds : set_kseed64(t, s)
    \/ \E m \in Maxes : krand64(t, m) \/ krand64_r(t, m)
    \/ Step(t)

Spec == Init /\ [][Next]_vars

\* A thread inside a call is scheduled, and gets the mutex if nobody takes it.
FairSpec == Spec /\ \A t \in Threads : WF_vars(Step(t))

-----------------------------------------------------------------------------
(* Properties *)

Places == {"idle", "lock_set", "lock_draw", "set", "load", "store", "mix", "unlock"}

TypeOK ==
  /\ lock \in Threads \cup {None}
  /\ seed \in [Cells -> Values]
  /\ pc \in [Threads -> Places]
  /\ cell \in [Threads -> Cells]
  /\ arg \in [Threads -> Nat]
  /\ reg \in [Threads -> Nat]
  /\ rc \in [Threads -> Nat]
  /\ left \in [Threads -> 0 .. Calls]
  /\ base \in [Cells -> Values]
  /\ taken \in [Cells -> Seq(Nat)]

\* Between the mutex's lock and unlock there is only its holder, and a thread
\* that works on the global seed is there.
Inside(t) ==
  \/ pc[t] \in {"set", "unlock"}
  \/ pc[t] \in {"load", "store", "mix"} /\ cell[t] = Global
MutualExclusion == \A t \in Threads : Inside(t) <=> lock = t

\* "thread-safe" (krand64.h): the draws from a seed, whichever threads they
\* are from, get the number it was set to and those that follow it, each once.
DrawsInOrder ==
  \A c \in Cells : \A j \in DOMAIN taken[c] :
    taken[c][j] = IF j = 1 THEN base[c] ELSE (taken[c][j - 1] + 1) % Word

\* Every call returns (calls being finite in number, no thread keeps the
\* others from the mutex for ever).
CallsReturn == \A t \in Threads : pc[t] # "idle" ~> pc[t] = "idle"

\* A draw takes effect when its thread stores the seed.
SeenRet == [t \in Threads |-> IF pc[t] = "mix" THEN Result(reg[t], arg[t]) ELSE rc[t]]
Counters == INSTANCE RandCounters WITH ret <- SeenRet
IsAtomic == Counters!Spec
=============================================================================
