---------------------------- MODULE RandCounters ----------------------------
(***************************************************************************)
(* What src/src/krand64.c is to the threads that call it: counters, the    *)
(* seeds, each draw from one of which returns a value of its seed and      *)
(* advances it, all in one step.                                           *)
(***************************************************************************)
EXTENDS Naturals

CONSTANTS Threads, Cells, Global, Word, Maxes, Result(_, _)

VARIABLES
  seed,  \* the value of each counter
  ret    \* the value each thread's last draw returned

vars == <<seed, ret>>

Init ==
  /\ seed \in [Cells -> 0 .. Word - 1]
  /\ ret \in [Threads -> Nat]

Set(s) ==
  /\ seed' = [seed EXCEPT ![Global] = s]
  /\ UNCHANGED ret

Draw(t, c, m) ==
  /\ ret' = [ret EXCEPT ![t] = Result(seed[c], m)]
  /\ seed' = [seed EXCEPT ![c] = (@ + 1) % Word]

Next ==
  \/ \E s \in 0 .. Word - 1 : Set(s)
  \/ \E t \in Threads, c \in Cells, m \in Maxes : Draw(t, c, m)

Spec == Init /\ [][Next]_vars
=============================================================================
