------------------------------- MODULE DictMap -------------------------------
(***************************************************************************)
(* What a dict (src/src/dict.h) is to its callers: a map from keys to      *)
(* values, NULL being a value like any other, and the number of its keys.  *)
(***************************************************************************)
EXTENDS Naturals, FiniteSets

CONSTANTS Keys, Vals, Absent

VARIABLES map, n

vars == <<map, n>>

Init ==
  /\ map = [k \in Keys |-> Absent]
  /\ n = 0

Insert(k, v) ==
  /\ map[k] = Absent
  /\ map' = [map EXCEPT ![k] = v]
  /\ n' = n + 1

Update(k, v) ==
  /\ map[k] # Absent
  /\ map' = [map EXCEPT ![k] = v]
  /\ UNCHANGED n

Delete(k) ==
  /\ map[k] # Absent
  /\ map' = [map EXCEPT ![k] = Absent]
  /\ n' = n - 1

Next == \E k \in Keys : Delete(k) \/ \E v \in Vals : Insert(k, v) \/ Update(k, v)

Spec == Init /\ [][Next]_vars
=============================================================================
