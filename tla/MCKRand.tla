------------------------------ MODULE MCKRand -------------------------------
(* Model checking KRand: two threads that make three calls each, on seeds of *)
(* two bits, so that draws wrap past the largest one.                        *)
EXTENDS KRand

MCMix == [s \in 0 .. Word - 1 |-> (3 * s + 1) % Word]
MCStates == [t \in Threads |-> 2]
=============================================================================
